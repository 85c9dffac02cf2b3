CONSTANTS
  ann = ann  bob = bob  cid = cid  dan = dan  eve = eve
  A = A  B = B  C = C  D = D  t1 = t1  t2 = t2
  phone = phone  mia = mia  uni = uni  None = None
  Persons = {ann, bob, cid, dan, eve}
  Nicknames = {ann, bob, cid, dan, eve}
  Regions = {A, B, C, D}
  Terms = {t1, t2}
  DeviceTokens = {phone}
  Emails <- EmailsUsed
  Universities = {uni}
  StartDb <- Start
  Horizon = 2
  Versions <- VersionsUsed
  Popups <- PopupsShown
  Plans <- AllPlans
  MaxFailures = 1
SPECIFICATION Spec
INVARIANTS
  TypeOK
  ChecksHold
  TokensRotate
  WithdrawnIsGone
  BlockedListComplete
  CodesProve
  PopupIsNewer
PROPERTIES
  PrimaryStays
  NewCodeSurvives
\* every request ends: the state with nothing left to do is legal
CHECK_DEADLOCK FALSE
