CONSTANTS
  h1 = h1  h2 = h2  h3 = h3  h4 = h4
  c1 = c1  c2 = c2
  alice = alice  bob = bob
  r1 = r1  r2 = r2
  NoRequestId = NoRequestId
  None = None
  Handlers = {h1, h2, h3, h4}
  Conversations = {c1, c2}
  Missing = {c2}
  Users = {alice, bob}
  RequestIds = {r1, r2}
  request <- RetryAndMissing
  LockOutlivesHandler = FALSE
  RecordOutlivesRetries = FALSE
SPECIFICATION Spec
INVARIANTS
  TypeOK
  Numbering
  RecordedIsStored
  AckedIsStored
  BroadcastOnce
PROPERTY ImplementsMessageLog
\* every handler ends: the state with nothing left to do is legal
CHECK_DEADLOCK FALSE
