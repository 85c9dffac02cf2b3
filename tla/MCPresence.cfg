CONSTANTS
  s1 = s1  s2 = s2  s3 = s3
  r1 = r1  r2 = r2  r3 = r3  r4 = r4  r5 = r5  r6 = r6
  alice = alice  bob = bob
  c1 = c1  c2 = c2
  None = None
  Users = {alice, bob}
  Sockets = {s1, s2, s3}
  Conversations = {c1, c2}
  owner <- Owner
  members <- Members
  Requests = {r1, r2, r3, r4, r5, r6}
  req <- Visit
  Scenes <- OrderlyOrFailing
SPECIFICATION FairSpec
INVARIANTS
  TypeOK
  NoGhosts
  JoinedIsOnline
  RoomsExpire
PROPERTY AwayIsEventuallyOffline
\* clients may stop sending: the state with nothing left to do is legal
CHECK_DEADLOCK FALSE
