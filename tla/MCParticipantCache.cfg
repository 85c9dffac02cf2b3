CONSTANTS
  p1 = p1  p2 = p2  p3 = p3  p4 = p4
  alice = alice  bob = bob  carol = carol
  None = None
  Ops = {p1, p2, p3, p4}
  Users = {alice, bob, carol}
  Participants = {alice, bob}
  Scenes <- MixedOrCalm
SPECIFICATION Spec
INVARIANTS
  TypeOK
  CachedFieldsAreOwn
  CacheAgreesWhenQuiet
\* every request ends: the state with nothing left to do is legal
CHECK_DEADLOCK FALSE
