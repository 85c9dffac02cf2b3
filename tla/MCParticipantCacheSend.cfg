CONSTANTS
  p1 = p1  p2 = p2  p3 = p3  p4 = p4
  alice = alice  bob = bob  carol = carol
  None = None
  Ops = {p1, p2}
  Users = {alice, bob, carol}
  Participants = {alice, bob}
  Scenes <- SentScene
SPECIFICATION Spec
INVARIANT EveryParticipantNotified
\* every request ends: the state with nothing left to do is legal
CHECK_DEADLOCK FALSE
