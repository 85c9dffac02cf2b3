CONSTANTS
  h1 = h1  h2 = h2  h3 = h3  h4 = h4
  c1 = c1  c2 = c2
  alice = alice  bob = bob
  r1 = r1  r2 = r2
  NoRequestId = NoRequestId
  None = None
  Handlers = {h1, h2, h3}
  Conversations = {c1}
  Missing = {}
  Users = {alice, bob}
  RequestIds = {r1}
  request <- ThreeDeliveries
  LockOutlivesHandler = TRUE
  RecordOutlivesRetries = TRUE
SPECIFICATION FairSpec
INVARIANT OneHandlerPerRequest
PROPERTIES
  RetryAfterAckIsDuplicate
  SendingSettles
\* every handler ends: the state with nothing left to do is legal
CHECK_DEADLOCK FALSE
