CONSTANTS
  h1 = h1  h2 = h2  h3 = h3  h4 = h4
  c1 = c1  c2 = c2
  alice = alice  bob = bob
  r1 = r1  r2 = r2
  NoRequestId = NoRequestId
  None = None
  Handlers = {h1, h2}
  Conversations = {c1}
  Missing = {}
  Users = {alice}
  RequestIds = {r1}
  request <- TwoDeliveries
  LockOutlivesHandler = TRUE
  RecordOutlivesRetries = TRUE
SPECIFICATION Spec
INVARIANT AtMostOneMessagePerRequest
CHECK_DEADLOCK FALSE
