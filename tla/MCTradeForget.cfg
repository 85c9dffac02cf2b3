CONSTANTS
  o1 = o1  o2 = o2  o3 = o3  o4 = o4  o5 = o5  o6 = o6  o7 = o7
  sally = sally  alice = alice  bob = bob
  t1 = t1  t2 = t2
  c1 = c1  c2 = c2  c3 = c3
  None = None
  Users = {sally, alice, bob}
  Posts = {t1, t2}
  Conversations = {c1, c2, c3}
  Prices = {1, 2}
  seller <- SellerOf
  convPost <- AboutPost
  participants <- InChat
  Ops = {o1, o2}
  Plans <- ForgetPlans
  Faults = {}
  Patient = {sally, alice, bob}
SPECIFICATION Spec
INVARIANT ReservedHasProgress
\* every request ends: the state with nothing left to do is legal
CHECK_DEADLOCK FALSE
