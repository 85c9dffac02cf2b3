--------------------------- MODULE TradeLifecycle ---------------------------
(***************************************************************************)
(* What the trade of a product post promises, seen from outside: a post is *)
(* for sale without a buyer, is reserved and completed for one buyer at a  *)
(* time, a completed trade is final, and a buyer may strike the trade from *)
(* the purchase history.  Trade implements this for the posts of sellers   *)
(* who send one request at a time.                                         *)
(***************************************************************************)
CONSTANTS Posts, Users, Nobody

VARIABLES status,   \* status[t]: TradeStatus of post t
          buyer     \* buyer[t]: who holds the trade of t, or Nobody

vars == <<status, buyer>>

Init ==
  /\ status = [t \in Posts |-> "FOR_SALE"]
  /\ buyer = [t \in Posts |-> Nobody]

Become(t, s, b) ==
  /\ status' = [status EXCEPT ![t] = s]
  /\ buyer' = [buyer EXCEPT ![t] = b]

Sell(t) ==
  /\ status[t] = "FOR_SALE"
  /\ \E s \in {"RESERVED", "COMPLETED"}, b \in Users : Become(t, s, b)

Cancel(t) == status[t] = "RESERVED" /\ Become(t, "FOR_SALE", Nobody)

ChangeBuyer(t) ==
  /\ status[t] = "RESERVED"
  /\ \E b \in Users : Become(t, "RESERVED", b)

\* With the buyer of the reservation, still known or not, or with another.
Complete(t) ==
  /\ status[t] = "RESERVED"
  /\ \E b \in Users \cup {buyer[t]} : Become(t, "COMPLETED", b)

Forget(t) == status[t] # "FOR_SALE" /\ Become(t, status[t], Nobody)

Next ==
  \E t \in Posts :
    Sell(t) \/ Cancel(t) \/ ChangeBuyer(t) \/ Complete(t) \/ Forget(t)

Spec == Init /\ [][Next]_vars
=============================================================================
