--------------------------- MODULE MCSendMessage ----------------------------
(* Instances of SendMessage for TLC.                                       *)
EXTENDS SendMessage, TLC

CONSTANTS h1, h2, h3, h4, c1, c2, alice, bob, r1, r2

Send(c, u, r) == [conv |-> c, sender |-> u, rid |-> r]

\* Alice sends a message and retries it; Bob sends one without an id.
RetryAndOther ==
  h1 :> Send(c1, alice, r1) @@ h2 :> Send(c1, alice, r1)
    @@ h3 :> Send(c1, bob, NoRequestId)

\* The same, with a message to a conversation that is not there.
RetryAndMissing ==
  h1 :> Send(c1, alice, r1) @@ h2 :> Send(c1, alice, r1)
    @@ h3 :> Send(c1, bob, r2) @@ h4 :> Send(c2, bob, NoRequestId)

\* The client sends once and retries once.
TwoDeliveries == h1 :> Send(c1, alice, r1) @@ h2 :> Send(c1, alice, r1)

\* Three deliveries of one request.
ThreeDeliveries ==
  h1 :> Send(c1, alice, r1) @@ h2 :> Send(c1, alice, r1)
    @@ h3 :> Send(c1, alice, r1)
=============================================================================
