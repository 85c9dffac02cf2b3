------------------------ MODULE MCParticipantCache --------------------------
(* Instances of ParticipantCache for TLC.                                  *)
EXTENDS ParticipantCache, TLC

CONSTANTS p1, p2, p3, p4, alice, bob, carol

Do(k, u, n) == [kind |-> k, user |-> u, num |-> n]

\* Everything at once: a send that may have to fill the cache, a read, a
\* mute from the same user's other device, and the other user leaving.
Mixed ==
  p1 :> Do("send", bob, 0) @@ p2 :> Do("read", alice, 1)
    @@ p3 :> Do("mute", alice, 0) @@ p4 :> Do("leave", bob, 0)

\* Alice mutes, reads and unmutes; Bob reads.
TwoUsers ==
  p1 :> Do("mute", alice, 0) @@ p2 :> Do("read", bob, 2)
    @@ p3 :> Do("unmute", alice, 0) @@ p4 :> Do("read", alice, 1)

ReadAndSend == p1 :> Do("send", bob, 0) @@ p2 :> Do("read", alice, 1)

With(ops, faults, warm, calm) ==
  [op |-> ops, faults |-> faults, warm |-> warm, onePerUser |-> calm]

\* A cold cache and all that may fail; and updates that may only be cut short.
MixedOrCalm == {With(Mixed, {"abort", "expire", "withdraw"}, FALSE, FALSE),
                With(TwoUsers, {"abort"}, TRUE, TRUE)}
SentScene   == {With(ReadAndSend, {}, TRUE, FALSE)}
=============================================================================
