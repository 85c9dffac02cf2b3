----------------------------- MODULE MCPresence -----------------------------
(* Instances of Presence for TLC.                                          *)
EXTENDS Presence, TLC

CONSTANTS s1, s2, s3, r1, r2, r3, r4, r5, r6, alice, bob, c1, c2

Ev(k, s, c) == [kind |-> k, socket |-> s, conv |-> c]

\* Alice connects twice, Bob once; Bob takes no part in c2.
Owner == s1 :> alice @@ s2 :> alice @@ s3 :> bob
Members == c1 :> {alice, bob} @@ c2 :> {alice}

\* Alice joins both rooms, leaves one and joins it again from another
\* socket; Bob joins his room and tries the other one.
Visit ==
  r1 :> Ev("join", s1, c1) @@ r2 :> Ev("join", s1, c2)
    @@ r3 :> Ev("leave", s1, c1) @@ r4 :> Ev("join", s2, c1)
    @@ r5 :> Ev("join", s3, c1) @@ r6 :> Ev("join", s3, c2)

Cast(sockets, requests, faults, calm) ==
  [sockets |-> sockets, requests |-> requests, faults |-> faults, orderly |-> calm]

\* The visit, one step after the other, while sessions and indexes expire;
\* Alice's two sockets joining c1, and leaving it, in any order; the same
\* joins while commands fail and rooms expire; and each kind of failure during
\* the visit of a single socket.
OrderlyOrFailing ==
  {Cast({s1, s2, s3}, {r1, r2, r3, r4, r6}, {"session", "index"}, TRUE),
   Cast({s1, s2}, {r1, r3, r4}, {}, FALSE),
   Cast({s1, s2}, {r1, r4}, {"abort", "room"}, FALSE),
   Cast({s1}, {r1, r3}, FaultKinds, FALSE),
   Cast({s3}, {r5, r6}, FaultKinds, FALSE)}
=============================================================================
