------------------------------ MODULE Requests ------------------------------
(***************************************************************************)
(* Requests that the servers handle concurrently.  A handler is a sequence *)
(* of steps, one per await; between two of them any other request may run, *)
(* and what a handler has read it keeps, however stale, in got.  A         *)
(* @Transactional handler under REPEATABLE READ reads everything from the  *)
(* snapshot of its first SELECT and shows all it wrote at its commit; the  *)
(* other handlers commit each statement, and each flush, by itself.        *)
(***************************************************************************)
EXTENDS Naturals, Sequences, FiniteSets, SequencesExt, FiniteSetsExt

CONSTANTS
  Plans,        \* what the clients may send: a set of sequences of requests
  None,
  MaxFailures   \* bound: how many handlers fail half-way

VARIABLES
  plan,    \* plan[r]: request r, a record with the operation in field op
  pc,      \* how far the handler of r is
  got,     \* what it has read, and in the end what it answered
  past     \* past[r]: the requests that had ended when r arrived

requestVars == <<plan, pc, got, past>>

Req == DOMAIN plan
Ends == {"done", "refused", "failed"}

Op(r)      == plan[r].op
Running(r) == pc[r] \notin Ends \cup {"idle"}
Done(r)    == pc[r] = "done"
Ended(r)   == pc[r] \in Ends

\* The requests were in flight together.
Met(q, r) == /\ q # r
             /\ pc[q] # "idle" /\ pc[r] # "idle"
             /\ q \notin past[r] /\ r \notin past[q]

MetAny(r, S) == \E q \in S : Met(q, r)

RequestsInit ==
  /\ plan \in Plans
  /\ pc = [r \in Req |-> "idle"]
  /\ got = [r \in Req |-> None]
  /\ past = [r \in Req |-> {}]

\* r goes from one step to the next, keeping v.
Step(r, from, to, v) ==
  /\ pc[r] = from
  /\ pc' = [pc EXCEPT ![r] = to]
  /\ got' = [got EXCEPT ![r] = v]
  /\ past' = IF from = "idle"
               THEN [past EXCEPT ![r] = {q \in Req : Ended(q)}] ELSE past
  /\ UNCHANGED plan

\* The handler throws: the client sees an error of the API.
Refuse(r, from) == Step(r, from, "refused", None)

\* A statement, a call or the process fails.
Abort(r) ==
  /\ Running(r)
  /\ Cardinality({q \in Req : pc[q] = "failed"}) < MaxFailures
  /\ pc' = [pc EXCEPT ![r] = "failed"]
  /\ got' = [got EXCEPT ![r] = None]
  /\ UNCHANGED <<plan, past>>

-----------------------------------------------------------------------------
(* Tables are sequences of rows in the order of their ids.  A row is not   *)
(* removed from the sequence, it stops being live (isDeleted).             *)

LiveRows(table) == {i \in DOMAIN table : table[i].live}

\* UPDATE ... WHERE id IN S: only column f is written.
Write(table, S, f, v) ==
  [i \in DOMAIN table |->
     IF i \in S THEN [table[i] EXCEPT ![f] = v] ELSE table[i]]

SoftDelete(table, S) == Write(table, S, "live", FALSE)

\* findOne takes any of the rows that match, None when there is none.
AnyOf(S) == IF S = {} THEN {None} ELSE S
=============================================================================
