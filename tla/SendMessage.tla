---------------------------- MODULE SendMessage -----------------------------
(***************************************************************************)
(* ChatService.sendMessage with its de-duplication by requestId            *)
(* (apps/chat-server/src/chat/application/chat.service.ts and              *)
(* libs/redis/src/repositories/message-request-cache.repository.ts).       *)
(*                                                                         *)
(* A handler is one delivery of the 'sendMessage' event to a server        *)
(* instance; a retry of the client is another handler with the same        *)
(* request.  Every await of the code ends a step, so the steps of handlers *)
(* interleave.  A handler inserts at most one row, so the handler also     *)
(* names the row: number[h] is the messageNumber of the row h inserted,    *)
(* 0 while there is none.                                                  *)
(***************************************************************************)
EXTENDS Naturals, Sequences

CONSTANTS
  Handlers,         \* sendMessage events the servers receive
  Conversations,    \* conversation ids
  Missing,          \* the conversations with no live row in the database
  Users,
  RequestIds,       \* ids the clients attach to their requests
  NoRequestId,      \* the optional requestId is absent
  None,             \* a key Redis does not hold
  request,          \* request[h]: what handler h was sent
  LockOutlivesHandler,   \* a handler is done with its lock within LOCK_TTL
  RecordOutlivesRetries  \* no client retries later than REQUEST_TTL

Requests == [conv: Conversations, sender: Users,
             rid: RequestIds \cup {NoRequestId}]

\* Clients choose request ids; two users never use the same one in a room.
ASSUME RequestAssumption ==
  /\ NoRequestId \notin RequestIds
  /\ None \notin Handlers
  /\ Missing \subseteq Conversations
  /\ request \in [Handlers -> Requests]
  /\ \A g, h \in Handlers :
       /\ request[g].conv = request[h].conv
       /\ request[g].rid = request[h].rid
       /\ request[g].rid # NoRequestId
       => request[g].sender = request[h].sender
  /\ LockOutlivesHandler \in BOOLEAN
  /\ RecordOutlivesRetries \in BOOLEAN

VARIABLES
  pc,        \* where each handler is
  lock,      \* Redis message:lock:<conv>:<rid>, with the handler that set it
  record,    \* Redis message:request:<conv>:<rid>, the id of the message
  rowLock,   \* who holds the conversation row FOR UPDATE
  last,      \* conversation.lastMessageNumber
  readLast,  \* the lastMessageNumber a handler read inside its transaction
  number,    \* conversation_message rows: the number of h's row, or 0
  answer,    \* the message a handler acknowledges
  wire       \* 'newMessage' broadcasts, in the order they left

redis == <<lock, record>>
db    == <<rowLock, last, readLast, number>>
vars  == <<pc, redis, db, answer, wire>>

Conv(h) == request[h].conv
Key(h)  == <<Conv(h), request[h].rid>>
Keys    == Conversations \X RequestIds
HasId(h) == request[h].rid # NoRequestId

Stored(h) == number[h] # 0

\* Program points between taking the lock and deleting it.
Critical == {"load", "save", "insert", "release"}

Ended == {"acked", "failed"}

PCs == {"check", "lock", "waiting", "existing", "record", "notify"}
         \cup Critical \cup Ended

TypeOK ==
  /\ pc \in [Handlers -> PCs]
  /\ lock \in [Keys -> Handlers \cup {None}]
  /\ record \in [Keys -> Handlers \cup {None}]
  /\ rowLock \in [Conversations -> Handlers \cup {None}]
  /\ last \in [Conversations -> Nat]
  /\ readLast \in [Handlers -> Nat]
  /\ number \in [Handlers -> Nat]
  /\ answer \in [Handlers -> Handlers \cup {None}]
  /\ wire \in Seq(Handlers)

Init ==
  /\ pc = [h \in Handlers |-> "check"]
  /\ lock = [k \in Keys |-> None]
  /\ record = [k \in Keys |-> None]
  /\ rowLock = [c \in Conversations |-> None]
  /\ last = [c \in Conversations |-> 0]
  /\ readLast = [h \in Handlers |-> 0]
  /\ number = [h \in Handlers |-> 0]
  /\ answer = [h \in Handlers |-> None]
  /\ wire = <<>>

Goto(h, from, to) ==
  /\ pc[h] = from
  /\ pc' = [pc EXCEPT ![h] = to]

-----------------------------------------------------------------------------
(* The handler, one action per await.                                      *)

\* Without a requestId there is no de-duplication at all.
SkipDeduplication(h) ==
  /\ ~HasId(h)
  /\ Goto(h, "check", "load")
  /\ UNCHANGED <<redis, db, answer, wire>>

\* getMessageRequest finds the request completed: answer with that message.
FindCompleted(h) ==
  /\ HasId(h)
  /\ record[Key(h)] # None
  /\ Goto(h, "check", "existing")
  /\ answer' = [answer EXCEPT ![h] = record[Key(h)]]
  /\ UNCHANGED <<redis, db, wire>>

FindNothing(h) ==
  /\ HasId(h)
  /\ record[Key(h)] = None
  /\ Goto(h, "check", "lock")
  /\ UNCHANGED <<redis, db, answer, wire>>

\* Mutant: one key serves as lock and as record.
TryAcquireLock_MarksRecord(h) ==
  /\ Goto(h, "lock", "load")
  /\ lock[Key(h)] = None
  /\ lock' = [lock EXCEPT ![Key(h)] = h]
  /\ record' = [record EXCEPT ![Key(h)] = h]
  /\ UNCHANGED <<db, answer, wire>>

\* SET message:lock NX EX 10 succeeds.
TryAcquireLock(h) ==
  /\ Goto(h, "lock", "load")
  /\ lock[Key(h)] = None
  /\ lock' = [lock EXCEPT ![Key(h)] = h]
  /\ UNCHANGED <<record, db, answer, wire>>

FindLocked(h) ==
  /\ Goto(h, "lock", "waiting")
  /\ lock[Key(h)] # None
  /\ UNCHANGED <<redis, db, answer, wire>>

\* One turn of the polling loop of waitForCompletion that sees the record.
PollCompletion(h) ==
  /\ Goto(h, "waiting", "existing")
  /\ record[Key(h)] # None
  /\ answer' = [answer EXCEPT ![h] = record[Key(h)]]
  /\ UNCHANGED <<redis, db, wire>>

\* Mutant: a waiter that gives up frees the lock for the next retry.
WaitTimeout_FreesLock(h) ==
  /\ Goto(h, "waiting", "failed")
  /\ lock' = [lock EXCEPT ![Key(h)] = None]
  /\ UNCHANGED <<record, db, answer, wire>>

\* Mutant: a waiter that gives up takes the message for sent.
WaitTimeout_Acks(h) ==
  /\ Goto(h, "waiting", "acked")
  /\ UNCHANGED <<redis, db, answer, wire>>

\* maxWaitMs went by: SEND_MESSAGE_FAILED.
WaitTimeout(h) ==
  /\ Goto(h, "waiting", "failed")
  /\ UNCHANGED <<redis, db, answer, wire>>

\* Mutant: a duplicate is broadcast like a first delivery.
ReturnExisting_Broadcasts(h) ==
  /\ Goto(h, "existing", "acked")
  /\ wire' = Append(wire, answer[h])
  /\ UNCHANGED <<redis, db, answer>>

\* createEmissionForExistingMessage: acknowledge, broadcast nothing.
ReturnExisting(h) ==
  /\ Goto(h, "existing", "acked")
  /\ Stored(answer[h])
  /\ UNCHANGED <<redis, db, answer, wire>>

\* Mutant: the room is told before the transaction.
LoadParticipants_Announces(h) ==
  /\ Goto(h, "load", "save")
  /\ wire' = Append(wire, h)
  /\ UNCHANGED <<redis, db, answer>>

\* loadParticipants and validateSenderNotBlocking; a refusal is Abort.
LoadParticipants(h) ==
  /\ Goto(h, "load", "save")
  /\ UNCHANGED <<redis, db, answer, wire>>

\* Mutant: the conversation is read without FOR UPDATE.
FindByIdWithLock_PlainRead(h) ==
  /\ Conv(h) \notin Missing
  /\ Goto(h, "save", "insert")
  /\ readLast' = [readLast EXCEPT ![h] = last[Conv(h)]]
  /\ UNCHANGED <<redis, rowLock, last, number, answer, wire>>

\* The transaction of saveMessage: SELECT ... FOR UPDATE waits for the row.
FindByIdWithLock(h) ==
  /\ Conv(h) \notin Missing
  /\ rowLock[Conv(h)] = None
  /\ Goto(h, "save", "insert")
  /\ rowLock' = [rowLock EXCEPT ![Conv(h)] = h]
  /\ readLast' = [readLast EXCEPT ![h] = last[Conv(h)]]
  /\ UNCHANGED <<redis, last, number, answer, wire>>

ConversationNotFound(h) ==
  /\ Conv(h) \in Missing
  /\ Goto(h, "save", "failed")
  /\ UNCHANGED <<redis, db, answer, wire>>

\* INSERT of the message, UPDATE of the conversation, COMMIT.
CommitMessage(h) ==
  /\ Goto(h, "insert", IF HasId(h) THEN "release" ELSE "notify")
  /\ number' = [number EXCEPT ![h] = readLast[h] + 1]
  /\ last' = [last EXCEPT ![Conv(h)] = readLast[h] + 1]
  /\ rowLock' = [rowLock EXCEPT ![Conv(h)] = None]
  /\ answer' = [answer EXCEPT ![h] = h]
  /\ UNCHANGED <<redis, readLast, wire>>

\* completeRequest sends DEL of the lock, whoever holds it by now ...
DeleteLock(h) ==
  /\ Goto(h, "release", "record")
  /\ lock' = [lock EXCEPT ![Key(h)] = None]
  /\ UNCHANGED <<record, db, answer, wire>>

\* Mutant: the record holds the message number.
SetRecord_Number(h) ==
  /\ Goto(h, "record", "notify")
  /\ record' = [record EXCEPT ![Key(h)] = number[h]]
  /\ UNCHANGED <<lock, db, answer, wire>>

\* Mutant: completing a request only frees its lock.
SetRecord_Skipped(h) ==
  /\ Goto(h, "record", "notify")
  /\ UNCHANGED <<redis, db, answer, wire>>

\* ... and then SETEX of the record; other clients' commands come between.
SetRecord(h) ==
  /\ Goto(h, "record", "notify")
  /\ record' = [record EXCEPT ![Key(h)] = h]
  /\ UNCHANGED <<lock, db, answer, wire>>

\* Push notifications, TTL refresh and the return to the gateway, which
\* emits to the room and acknowledges without another await.
Broadcast(h) ==
  /\ Goto(h, "notify", "acked")
  /\ wire' = Append(wire, h)
  /\ UNCHANGED <<redis, db, answer>>

\* Mutant: a failed transaction is neither committed nor rolled back.
Abort_KeepsRow(h) ==
  /\ pc[h] \notin Ended
  /\ pc' = [pc EXCEPT ![h] = "failed"]
  /\ UNCHANGED <<redis, db, answer, wire>>

\* An await rejects (Redis, MySQL, a blocked sender) or the process dies.
\* Nothing is undone but the open transaction: the lock stays in Redis.
Abort(h) ==
  /\ pc[h] \notin Ended
  /\ pc' = [pc EXCEPT ![h] = "failed"]
  /\ rowLock' = [rowLock EXCEPT ![Conv(h)] = IF @ = h THEN None ELSE @]
  /\ UNCHANGED <<redis, last, readLast, number, answer, wire>>

-----------------------------------------------------------------------------
(* Time in Redis.                                                          *)

\* Mutant: SET NX without EX.
LockExpires_NoTTL(k) == k \notin Keys /\ UNCHANGED vars

LockExpires(k) ==
  /\ lock[k] # None
  /\ LockOutlivesHandler => pc[lock[k]] \notin Critical
  /\ lock' = [lock EXCEPT ![k] = None]
  /\ UNCHANGED <<pc, record, db, answer, wire>>

RecordExpires(k) ==
  /\ ~RecordOutlivesRetries
  /\ record[k] # None
  /\ record' = [record EXCEPT ![k] = None]
  /\ UNCHANGED <<pc, lock, db, answer, wire>>

-----------------------------------------------------------------------------
Progress(h) ==
  \/ SkipDeduplication(h) \/ FindCompleted(h) \/ FindNothing(h)
  \/ TryAcquireLock(h) \/ FindLocked(h)
  \/ PollCompletion(h) \/ WaitTimeout(h) \/ ReturnExisting(h)
  \/ LoadParticipants(h) \/ FindByIdWithLock(h) \/ ConversationNotFound(h)
  \/ CommitMessage(h) \/ DeleteLock(h) \/ SetRecord(h) \/ Broadcast(h)

Next ==
  \/ \E h \in Handlers : Progress(h) \/ Abort(h)
  \/ \E k \in Keys : LockExpires(k) \/ RecordExpires(k)

Spec == Init /\ [][Next]_vars

\* The event loop runs every handler whose await has settled, MySQL grants a
\* row lock that became free, and Redis expires keys.
FairSpec == /\ Spec
            /\ \A h \in Handlers : WF_vars(Progress(h))
            /\ \A k \in Keys : WF_vars(LockExpires(k))

-----------------------------------------------------------------------------
(* Safety.                                                                 *)

\* The numbers of a conversation's messages are exactly 1..lastMessageNumber,
\* each used once, whatever sends overlap, time out or abort: what unread
\* counts and the paging of getMessages rely on.
Numbering ==
  \A c \in Conversations :
    /\ \A h \in Handlers :
         Conv(h) = c /\ Stored(h) => number[h] \in 1..last[c]
    /\ \A n \in 1..last[c] :
         \E h \in Handlers : Conv(h) = c /\ number[h] = n
    /\ \A g, h \in Handlers :
         Conv(g) = c /\ Conv(h) = c /\ Stored(g) /\ number[g] = number[h]
           => g = h

\* A request record only ever names a committed message of that request, so
\* answering a retry from Redis alone (lines 325-341) never invents one.
RecordedIsStored ==
  \A k \in Keys : record[k] # None => Stored(record[k]) /\ Key(record[k]) = k

\* A positive acknowledgement means that the sender's message is in the
\* database under the same request, whichever handler stored it.
AckedIsStored ==
  \A h \in Handlers :
    pc[h] = "acked" => /\ answer[h] # None
                       /\ Stored(answer[h])
                       /\ request[answer[h]] = request[h]

\* The room hears of a message at most once and never of one that a rollback
\* took away, retries and waiting duplicates included.
BroadcastOnce ==
  /\ \A i \in 1..Len(wire) : Stored(wire[i])
  /\ \A i, j \in 1..Len(wire) : wire[i] = wire[j] => i = j

\* While no lock expires under its holder, at most one handler of a request
\* is between tryAcquireLock and the DEL of completeRequest: the DEL, which
\* does not look whose lock it is, never frees another handler's.
OneHandlerPerRequest ==
  LockOutlivesHandler =>
    \A g, h \in Handlers :
      /\ HasId(g)
      /\ Key(g) = Key(h)
      /\ pc[g] \in Critical
      /\ pc[h] \in Critical
      => g = h

\* Stored messages are never renumbered and a conversation's counter never
\* goes back.
AppendOnly ==
  [][/\ \A h \in Handlers : Stored(h) => number'[h] = number[h]
     /\ \A c \in Conversations : last'[c] >= last[c]]_vars

\* A retry sent after a positive acknowledgement, within the life of the
\* record, is recognised: it does not go on to take the lock and save again.
RetryAfterAckIsDuplicate ==
  [][RecordOutlivesRetries =>
       \A g, h \in Handlers :
         /\ HasId(h)
         /\ Key(g) = Key(h)
         /\ pc[g] = "acked"
         /\ pc[h] = "check"
         => pc'[h] # "lock"]_vars

-----------------------------------------------------------------------------
(* The inductive invariant behind the safety properties.                   *)

\* The program points a request without an id never reaches.
IdInv ==
  \A h \in Handlers :
    pc[h] \in {"lock", "waiting", "existing", "release", "record"} => HasId(h)

\* A handler stores its message when it commits, not before.
NotYetStored ==
  \A h \in Handlers :
    pc[h] \in {"check", "lock", "waiting", "existing", "load", "save", "insert"}
      => ~Stored(h)

\* Inside the transaction the row is locked and its counter still current.
RowInv ==
  \A h \in Handlers :
    pc[h] = "insert" => /\ rowLock[Conv(h)] = h
                        /\ readLast[h] = last[Conv(h)]

AnswerInv ==
  \A h \in Handlers :
    /\ pc[h] \in {"existing", "release", "record", "notify", "acked"}
         => answer[h] # None
    /\ pc[h] \in {"release", "record", "notify"} => answer[h] = h
    /\ answer[h] # None => /\ Stored(answer[h])
                           /\ request[answer[h]] = request[h]

LockInv ==
  LockOutlivesHandler =>
    \A h \in Handlers : HasId(h) /\ pc[h] \in Critical => lock[Key(h)] = h

RecordInv ==
  RecordOutlivesRetries =>
    \A h \in Handlers :
      HasId(h) /\ pc[h] \in {"existing", "notify", "acked"}
        => record[Key(h)] # None

WireInv ==
  /\ \A i \in 1..Len(wire) : pc[wire[i]] = "acked" /\ Stored(wire[i])
  /\ \A i, j \in 1..Len(wire) : wire[i] = wire[j] => i = j

IInv ==
  /\ TypeOK
  /\ IdInv
  /\ NotYetStored
  /\ RowInv
  /\ Numbering
  /\ RecordedIsStored
  /\ AnswerInv
  /\ LockInv
  /\ RecordInv
  /\ WireInv

-----------------------------------------------------------------------------
(* What the comments of the code say and the code does not do.             *)

\* sendMessage calls its check an atomic duplicate check and tryAcquireLock
\* says one request only gets the lock: one message per request at most.
AtMostOneMessagePerRequest ==
  \A g, h \in Handlers :
    HasId(g) /\ Key(g) = Key(h) /\ Stored(g) /\ Stored(h) => g = h

-----------------------------------------------------------------------------
(* Liveness.                                                               *)

\* Every sendMessage event is answered: no handler waits for ever on a lock
\* that its holder left behind, on a record that never comes, or on the row.
EveryRequestAnswered == \A h \in Handlers : <>(pc[h] \in Ended)

\* A lock left by an aborted handler does not block the request for good.
LockEventuallyFree == \A k \in Keys : lock[k] # None ~> lock[k] = None

\* Sending settles: every event is answered and every lock is freed, whatever
\* handlers fail.
SendingSettles == EveryRequestAnswered /\ LockEventuallyFree

-----------------------------------------------------------------------------
(* The abstract log.                                                       *)

MessageNumbered(c, n) ==
  CHOOSE h \in Handlers : Conv(h) = c /\ number[h] = n

logOf == [c \in Conversations |->
            [n \in 1..last[c] |-> MessageNumbered(c, n)]]

Log == INSTANCE MessageLog
         WITH Messages <- Handlers, ConvOf <- [h \in Handlers |-> Conv(h)],
              log <- logOf, delivered <- wire

\* Every step of sending appends one message to one conversation's log, or
\* announces one logged message for the first time, or is invisible.
ImplementsMessageLog == Log!Spec
=============================================================================
