------------------------- MODULE SendMessageProofs --------------------------
(***************************************************************************)
(* The safety of SendMessage for any number of handlers, conversations and *)
(* requests.                                                               *)
(***************************************************************************)
EXTENDS SendMessage, SequenceTheorems, TLAPS

\* Every variable keeps its type whatever the handlers do.
LEMMA TypeStep == TypeOK /\ IdInv /\ [Next]_vars => TypeOK'
<1> USE RequestAssumption DEF TypeOK, PCs, Critical, Ended, Keys, Key, Conv,
        HasId, Requests, Goto, redis, db
<1> SUFFICES ASSUME TypeOK, IdInv, [Next]_vars PROVE TypeOK'
  OBVIOUS
<1>1. CASE UNCHANGED vars
  BY <1>1 DEF vars
<1>2. ASSUME NEW h \in Handlers, Progress(h) PROVE TypeOK'
  <2>1. CASE SkipDeduplication(h)
    BY <2>1 DEF SkipDeduplication
  <2>2. CASE FindCompleted(h)
    BY <2>2 DEF FindCompleted
  <2>3. CASE FindNothing(h)
    BY <2>3 DEF FindNothing
  <2>4. CASE TryAcquireLock(h)
    BY <2>4 DEF TryAcquireLock
  <2>5. CASE FindLocked(h)
    BY <2>5 DEF FindLocked
  <2>6. CASE PollCompletion(h)
    BY <2>6 DEF PollCompletion, IdInv
  <2>7. CASE WaitTimeout(h)
    BY <2>7 DEF WaitTimeout
  <2>8. CASE ReturnExisting(h)
    BY <2>8 DEF ReturnExisting
  <2>9. CASE LoadParticipants(h)
    BY <2>9 DEF LoadParticipants
  <2>10. CASE FindByIdWithLock(h)
    BY <2>10 DEF FindByIdWithLock
  <2>11. CASE ConversationNotFound(h)
    BY <2>11 DEF ConversationNotFound
  <2>12. CASE CommitMessage(h)
    BY <2>12 DEF CommitMessage
  <2>13. CASE DeleteLock(h)
    BY <2>13 DEF DeleteLock
  <2>14. CASE SetRecord(h)
    BY <2>14 DEF SetRecord
  <2>15. CASE Broadcast(h)
    BY <2>15 DEF Broadcast
  <2> QED
    BY <1>2, <2>1, <2>2, <2>3, <2>4, <2>5, <2>6, <2>7, <2>8, <2>9, <2>10,
       <2>11, <2>12, <2>13, <2>14, <2>15 DEF Progress
<1>3. ASSUME NEW h \in Handlers, Abort(h) PROVE TypeOK'
  BY <1>3 DEF Abort
<1>4. ASSUME NEW k \in Keys, LockExpires(k) PROVE TypeOK'
  BY <1>4 DEF LockExpires
<1>5. ASSUME NEW k \in Keys, RecordExpires(k) PROVE TypeOK'
  BY <1>5 DEF RecordExpires
<1> QED
  BY <1>1, <1>2, <1>3, <1>4, <1>5 DEF Next

LEMMA TypeInit == Init => TypeOK
  BY RequestAssumption DEF Init, TypeOK, PCs, Keys

-----------------------------------------------------------------------------
(* What one step can do to each part of the state.                         *)

\* A handler's program counter and answer change only by its own step.
LEMMA OwnLocals ==
  ASSUME TypeOK, [Next]_vars, NEW g \in Handlers
  PROVE  \/ Progress(g)
         \/ Abort(g)
         \/ pc'[g] = pc[g] /\ answer'[g] = answer[g]
<1> DEFINE Own(h) == /\ pc' = [pc EXCEPT ![h] = pc'[h]]
                     /\ answer' = [answer EXCEPT ![h] = answer'[h]]
<1>1. ASSUME NEW h \in Handlers, Own(h), h # g
      PROVE  pc'[g] = pc[g] /\ answer'[g] = answer[g]
  BY <1>1 DEF TypeOK
<1>2. ASSUME NEW h \in Handlers, Progress(h)
      PROVE  Own(h)
  BY <1>2 DEF TypeOK, Progress, Goto, SkipDeduplication, FindCompleted,
     FindNothing, TryAcquireLock, FindLocked, PollCompletion, WaitTimeout,
     ReturnExisting, LoadParticipants, FindByIdWithLock, ConversationNotFound,
     CommitMessage, DeleteLock, SetRecord, Broadcast
<1>3. ASSUME NEW h \in Handlers, Abort(h)
      PROVE  Own(h)
  BY <1>3 DEF TypeOK, Abort
<1>4. (\E h \in Handlers : Progress(h) \/ Abort(h)) \/ UNCHANGED <<pc, answer>>
  BY DEF Next, vars, LockExpires, RecordExpires
<1> HIDE DEF Own
<1> QED
  BY <1>1, <1>2, <1>3, <1>4

LEMMA OwnCounter ==
  ASSUME TypeOK, [Next]_vars, NEW g \in Handlers, pc'[g] # pc[g]
  PROVE  Progress(g) \/ Abort(g)
  BY OwnLocals

\* Rows and counters change only when a handler commits.
LEMMA OnlyCommitWrites ==
  ASSUME TypeOK, [Next]_vars
  PROVE  \/ UNCHANGED <<number, last>>
         \/ \E h \in Handlers : CommitMessage(h)
  BY DEF Next, vars, db, Progress, Abort, SkipDeduplication, FindCompleted,
     FindNothing, TryAcquireLock, FindLocked, PollCompletion, WaitTimeout,
     ReturnExisting, LoadParticipants, FindByIdWithLock, ConversationNotFound,
     DeleteLock, SetRecord, Broadcast, LockExpires, RecordExpires

\* A stored message keeps its number for good.
LEMMA StoredStays ==
  ASSUME TypeOK, NotYetStored, [Next]_vars, NEW g \in Handlers, Stored(g)
  PROVE  number'[g] = number[g]
<1>1. ASSUME NEW h \in Handlers, CommitMessage(h) PROVE number'[g] = number[g]
  <2>1. ~Stored(h)
    BY <1>1 DEF CommitMessage, Goto, NotYetStored
  <2> QED
    BY <1>1, <2>1 DEF CommitMessage, TypeOK
<1> QED
  BY <1>1, OnlyCommitWrites

-----------------------------------------------------------------------------
(* The conjuncts of IInv are preserved.                                    *)

LEMMA IdStep == TypeOK /\ IdInv /\ [Next]_vars => IdInv'
<1> SUFFICES ASSUME TypeOK, IdInv, [Next]_vars, NEW g \in Handlers,
                    pc'[g] \in {"lock", "waiting", "existing", "release",
                                "record"}
             PROVE  HasId(g)
  BY DEF IdInv, HasId
<1>1. CASE pc'[g] = pc[g]
  BY <1>1 DEF IdInv
<1>2. CASE pc'[g] # pc[g]
  <2>1. Progress(g)
    BY <1>2, OwnCounter DEF Abort, TypeOK
  <2> QED
    BY <2>1 DEF IdInv, TypeOK, Progress, Goto, SkipDeduplication,
       FindCompleted, FindNothing, TryAcquireLock, FindLocked, PollCompletion,
       WaitTimeout, ReturnExisting, LoadParticipants, FindByIdWithLock,
       ConversationNotFound, CommitMessage, DeleteLock, SetRecord, Broadcast
<1> QED
  BY <1>1, <1>2

LEMMA NotYetStoredStep ==
  TypeOK /\ NotYetStored /\ [Next]_vars => NotYetStored'
<1> DEFINE Before == {"check", "lock", "waiting", "existing", "load", "save",
                      "insert"}
<1> SUFFICES ASSUME TypeOK, NotYetStored, [Next]_vars, NEW g \in Handlers,
                    pc'[g] \in Before
             PROVE  number'[g] = 0
  BY DEF NotYetStored, Stored
<1>1. pc[g] \in Before
  <2>1. CASE pc'[g] # pc[g]
    <3>1. Progress(g)
      BY <2>1, OwnCounter DEF Abort, TypeOK
    <3> QED
      BY <3>1 DEF TypeOK, Progress, Goto, SkipDeduplication,
         FindCompleted, FindNothing, TryAcquireLock, FindLocked,
         PollCompletion, WaitTimeout, ReturnExisting, LoadParticipants,
         FindByIdWithLock, ConversationNotFound, CommitMessage, DeleteLock,
         SetRecord, Broadcast
  <2> QED
    BY <2>1
<1>2. number[g] = 0
  BY <1>1 DEF NotYetStored, Stored
<1>3. ASSUME NEW h \in Handlers, CommitMessage(h) PROVE number'[g] = number[g]
  <2>1. pc'[h] \notin Before
    BY <1>3 DEF CommitMessage, Goto, TypeOK
  <2> QED
    BY <1>3, <2>1 DEF CommitMessage, TypeOK
<1> QED
  BY <1>2, <1>3, OnlyCommitWrites

LEMMA RowStep == TypeOK /\ RowInv /\ [Next]_vars => RowInv'
<1> SUFFICES ASSUME TypeOK, RowInv, [Next]_vars, NEW g \in Handlers,
                    pc'[g] = "insert"
             PROVE  rowLock'[Conv(g)] = g /\ readLast'[g] = last'[Conv(g)]
  BY DEF RowInv, Conv
<1> USE RequestAssumption DEF TypeOK, Requests, Conv
<1>1. CASE pc[g] # "insert"
  <2>1. Progress(g)
    BY <1>1, OwnCounter DEF Abort
  <2>2. FindByIdWithLock(g)
    BY <1>1, <2>1 DEF Progress, Goto, SkipDeduplication, FindCompleted,
       FindNothing, TryAcquireLock, FindLocked, PollCompletion, WaitTimeout,
       ReturnExisting, LoadParticipants, ConversationNotFound, CommitMessage,
       DeleteLock, SetRecord, Broadcast
  <2> QED
    BY <2>2 DEF FindByIdWithLock
<1>2. CASE pc[g] = "insert"
  <2>1. rowLock[Conv(g)] = g /\ readLast[g] = last[Conv(g)]
    BY <1>2 DEF RowInv
  <2>2. ASSUME NEW h \in Handlers, FindByIdWithLock(h)
        PROVE  rowLock'[Conv(g)] = g /\ readLast'[g] = last'[Conv(g)]
    BY <2>1, <2>2, <1>2 DEF FindByIdWithLock, Goto
  <2>3. ASSUME NEW h \in Handlers, CommitMessage(h)
        PROVE  rowLock'[Conv(g)] = g /\ readLast'[g] = last'[Conv(g)]
    <3>1. h # g
      BY <2>3 DEF CommitMessage, Goto
    <3>2. Conv(h) # Conv(g)
      BY <2>1, <2>3, <3>1 DEF CommitMessage, Goto, RowInv
    <3> QED
      BY <2>1, <2>3, <3>2 DEF CommitMessage
  <2>4. ASSUME NEW h \in Handlers, Abort(h)
        PROVE  rowLock'[Conv(g)] = g /\ readLast'[g] = last'[Conv(g)]
    <3>1. h # g
      BY <2>4 DEF Abort
    <3> QED
      BY <2>1, <2>4, <3>1 DEF Abort
  <2>5. \/ UNCHANGED <<rowLock, readLast, last>>
        \/ \E h \in Handlers :
             FindByIdWithLock(h) \/ CommitMessage(h) \/ Abort(h)
    BY DEF Next, vars, db, Progress, SkipDeduplication, FindCompleted,
       FindNothing, TryAcquireLock, FindLocked, PollCompletion, WaitTimeout,
       ReturnExisting, LoadParticipants, ConversationNotFound, DeleteLock,
       SetRecord, Broadcast, LockExpires, RecordExpires
  <2> QED
    BY <2>1, <2>2, <2>3, <2>4, <2>5
<1> QED
  BY <1>1, <1>2

\* Under the row lock a commit takes the next number and no other.
LEMMA NumberingStep ==
  TypeOK /\ NotYetStored /\ RowInv /\ Numbering /\ [Next]_vars => Numbering'
<1> SUFFICES ASSUME TypeOK, NotYetStored, RowInv, Numbering, [Next]_vars
             PROVE  Numbering'
  OBVIOUS
<1>1. CASE UNCHANGED <<number, last>>
  BY <1>1 DEF Numbering, Stored, Conv
<1>2. ASSUME NEW h \in Handlers, CommitMessage(h) PROVE Numbering'
  <2> DEFINE next == last[Conv(h)] + 1
  <2>1. /\ number' = [number EXCEPT ![h] = next]
        /\ last' = [last EXCEPT ![Conv(h)] = next]
    BY <1>2 DEF CommitMessage, Goto, RowInv
  <2>2. number[h] = 0 /\ next \in Nat /\ next > 0 /\ Conv(h) \in Conversations
    <3>1. number[h] = 0
      BY <1>2 DEF CommitMessage, Goto, NotYetStored, Stored
    <3>2. Conv(h) \in Conversations
      BY RequestAssumption DEF Conv, Requests
    <3>3. last[Conv(h)] \in Nat
      BY <3>2 DEF TypeOK
    <3> QED
      BY <3>1, <3>2, <3>3
  <2> SUFFICES ASSUME NEW c \in Conversations
               PROVE  /\ \A f \in Handlers :
                           Conv(f) = c /\ number'[f] # 0
                             => number'[f] \in 1..last'[c]
                      /\ \A n \in 1..last'[c] :
                           \E f \in Handlers : Conv(f) = c /\ number'[f] = n
                      /\ \A f, g \in Handlers :
                           Conv(f) = c /\ Conv(g) = c /\ number'[f] # 0
                             /\ number'[f] = number'[g] => f = g
    BY DEF Numbering, Stored, Conv
  <2>3. CASE c # Conv(h)
    <3>1. last'[c] = last[c]
      BY <2>1, <2>3 DEF TypeOK
    <3>2. \A f \in Handlers : Conv(f) = c => number'[f] = number[f]
      BY <2>1, <2>3 DEF TypeOK
    <3> QED
      BY <3>1, <3>2 DEF Numbering, Stored
  <2>4. CASE c = Conv(h)
    <3>1. last'[c] = next /\ number'[h] = next /\ last[c] + 1 = next
      BY <2>1, <2>2, <2>4 DEF TypeOK
    <3>2. \A f \in Handlers : f # h => number'[f] = number[f]
      BY <2>1 DEF TypeOK
    <3>3. \A f \in Handlers :
            Conv(f) = c /\ number[f] # 0 => number[f] \in 1..last[c]
      BY DEF Numbering, Stored
    <3>4. ASSUME NEW n \in 1..last'[c]
          PROVE  \E f \in Handlers : Conv(f) = c /\ number'[f] = n
      <4>1. CASE n = next
        BY <4>1, <3>1, <2>4
      <4>2. CASE n # next
        <5>1. n \in 1..last[c]
          BY <4>2, <3>1, <2>2 DEF TypeOK
        <5>2. PICK f \in Handlers : Conv(f) = c /\ number[f] = n
          BY <5>1 DEF Numbering
        <5>3. f # h
          BY <5>1, <5>2, <2>2
        <5> QED
          BY <5>2, <5>3, <3>2
      <4> QED
        BY <4>1, <4>2
    <3>5. ASSUME NEW f \in Handlers, NEW g \in Handlers, Conv(f) = c,
                 Conv(g) = c, number'[f] # 0, number'[f] = number'[g]
          PROVE  f = g
      <4>1. CASE f # h /\ g # h
        BY <4>1, <3>2, <3>5 DEF Numbering, Stored
      <4>2. CASE f = h /\ g # h
        BY <4>2, <3>1, <3>2, <3>3, <3>5, <2>2 DEF TypeOK
      <4>3. CASE f # h /\ g = h
        BY <4>3, <3>1, <3>2, <3>3, <3>5, <2>2 DEF TypeOK
      <4> QED
        BY <4>1, <4>2, <4>3
    <3>6. ASSUME NEW f \in Handlers, Conv(f) = c, number'[f] # 0
          PROVE  number'[f] \in 1..last'[c]
      <4>1. CASE f = h
        BY <4>1, <3>1, <2>2
      <4>2. CASE f # h
        <5>1. number[f] \in 1..last[c]
          BY <4>2, <3>2, <3>3, <3>6
        <5>2. last[c] \in Nat
          BY DEF TypeOK
        <5> QED
          BY <4>2, <5>1, <5>2, <3>1, <3>2
      <4> QED
        BY <4>1, <4>2
    <3> QED
      BY <3>4, <3>5, <3>6
  <2> QED
    BY <2>3, <2>4
<1> QED
  BY <1>1, <1>2, OnlyCommitWrites

LEMMA KeyType == \A h \in Handlers : HasId(h) => Key(h) \in Keys
  BY RequestAssumption DEF HasId, Key, Keys, Conv, Requests

\* What a record names was committed before completeRequest wrote it.
LEMMA RecordedStep ==
  TypeOK /\ IdInv /\ NotYetStored /\ AnswerInv /\ RecordedIsStored /\ [Next]_vars
    => RecordedIsStored'
<1> SUFFICES ASSUME TypeOK, IdInv, NotYetStored, AnswerInv, RecordedIsStored,
                    [Next]_vars, NEW k \in Keys, record'[k] # None
             PROVE  number'[record'[k]] # 0 /\ Key(record'[k]) = k
  BY DEF RecordedIsStored, Stored, Key, Conv
<1>1. CASE record'[k] = record[k]
  <2>1. record[k] \in Handlers
    BY <1>1 DEF TypeOK
  <2> QED
    BY <1>1, <2>1, StoredStays DEF RecordedIsStored, Stored
<1>2. ASSUME NEW h \in Handlers, SetRecord(h), record'[k] # record[k]
      PROVE  number'[record'[k]] # 0 /\ Key(record'[k]) = k
  <2>1. record' = [record EXCEPT ![Key(h)] = h] /\ Key(h) \in Keys
    BY <1>2, KeyType DEF SetRecord, Goto, IdInv
  <2>2. k = Key(h) /\ record'[k] = h
    BY <1>2, <2>1 DEF TypeOK
  <2>3. Stored(h)
    BY <1>2, RequestAssumption DEF SetRecord, Goto, AnswerInv
  <2> QED
    BY <2>2, <2>3, StoredStays DEF Stored
<1>3. \/ record'[k] \in {record[k], None}
      \/ \E h \in Handlers : SetRecord(h)
  BY DEF TypeOK, Next, vars, redis, Progress, Abort, SkipDeduplication,
     FindCompleted, FindNothing, TryAcquireLock, FindLocked, PollCompletion,
     WaitTimeout, ReturnExisting, LoadParticipants, FindByIdWithLock,
     ConversationNotFound, CommitMessage, DeleteLock, Broadcast, LockExpires,
     RecordExpires
<1> QED
  BY <1>1, <1>2, <1>3

\* Two handlers with the same room and the same id were sent the same request.
LEMMA SameKeySameRequest ==
  ASSUME NEW g \in Handlers, NEW h \in Handlers, HasId(h), Key(g) = Key(h)
  PROVE  request[g] = request[h]
<1>1. /\ request[g].conv = request[h].conv
      /\ request[g].rid = request[h].rid
      /\ request[g].sender = request[h].sender
  BY RequestAssumption DEF Key, Conv, HasId
<1>2. request[g] \in Requests /\ request[h] \in Requests
  BY RequestAssumption
<1> QED
  BY <1>1, <1>2 DEF Requests

\* A handler answers with its own row, or with the row of a record.
LEMMA AnswerStep ==
  TypeOK /\ IdInv /\ NotYetStored /\ RecordedIsStored /\ AnswerInv /\ [Next]_vars
    => AnswerInv'
<1> DEFINE A(g) ==
      /\ pc'[g] \in {"existing", "release", "record", "notify", "acked"}
           => answer'[g] # None
      /\ pc'[g] \in {"release", "record", "notify"} => answer'[g] = g
      /\ answer'[g] # None => /\ number'[answer'[g]] # 0
                              /\ request[answer'[g]] = request[g]
<1> SUFFICES ASSUME TypeOK, IdInv, NotYetStored, RecordedIsStored, AnswerInv,
                    [Next]_vars, NEW g \in Handlers
             PROVE  A(g)
  BY DEF AnswerInv, Stored
<1>1. ASSUME answer'[g] = answer[g], answer[g] # None
      PROVE  number'[answer'[g]] # 0 /\ request[answer'[g]] = request[g]
  BY <1>1, StoredStays DEF AnswerInv, Stored, TypeOK
<1>2. CASE pc'[g] = pc[g] /\ answer'[g] = answer[g]
  BY <1>1, <1>2 DEF AnswerInv
<1>3. CASE FindCompleted(g) \/ PollCompletion(g)
  <2>1. HasId(g) /\ Key(g) \in Keys /\ record[Key(g)] \in Handlers
    BY <1>3, KeyType DEF FindCompleted, PollCompletion, Goto, IdInv, TypeOK
  <2>2. pc'[g] = "existing" /\ answer'[g] = record[Key(g)]
    BY <1>3 DEF FindCompleted, PollCompletion, Goto, TypeOK
  <2>3. record[Key(g)] # None
    BY <1>3 DEF FindCompleted, PollCompletion
  <2>4. Stored(record[Key(g)]) /\ Key(record[Key(g)]) = Key(g)
    BY <2>1, <2>3 DEF RecordedIsStored
  <2> QED
    BY <2>1, <2>2, <2>3, <2>4, StoredStays, SameKeySameRequest DEF Stored
<1>4. CASE CommitMessage(g)
  <2>1. answer'[g] = g /\ pc'[g] \in {"release", "notify"}
    BY <1>4 DEF CommitMessage, Goto, TypeOK
  <2>2. number'[g] # 0
    BY <1>4 DEF CommitMessage, TypeOK
  <2> QED
    BY <2>1, <2>2, RequestAssumption
<1>5. CASE Abort(g)
  BY <1>1, <1>5 DEF Abort, TypeOK
<1>6. CASE Progress(g) /\ answer'[g] = answer[g]
  BY <1>1, <1>4, <1>6 DEF AnswerInv, TypeOK, Progress, Goto,
     SkipDeduplication, FindCompleted, FindNothing, TryAcquireLock, FindLocked,
     PollCompletion, WaitTimeout, ReturnExisting, LoadParticipants,
     FindByIdWithLock, ConversationNotFound, DeleteLock, SetRecord, Broadcast
<1>7. \/ FindCompleted(g) \/ PollCompletion(g) \/ CommitMessage(g) \/ Abort(g)
      \/ Progress(g) /\ answer'[g] = answer[g]
      \/ pc'[g] = pc[g] /\ answer'[g] = answer[g]
  BY OwnLocals DEF Progress, SkipDeduplication, FindNothing, TryAcquireLock,
     FindLocked, WaitTimeout, ReturnExisting, LoadParticipants,
     FindByIdWithLock, ConversationNotFound, DeleteLock, SetRecord, Broadcast
<1> QED
  BY <1>2, <1>3, <1>4, <1>5, <1>6, <1>7

\* The unconditional DEL of completeRequest only ever hits one's own lock.
LEMMA LockStep == TypeOK /\ IdInv /\ LockInv /\ [Next]_vars => LockInv'
<1> SUFFICES ASSUME TypeOK, IdInv, LockInv, [Next]_vars, LockOutlivesHandler,
                    NEW g \in Handlers, HasId(g), pc'[g] \in Critical
             PROVE  lock'[Key(g)] = g
  BY DEF LockInv, HasId, Key, Conv
<1>0. Key(g) \in Keys
  BY KeyType
<1>1. CASE pc[g] \notin Critical
  <2>1. Progress(g)
    BY <1>1, OwnCounter DEF Abort, TypeOK, Critical
  <2>2. TryAcquireLock(g)
    BY <1>1, <2>1 DEF TypeOK, Critical, Progress, Goto, SkipDeduplication,
       FindCompleted, FindNothing, TryAcquireLock, FindLocked, PollCompletion,
       WaitTimeout, ReturnExisting, LoadParticipants, FindByIdWithLock,
       ConversationNotFound, CommitMessage, DeleteLock, SetRecord, Broadcast
  <2> QED
    BY <1>0, <2>2 DEF TryAcquireLock, TypeOK
<1>2. CASE pc[g] \in Critical
  <2>1. lock[Key(g)] = g
    BY <1>2 DEF LockInv
  <2>2. ASSUME NEW h \in Handlers, TryAcquireLock(h)
        PROVE  lock'[Key(g)] = g
    <3>1. Key(h) # Key(g)
      BY <2>1, <2>2, RequestAssumption DEF TryAcquireLock
    <3> QED
      BY <1>0, <2>1, <2>2, <3>1 DEF TryAcquireLock, TypeOK
  <2>3. ASSUME NEW h \in Handlers, DeleteLock(h)
        PROVE  lock'[Key(g)] = g
    <3>1. h # g
      BY <2>3 DEF DeleteLock, Goto, TypeOK, Critical
    <3>2. lock[Key(h)] = h
      BY <2>3 DEF DeleteLock, Goto, LockInv, IdInv, Critical
    <3> QED
      BY <1>0, <2>1, <2>3, <3>1, <3>2 DEF DeleteLock, TypeOK
  <2>4. ASSUME NEW k \in Keys, LockExpires(k)
        PROVE  lock'[Key(g)] = g
    <3>1. k # Key(g)
      BY <1>2, <2>1, <2>4 DEF LockExpires
    <3> QED
      BY <1>0, <2>1, <2>4, <3>1 DEF LockExpires, TypeOK
  <2>5. \/ UNCHANGED lock
        \/ \E h \in Handlers : TryAcquireLock(h) \/ DeleteLock(h)
        \/ \E k \in Keys : LockExpires(k)
    BY DEF Next, vars, redis, Progress, SkipDeduplication, FindCompleted,
       FindNothing, FindLocked, PollCompletion, WaitTimeout, ReturnExisting,
       LoadParticipants, FindByIdWithLock, ConversationNotFound,
       CommitMessage, SetRecord, Broadcast, Abort, RecordExpires
  <2> QED
    BY <2>1, <2>2, <2>3, <2>4, <2>5
<1> QED
  BY <1>1, <1>2

\* While records outlive retries, a request once recorded stays recorded.
LEMMA RecordStep == TypeOK /\ IdInv /\ RecordInv /\ [Next]_vars => RecordInv'
<1> DEFINE Known == {"existing", "notify", "acked"}
<1> SUFFICES ASSUME TypeOK, IdInv, RecordInv, [Next]_vars,
                    RecordOutlivesRetries,
                    NEW g \in Handlers, HasId(g), pc'[g] \in Known
             PROVE  record'[Key(g)] # None
  BY DEF RecordInv, HasId, Key, Conv
<1>0. Key(g) \in Keys
  BY KeyType
<1>1. CASE SetRecord(g)
  BY <1>0, <1>1, RequestAssumption DEF SetRecord, TypeOK
<1>2. CASE ~SetRecord(g)
  <2>1. record[Key(g)] # None
    <3>1. CASE pc[g] \in Known
      BY <3>1 DEF RecordInv
    <3>2. CASE pc[g] \notin Known
      <4>1. Progress(g)
        BY <3>2, OwnCounter DEF Abort, TypeOK
      <4> QED
        BY <1>2, <3>2, <4>1 DEF TypeOK, Progress, Goto, SkipDeduplication,
       FindCompleted, FindNothing, TryAcquireLock, FindLocked, PollCompletion,
       WaitTimeout, ReturnExisting, LoadParticipants, FindByIdWithLock,
       ConversationNotFound, CommitMessage, DeleteLock, SetRecord, Broadcast
    <3> QED
      BY <3>1, <3>2
  <2>2. ASSUME NEW h \in Handlers, SetRecord(h)
        PROVE  record'[Key(g)] # None
    BY <1>0, <2>1, <2>2, RequestAssumption DEF SetRecord, TypeOK
  <2>3. UNCHANGED record \/ \E h \in Handlers : SetRecord(h)
    BY DEF Next, vars, redis, Progress, SkipDeduplication, FindCompleted,
       FindNothing, TryAcquireLock, FindLocked, PollCompletion, WaitTimeout,
       ReturnExisting, LoadParticipants, FindByIdWithLock,
       ConversationNotFound, CommitMessage, DeleteLock, Broadcast, Abort,
       LockExpires, RecordExpires
  <2> QED
    BY <2>1, <2>2, <2>3
<1> QED
  BY <1>1, <1>2

\* A handler broadcasts as its last step, so never twice.
LEMMA WireStep ==
  TypeOK /\ NotYetStored /\ AnswerInv /\ WireInv /\ [Next]_vars => WireInv'
<1> SUFFICES ASSUME TypeOK, NotYetStored, AnswerInv, WireInv, [Next]_vars
             PROVE  WireInv'
  OBVIOUS
<1>1. ASSUME NEW g \in Handlers, pc[g] = "acked", Stored(g)
      PROVE  pc'[g] = "acked" /\ number'[g] # 0
  <2>1. ~Progress(g) /\ ~Abort(g)
    BY <1>1 DEF Abort, Ended, Progress, Goto, SkipDeduplication,
       FindCompleted, FindNothing, TryAcquireLock, FindLocked, PollCompletion,
       WaitTimeout, ReturnExisting, LoadParticipants, FindByIdWithLock,
       ConversationNotFound, CommitMessage, DeleteLock, SetRecord, Broadcast
  <2> QED
    BY <1>1, <2>1, OwnCounter, StoredStays DEF Stored
<1>2. CASE UNCHANGED wire
  <2>1. \A i \in 1..Len(wire) :
          /\ wire[i] \in Handlers
          /\ pc'[wire[i]] = "acked" /\ number'[wire[i]] # 0
    BY <1>1 DEF WireInv, TypeOK
  <2> QED
    BY <1>2, <2>1 DEF WireInv, Stored
<1>3. ASSUME NEW h \in Handlers, Broadcast(h) PROVE WireInv'
  <2>1. /\ wire \in Seq(Handlers)
        /\ wire' = Append(wire, h)
        /\ pc[h] = "notify"
    BY <1>3 DEF Broadcast, Goto, TypeOK
  <2>2. pc'[h] = "acked" /\ number'[h] # 0
    <3>1. Stored(h)
      BY <2>1, RequestAssumption DEF AnswerInv
    <3> QED
      BY <1>3, <3>1, StoredStays DEF Broadcast, Goto, TypeOK, Stored
  <2>3. \A i \in 1..Len(wire) :
          /\ wire'[i] = wire[i] /\ wire[i] \in Handlers /\ wire[i] # h
          /\ pc'[wire[i]] = "acked" /\ number'[wire[i]] # 0
    BY <1>1, <2>1 DEF WireInv
  <2>4. Len(wire') = Len(wire) + 1 /\ wire'[Len(wire) + 1] = h
        /\ Len(wire) \in Nat
    BY <2>1
  <2>5. \A i \in 1..Len(wire') : i \in 1..Len(wire) \/ i = Len(wire) + 1
    BY <2>4
  <2> QED
    BY <2>2, <2>3, <2>4, <2>5 DEF WireInv, Stored
<1>4. UNCHANGED wire \/ \E h \in Handlers : Broadcast(h)
  BY DEF Next, vars, redis, Progress, SkipDeduplication, FindCompleted,
     FindNothing, TryAcquireLock, FindLocked, PollCompletion, WaitTimeout,
     ReturnExisting, LoadParticipants, FindByIdWithLock,
     ConversationNotFound, CommitMessage, DeleteLock, SetRecord, Abort,
     LockExpires, RecordExpires
<1> QED
  BY <1>2, <1>3, <1>4

-----------------------------------------------------------------------------
(* The inductive invariant.                                                *)

LEMMA InitIInv == Init => IInv
<1> SUFFICES ASSUME Init PROVE IInv
  OBVIOUS
<1>1. TypeOK
  BY TypeInit
<1>2. IdInv /\ NotYetStored /\ RowInv /\ LockInv /\ RecordInv
  BY DEF Init, IdInv, NotYetStored, RowInv, LockInv, RecordInv, Stored,
     Critical
<1>3. Numbering
  BY DEF Init, Numbering, Stored
<1>4. RecordedIsStored /\ AnswerInv
  BY DEF Init, RecordedIsStored, AnswerInv
<1>5. WireInv
  BY DEF Init, WireInv
<1> QED
  BY <1>1, <1>2, <1>3, <1>4, <1>5 DEF IInv

LEMMA StepIInv == IInv /\ [Next]_vars => IInv'
  BY TypeStep, IdStep, NotYetStoredStep, RowStep, NumberingStep, RecordedStep,
     AnswerStep, LockStep, RecordStep, WireStep DEF IInv

\* The strengthened invariant of sendMessage: row lock, numbering, request
\* records, answers, locks and broadcasts together.
THEOREM Invariance == Spec => []IInv
  BY InitIInv, StepIInv, PTL DEF Spec

\* Program counters, Redis keys, row locks, counters, message numbers and the
\* broadcast history of sendMessage always have their types.
THEOREM TypeCorrect == Spec => []TypeOK
<1>1. IInv => TypeOK
  BY DEF IInv
<1> QED
  BY <1>1, Invariance, PTL

\* Messages of a conversation are numbered 1..lastMessageNumber without gap or
\* repetition, for any number of overlapping, timed out and aborted sends.
THEOREM NumberingCorrect == Spec => []Numbering
<1>1. IInv => Numbering
  BY DEF IInv
<1> QED
  BY <1>1, Invariance, PTL

\* A request record in Redis names a committed message of that request.
THEOREM RecordsCorrect == Spec => []RecordedIsStored
<1>1. IInv => RecordedIsStored
  BY DEF IInv
<1> QED
  BY <1>1, Invariance, PTL

\* A positive acknowledgement means the request's message is stored.
THEOREM AcksCorrect == Spec => []AckedIsStored
<1>1. IInv => AckedIsStored
  BY DEF IInv, AnswerInv, AckedIsStored
<1> QED
  BY <1>1, Invariance, PTL

\* No message is broadcast twice, and none that is not stored.
THEOREM BroadcastsCorrect == Spec => []BroadcastOnce
<1>1. IInv => BroadcastOnce
  BY DEF IInv, WireInv, BroadcastOnce
<1> QED
  BY <1>1, Invariance, PTL

\* The Redis lock excludes, as long as it does not expire under its holder.
THEOREM LockExcludes == Spec => []OneHandlerPerRequest
<1>1. IInv => OneHandlerPerRequest
  <2> SUFFICES ASSUME IInv, LockOutlivesHandler,
                      NEW g \in Handlers, NEW h \in Handlers, HasId(g),
                      Key(g) = Key(h), pc[g] \in Critical, pc[h] \in Critical
               PROVE  g = h
    BY DEF OneHandlerPerRequest
  <2>1. HasId(h)
    BY DEF HasId, Key
  <2> QED
    BY <2>1 DEF IInv, LockInv
<1> QED
  BY <1>1, Invariance, PTL

\* No step renumbers a stored message or lowers a conversation's counter.
THEOREM LogIsAppendOnly == Spec => AppendOnly
<1> DEFINE Grows == /\ \A h \in Handlers : Stored(h) => number'[h] = number[h]
                    /\ \A c \in Conversations : last'[c] >= last[c]
<1>1. IInv /\ [Next]_vars => Grows
  <2> SUFFICES ASSUME IInv, [Next]_vars PROVE Grows
    OBVIOUS
  <2>1. \A h \in Handlers : Stored(h) => number'[h] = number[h]
    BY StoredStays DEF IInv
  <2>2. ASSUME NEW h \in Handlers, CommitMessage(h), NEW c \in Conversations
        PROVE  last'[c] >= last[c]
    <3>1. last' = [last EXCEPT ![Conv(h)] = last[Conv(h)] + 1]
      BY <2>2 DEF CommitMessage, Goto, IInv, RowInv
    <3> QED
      BY <3>1 DEF IInv, TypeOK
  <2>3. ASSUME UNCHANGED last, NEW c \in Conversations
        PROVE  last'[c] >= last[c]
    BY <2>3 DEF IInv, TypeOK
  <2> QED
    BY <2>1, <2>2, <2>3, OnlyCommitWrites DEF IInv
<1>2. IInv /\ [Next]_vars => [Grows]_vars
  BY <1>1
<1> QED
  BY <1>2, Invariance, PTL DEF Spec, AppendOnly

\* Within the life of the record, a retry after the acknowledgement is always
\* recognised as a duplicate.
THEOREM RetriesRecognised == Spec => RetryAfterAckIsDuplicate
<1> DEFINE A == RecordOutlivesRetries =>
                  \A g, h \in Handlers :
                    /\ HasId(h)
                    /\ Key(g) = Key(h)
                    /\ pc[g] = "acked"
                    /\ pc[h] = "check"
                    => pc'[h] # "lock"
<1>1. IInv /\ [Next]_vars => A
  <2> SUFFICES ASSUME IInv, [Next]_vars, RecordOutlivesRetries,
                      NEW g \in Handlers, NEW h \in Handlers, HasId(h),
                      Key(g) = Key(h), pc[g] = "acked", pc[h] = "check",
                      pc'[h] = "lock"
               PROVE  FALSE
    OBVIOUS
  <2>1. record[Key(h)] # None
    BY DEF IInv, RecordInv, HasId, Key
  <2>2. Progress(h)
    BY OwnCounter DEF IInv, TypeOK, Abort
  <2> QED
    BY <2>1, <2>2 DEF IInv, TypeOK, Progress, Goto, SkipDeduplication, FindCompleted,
     FindNothing, TryAcquireLock, FindLocked, PollCompletion, WaitTimeout,
     ReturnExisting, LoadParticipants, FindByIdWithLock, ConversationNotFound,
     CommitMessage, DeleteLock, SetRecord, Broadcast
<1>2. IInv /\ [Next]_vars => [A]_vars
  BY <1>1
<1> QED
  BY <1>2, Invariance, PTL DEF Spec, RetryAfterAckIsDuplicate
-----------------------------------------------------------------------------
(* SendMessage implements MessageLog.                                      *)

\* The abstract log of a conversation lists its messages by number.
LEMMA LogEntries ==
  IInv => \A c \in Conversations :
            /\ logOf[c] \in Seq(Handlers)
            /\ Len(logOf[c]) = last[c]
            /\ \A n \in 1..last[c] : /\ logOf[c][n] \in Handlers
                                     /\ Conv(logOf[c][n]) = c
                                     /\ number[logOf[c][n]] = n
<1> SUFFICES ASSUME IInv, NEW c \in Conversations
             PROVE  /\ logOf[c] \in Seq(Handlers)
                    /\ Len(logOf[c]) = last[c]
                    /\ \A n \in 1..last[c] : /\ logOf[c][n] \in Handlers
                                             /\ Conv(logOf[c][n]) = c
                                             /\ number[logOf[c][n]] = n
  OBVIOUS
<1>1. last[c] \in Nat
  BY DEF IInv, TypeOK
<1>2. logOf[c] = [n \in 1..last[c] |-> MessageNumbered(c, n)]
  BY DEF logOf
<1>3. ASSUME NEW n \in 1..last[c]
      PROVE  /\ MessageNumbered(c, n) \in Handlers
             /\ Conv(MessageNumbered(c, n)) = c
             /\ number[MessageNumbered(c, n)] = n
  <2>1. \E h \in Handlers : Conv(h) = c /\ number[h] = n
    BY DEF IInv, Numbering
  <2> QED
    BY <2>1 DEF MessageNumbered
<1>4. logOf[c] \in [1..last[c] -> Handlers]
  BY <1>2, <1>3
<1>5. logOf[c] \in Seq(Handlers)
  BY <1>1, <1>4, SeqDef
<1>6. Len(logOf[c]) = last[c]
  BY <1>1, <1>4, <1>5, LenProperties
<1> QED
  BY <1>2, <1>3, <1>5, <1>6

\* A message is in the abstract log exactly when it is stored.
LEMMA WrittenIffStored ==
  IInv => \A h \in Handlers : Log!Written(h) <=> Stored(h)
<1> SUFFICES ASSUME IInv, NEW h \in Handlers
             PROVE  Log!Written(h) <=> Stored(h)
  OBVIOUS
<1>1. Conv(h) \in Conversations
  BY RequestAssumption DEF Conv, Requests
<1>2. Log!Written(h) <=> \E n \in 1..last[Conv(h)] : logOf[Conv(h)][n] = h
  BY <1>1, LogEntries DEF Log!Written
<1>3. ASSUME NEW n \in 1..last[Conv(h)], logOf[Conv(h)][n] = h PROVE Stored(h)
  BY <1>1, <1>3, LogEntries DEF Stored
<1>4. ASSUME Stored(h)
      PROVE  \E n \in 1..last[Conv(h)] : logOf[Conv(h)][n] = h
  <2>1. number[h] \in 1..last[Conv(h)]
    BY <1>1, <1>4 DEF IInv, Numbering
  <2>2. logOf[Conv(h)][number[h]] = h
    <3> DEFINE g == logOf[Conv(h)][number[h]]
    <3>1. g \in Handlers /\ Conv(g) = Conv(h) /\ number[g] = number[h]
      BY <1>1, <2>1, LogEntries
    <3> QED
      BY <1>1, <1>4, <3>1 DEF IInv, Numbering, Stored
  <2> QED
    BY <2>1, <2>2
<1> QED
  BY <1>2, <1>3, <1>4

LEMMA LogInit == Init => Log!Init
<1> SUFFICES ASSUME Init PROVE logOf = [c \in Conversations |-> <<>>]
  BY DEF Init, Log!Init
<1>1. \A c \in Conversations : last[c] = 0
  BY DEF Init
<1>2. \A c \in Conversations : logOf[c] = <<>>
  <2> SUFFICES ASSUME NEW c \in Conversations PROVE logOf[c] = <<>>
    OBVIOUS
  <2>1. Len(logOf[c]) = 0 /\ logOf[c] \in Seq(Handlers)
    BY <1>1, InitIInv, LogEntries
  <2> QED
    BY <2>1, EmptySeq
<1> QED
  BY <1>2 DEF logOf

LEMMA CommitAppends ==
  ASSUME IInv, IInv', [Next]_vars, NEW h \in Handlers, CommitMessage(h)
  PROVE  Log!AppendMessage(h)
<1> DEFINE c0 == Conv(h)
<1>1. c0 \in Conversations
  BY RequestAssumption DEF Conv, Requests
<1>2. ~Stored(h)
  BY DEF IInv, NotYetStored, CommitMessage, Goto
<1>3. ~Log!Written(h)
  BY <1>2, WrittenIffStored
<1>4. /\ number' = [number EXCEPT ![h] = last[c0] + 1]
      /\ last' = [last EXCEPT ![c0] = last[c0] + 1]
      /\ wire' = wire
  BY DEF CommitMessage, Goto, IInv, RowInv
<1>5. \A c \in Conversations : last[c] \in Nat /\ last'[c] \in Nat
  BY DEF IInv, TypeOK
<1>6. (IInv => \A c \in Conversations :
            /\ logOf[c] \in Seq(Handlers)
            /\ Len(logOf[c]) = last[c]
            /\ \A n \in 1..last[c] : /\ logOf[c][n] \in Handlers
                                     /\ Conv(logOf[c][n]) = c
                                     /\ number[logOf[c][n]] = n)'
  BY LogEntries, PTL
<1>7. \A c \in Conversations :
        /\ logOf'[c] \in Seq(Handlers)
        /\ Len(logOf'[c]) = last'[c]
        /\ \A n \in 1..last'[c] : /\ logOf'[c][n] \in Handlers
                                  /\ Conv(logOf'[c][n]) = c
                                  /\ number'[logOf'[c][n]] = n
  BY <1>6 DEF Conv
<1>8. ASSUME NEW c \in Conversations, NEW f \in Handlers, NEW g \in Handlers,
             Conv(f) = c, Conv(g) = c, number'[f] # 0, number'[f] = number'[g]
      PROVE  f = g
  BY <1>8 DEF IInv, Numbering, Stored, Conv
<1>9. ASSUME NEW c \in Conversations, NEW n \in 1..last[c]
      PROVE  n \in 1..last'[c] /\ logOf'[c][n] = logOf[c][n]
  <2> DEFINE f == logOf[c][n]
             g == logOf'[c][n]
  <2>1. f \in Handlers /\ Conv(f) = c /\ number[f] = n
    BY LogEntries
  <2>2. n \in 1..last'[c]
    BY <1>1, <1>4, <1>5 DEF IInv, TypeOK
  <2>3. g \in Handlers /\ Conv(g) = c /\ number'[g] = n
    BY <1>7, <2>2
  <2>4. number'[f] = n
    <3>1. Stored(f)
      BY <2>1, <1>5 DEF Stored
    <3> QED
      BY <2>1, <3>1, StoredStays DEF IInv
  <2> QED
    BY <1>8, <2>1, <2>2, <2>3, <2>4, <1>5
<1>10. logOf'[c0] = Append(logOf[c0], h)
  <2> DEFINE s == logOf[c0]
             t == Append(s, h)
  <2>1. s \in Seq(Handlers) /\ Len(s) = last[c0]
    BY <1>1, LogEntries
  <2>2. /\ t \in Seq(Handlers)
        /\ Len(t) = last[c0] + 1
        /\ \A n \in 1..last[c0] : t[n] = s[n]
        /\ t[last[c0] + 1] = h
    BY <2>1
  <2>3. last'[c0] = last[c0] + 1 /\ number'[h] = last[c0] + 1
    BY <1>1, <1>4 DEF IInv, TypeOK
  <2>4. logOf'[c0][last[c0] + 1] = h
    <3> DEFINE g == logOf'[c0][last[c0] + 1]
    <3>1. last[c0] + 1 \in 1..last'[c0]
      BY <1>1, <1>5, <2>3
    <3>2. g \in Handlers /\ Conv(g) = c0 /\ number'[g] = last[c0] + 1
      BY <1>1, <1>7, <3>1
    <3>3. number'[g] # 0
      BY <1>1, <1>5, <3>2
    <3> QED
      BY <1>1, <1>8, <2>3, <3>2, <3>3
  <2> HIDE DEF t, s, c0
  <2>5. \A n \in 1..Len(t) : logOf'[c0][n] = t[n]
    <3> SUFFICES ASSUME NEW n \in 1..(last[c0] + 1)
                 PROVE  logOf'[c0][n] = t[n]
      BY <2>2
    <3>1. CASE n \in 1..last[c0]
      BY <1>1, <1>9, <2>2, <3>1 DEF s
    <3>2. CASE n = last[c0] + 1
      BY <2>2, <2>4, <3>2
    <3> QED
      BY <1>1, <1>5, <3>1, <3>2
  <2>6. logOf'[c0] \in Seq(Handlers) /\ Len(logOf'[c0]) = Len(t)
    BY <1>1, <1>7, <2>2, <2>3
  <2>7. logOf'[c0] = t
    BY <2>2, <2>5, <2>6, SeqEqual
  <2> QED
    BY <2>7 DEF t, s
<1>11. ASSUME NEW c \in Conversations, c # c0 PROVE logOf'[c] = logOf[c]
  <2>1. last'[c] = last[c]
    BY <1>1, <1>4, <1>11 DEF IInv, TypeOK
  <2>2. logOf[c] \in Seq(Handlers) /\ Len(logOf[c]) = last[c]
    BY LogEntries
  <2>3. logOf'[c] \in Seq(Handlers) /\ Len(logOf'[c]) = last[c]
    BY <1>7, <2>1
  <2> QED
    BY <1>9, <2>2, <2>3, SeqEqual
<1>12. logOf' = [logOf EXCEPT ![Conv(h)] = Append(@, h)]
  <2>1. /\ logOf = [c \in Conversations |-> logOf[c]]
        /\ logOf' = [c \in Conversations |-> logOf'[c]]
    BY DEF logOf
  <2> QED
    BY <1>1, <1>10, <1>11, <2>1
<1> QED
  BY <1>3, <1>4, <1>12 DEF Log!AppendMessage

LEMMA BroadcastDelivers ==
  ASSUME IInv, NEW h \in Handlers, Broadcast(h)
  PROVE  Log!Deliver(h)
<1>1. pc[h] = "notify" /\ wire' = Append(wire, h)
  BY DEF Broadcast, Goto
<1>2. Stored(h)
  BY <1>1, RequestAssumption DEF IInv, AnswerInv
<1>3. Log!Written(h)
  BY <1>2, WrittenIffStored
<1>4. ~Log!Announced(h)
  BY <1>1 DEF Log!Announced, IInv, WireInv
<1>5. logOf' = logOf
  BY DEF Broadcast, db, logOf, MessageNumbered, Conv
<1> QED
  BY <1>1, <1>3, <1>4, <1>5 DEF Log!Deliver

LEMMA OtherStepsStutter ==
  ASSUME TypeOK, [Next]_vars
  PROVE  \/ UNCHANGED Log!vars
         \/ \E h \in Handlers : CommitMessage(h) \/ Broadcast(h)
<1>1. \/ UNCHANGED <<number, last, wire>>
      \/ \E h \in Handlers : CommitMessage(h) \/ Broadcast(h)
  BY DEF Next, vars, db, redis, Progress, Abort, SkipDeduplication,
     FindCompleted, FindNothing, TryAcquireLock, FindLocked, PollCompletion,
     WaitTimeout, ReturnExisting, LoadParticipants, FindByIdWithLock,
     ConversationNotFound, DeleteLock, SetRecord, LockExpires, RecordExpires
<1>2. UNCHANGED <<number, last, wire>> => UNCHANGED Log!vars
  BY DEF Log!vars, logOf, MessageNumbered, Conv
<1> QED
  BY <1>1, <1>2

\* Sending, with all its retries, locks, time-outs and aborts, implements the
\* append-only log whose messages are announced at most once.
THEOREM Refinement == Spec => ImplementsMessageLog
<1>1. IInv /\ IInv' /\ [Next]_vars => [Log!Next]_(Log!vars)
  <2> SUFFICES ASSUME IInv, IInv', [Next]_vars
               PROVE  Log!Next \/ UNCHANGED Log!vars
    OBVIOUS
  <2>1. ASSUME NEW h \in Handlers, CommitMessage(h) PROVE Log!Next
    BY <2>1, CommitAppends DEF Log!Next
  <2>2. ASSUME NEW h \in Handlers, Broadcast(h) PROVE Log!Next
    BY <2>2, BroadcastDelivers DEF Log!Next
  <2> QED
    BY <2>1, <2>2, OtherStepsStutter DEF IInv
<1> QED
  BY <1>1, LogInit, Invariance, PTL DEF Spec, ImplementsMessageLog, Log!Spec
=============================================================================
