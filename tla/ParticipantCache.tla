-------------------------- MODULE ParticipantCache --------------------------
(***************************************************************************)
(* The participants of one conversation: rows in MySQL, and the Redis set  *)
(* conversation:participants:<id> that sending, joining and reading use    *)
(* instead of the rows.  A member of the Redis set is the serialised       *)
(* participant, so changing a field means removing one member and adding   *)
(* another, in separate commands.                                          *)
(*                                                                         *)
(* An operation is one request: sendMessage (loadParticipants),            *)
(* markMessagesAsRead, muteConversation, unmuteConversation or             *)
(* leaveConversation.  Every await ends a step.  isBlockingOther is left   *)
(* out: setIsBlockingOther has no caller, the field is always false.       *)
(***************************************************************************)
EXTENDS Naturals, FiniteSets

CONSTANTS
  Users,
  Participants,   \* the users with a row in this conversation
  Ops,            \* the requests the servers receive
  None,
  Scenes          \* what may be asked and what may go wrong, see Scene

Kinds == {"send", "read", "mute", "unmute", "leave"}

\* op[p]: kind, user and lastReadMessageNumber of request p; warm: the
\* participants are cached at the start; onePerUser: no user has two requests
\* in flight.
Scene == [op: [Ops -> [kind: Kinds, user: Users, num: Nat]],
          faults: SUBSET {"abort", "expire", "withdraw"},
          warm: BOOLEAN, onePerUser: BOOLEAN]

ASSUME ParticipantAssumption ==
  /\ Participants \subseteq Users
  /\ Scenes \subseteq Scene
  /\ None \notin Users
  /\ None \notin Ops

VARIABLES
  scene,    \* one of Scenes, chosen at the start
  rows,     \* conversation_participant, committed
  rowLock,  \* the transaction that has updated a row and not committed
  cache,    \* members of the Redis set; {} when the key does not exist
  pc,
  view,     \* participants a send works with, or rows a rebuild has read
  entry,    \* the member an update is about to add
  target    \* the member an update is about to remove

vars == <<scene, rows, rowLock, cache, pc, view, entry, target>>

Row   == [read: Nat, muted: BOOLEAN, left: BOOLEAN, gone: BOOLEAN]
Entry == [user: Participants, read: Nat, muted: BOOLEAN]

EntryOf(u) == [user |-> u, read |-> rows[u].read, muted |-> rows[u].muted]

\* isDeleted: false; leaving sets leftAt, not isDeleted.
Live == {u \in Participants : ~rows[u].gone}

\* failed: refused by a check; aborted: an await was rejected.
Idle == {"start", "done", "failed", "aborted"}

PCs == Idle \cup {"flush", "get", "find", "remove", "add", "commit",
                  "readRows", "clear", "fill"}

Quiet == \A p \in Ops : pc[p] \in Idle

User(p) == scene.op[p].user
Kind(p) == scene.op[p].kind
Num(p)  == scene.op[p].num

TypeOK ==
  /\ scene \in Scenes
  /\ rows \in [Participants -> Row]
  /\ rowLock \in [Participants -> Ops \cup {None}]
  /\ cache \subseteq Entry
  /\ pc \in [Ops -> PCs]
  /\ view \in [Ops -> SUBSET Entry]
  /\ entry \in [Ops -> Entry \cup {None}]
  /\ target \in [Ops -> Entry \cup {None}]

FreshRow == [read |-> 0, muted |-> FALSE, left |-> FALSE, gone |-> FALSE]

Init ==
  /\ scene \in Scenes
  /\ rows = [u \in Participants |-> FreshRow]
  /\ rowLock = [u \in Participants |-> None]
  /\ cache = IF scene.warm THEN {EntryOf(u) : u \in Participants} ELSE {}
  /\ pc = [p \in Ops |-> "start"]
  /\ view = [p \in Ops |-> {}]
  /\ entry = [p \in Ops |-> None]
  /\ target = [p \in Ops |-> None]

Goto(p, from, to) ==
  /\ pc[p] = from
  /\ pc' = [pc EXCEPT ![p] = to]

MayStart(p) ==
  scene.onePerUser => \A q \in Ops : q # p /\ User(q) = User(p) => pc[q] \in Idle

-----------------------------------------------------------------------------
(* loadParticipants: the cache, or the rows and a rebuild of the cache.    *)

LoadFromCache(p) ==
  /\ Kind(p) = "send"
  /\ MayStart(p)
  /\ cache # {}
  /\ Goto(p, "start", "done")
  /\ view' = [view EXCEPT ![p] = cache]
  /\ UNCHANGED <<rows, rowLock, cache, entry, target>>

LoadMiss(p) ==
  /\ Kind(p) = "send"
  /\ MayStart(p)
  /\ cache = {}
  /\ Goto(p, "start", "readRows")
  /\ UNCHANGED <<rows, rowLock, cache, view, entry, target>>

\* What follows the cache commands: read and leave still have to commit.
Finish(p) == IF Kind(p) \in {"read", "leave"} THEN "commit" ELSE "done"

\* SELECT of the rows with isDeleted false, by a send or by a leave.
ReadRows(p) ==
  /\ Goto(p, "readRows", "clear")
  /\ view' = [view EXCEPT ![p] = {EntryOf(u) : u \in Live}]
  /\ UNCHANGED <<rows, rowLock, cache, entry, target>>

\* setParticipants is DEL ...
ClearKey(p) ==
  /\ Goto(p, "clear", IF view[p] = {} THEN Finish(p) ELSE "fill")
  /\ cache' = {}
  /\ UNCHANGED <<rows, rowLock, view, entry, target>>

\* ... and SADD of all members.
FillKey(p) ==
  /\ Goto(p, "fill", Finish(p))
  /\ cache' = cache \cup view[p]
  /\ UNCHANGED <<rows, rowLock, view, entry, target>>

-----------------------------------------------------------------------------
(* markMessagesAsRead, muteConversation, unmuteConversation,               *)
(* leaveConversation: check the row, then update it.                       *)

Allowed(p) ==
  LET u == User(p) IN
  /\ u \in Live
  /\ Kind(p) \in {"mute", "unmute", "leave"} => ~rows[u].left
  /\ Kind(p) = "mute" => ~rows[u].muted
  /\ Kind(p) = "unmute" => rows[u].muted

FindRow(p) ==
  /\ Kind(p) # "send"
  /\ MayStart(p)
  /\ Allowed(p)
  /\ Goto(p, "start", "flush")
  /\ UNCHANGED <<rows, rowLock, cache, view, entry, target>>

Refuse(p) ==
  /\ Kind(p) # "send"
  /\ MayStart(p)
  /\ ~Allowed(p)
  /\ Goto(p, "start", "failed")
  /\ UNCHANGED <<rows, rowLock, cache, view, entry, target>>

\* The UPDATE inside the transaction of a read or a leave holds the row.
FlushInTransaction(p) ==
  /\ Kind(p) \in {"read", "leave"}
  /\ rowLock[User(p)] = None
  /\ Goto(p, "flush", IF Kind(p) = "read" THEN "get" ELSE "readRows")
  /\ rowLock' = [rowLock EXCEPT ![User(p)] = p]
  /\ UNCHANGED <<rows, cache, view, entry, target>>

\* Muting has no transaction of its own: the flush commits at once.
FlushMuted(p) ==
  /\ Kind(p) \in {"mute", "unmute"}
  /\ rowLock[User(p)] = None
  /\ Goto(p, "flush", "get")
  /\ rows' = [rows EXCEPT ![User(p)].muted = (Kind(p) = "mute")]
  /\ UNCHANGED <<rowLock, cache, view, entry, target>>

\* A transaction commits after its cache commands.
Commit(p) ==
  /\ Goto(p, "commit", "done")
  /\ rows' = IF Kind(p) = "read"
               THEN [rows EXCEPT ![User(p)].read = Num(p)]
               ELSE [rows EXCEPT ![User(p)].left = TRUE]
  /\ rowLock' = [rowLock EXCEPT ![User(p)] = None]
  /\ UNCHANGED <<cache, view, entry, target>>

-----------------------------------------------------------------------------
(* updateParticipant: SMEMBERS, change the member found, SMEMBERS again to *)
(* find what to remove, SREM, SADD.                                        *)

MembersOf(u) == {e \in cache : e.user = u}

Changed(e, p) == IF Kind(p) = "read"
                   THEN [e EXCEPT !.read = Num(p)]
                   ELSE [e EXCEPT !.muted = (Kind(p) = "mute")]

\* Mutant: the member is not looked up by userId.
GetParticipant_AnyMember(p) ==
  /\ Goto(p, "get", "find")
  /\ \E e \in cache : entry' = [entry EXCEPT ![p] = Changed(e, p)]
  /\ UNCHANGED <<rows, rowLock, cache, view, target>>

GetParticipant(p) ==
  /\ Goto(p, "get", "find")
  /\ \E e \in MembersOf(User(p)) :
       entry' = [entry EXCEPT ![p] = Changed(e, p)]
  /\ UNCHANGED <<rows, rowLock, cache, view, target>>

\* Mutant: no early return when the participant is not cached.
ParticipantNotCached_GoesOn(p) ==
  /\ MembersOf(User(p)) = {}
  /\ Goto(p, "get", "add")
  /\ UNCHANGED <<rows, rowLock, cache, view, entry, target>>

\* Not cached: nothing to update.
ParticipantNotCached(p) ==
  /\ MembersOf(User(p)) = {}
  /\ Goto(p, "get", Finish(p))
  /\ UNCHANGED <<rows, rowLock, cache, view, entry, target>>

FindTarget(p) ==
  /\ Goto(p, "find", "remove")
  /\ \E e \in MembersOf(User(p)) : target' = [target EXCEPT ![p] = e]
  /\ UNCHANGED <<rows, rowLock, cache, view, entry>>

NoTarget(p) ==
  /\ MembersOf(User(p)) = {}
  /\ Goto(p, "find", "add")
  /\ UNCHANGED <<rows, rowLock, cache, view, entry, target>>

\* Mutant: the key is deleted instead of the member.
RemoveMember_WholeKey(p) ==
  /\ Goto(p, "remove", "add")
  /\ cache' = {}
  /\ UNCHANGED <<rows, rowLock, view, entry, target>>

RemoveMember(p) ==
  /\ Goto(p, "remove", "add")
  /\ cache' = cache \ {target[p]}
  /\ UNCHANGED <<rows, rowLock, view, entry, target>>

AddMember(p) ==
  /\ Goto(p, "add", Finish(p))
  /\ cache' = cache \cup {entry[p]}
  /\ UNCHANGED <<rows, rowLock, view, entry, target>>

-----------------------------------------------------------------------------
(* Failures and other writers.                                             *)

\* An await rejects or the process dies: the transaction is rolled back, the
\* commands already sent to Redis are not.
Abort(p) ==
  /\ "abort" \in scene.faults
  /\ pc[p] \notin Idle
  /\ pc' = [pc EXCEPT ![p] = "aborted"]
  /\ rowLock' = [u \in Participants |->
                   IF rowLock[u] = p THEN None ELSE rowLock[u]]
  /\ UNCHANGED <<rows, cache, view, entry, target>>

\* PARTICIPANT_TTL runs out, at any moment.  The EXPIRE that follows each
\* SADD is left out: nothing below relies on the key expiring.
CacheExpires ==
  /\ "expire" \in scene.faults
  /\ cache # {}
  /\ cache' = {}
  /\ UNCHANGED <<rows, rowLock, pc, view, entry, target>>

\* withdrawUser soft-deletes the user's rows and does not touch the cache.
Withdraw(u) ==
  /\ "withdraw" \in scene.faults
  /\ ~rows[u].gone
  /\ rowLock[u] = None
  /\ rows' = [rows EXCEPT ![u].gone = TRUE]
  /\ UNCHANGED <<rowLock, cache, pc, view, entry, target>>

Step(p) ==
  \/ LoadFromCache(p) \/ LoadMiss(p) \/ ReadRows(p)
  \/ ClearKey(p) \/ FillKey(p)
  \/ FindRow(p) \/ Refuse(p) \/ FlushInTransaction(p) \/ FlushMuted(p)
  \/ GetParticipant(p) \/ ParticipantNotCached(p)
  \/ FindTarget(p) \/ NoTarget(p) \/ RemoveMember(p) \/ AddMember(p)
  \/ Commit(p)

Next ==
  /\ \/ \E p \in Ops : Step(p) \/ Abort(p)
     \/ \E u \in Participants : Withdraw(u)
     \/ CacheExpires
  /\ UNCHANGED scene

Spec == Init /\ [][Next]_vars

-----------------------------------------------------------------------------
(* Safety.                                                                 *)

Zero == {0}

\* The read positions user u ever asked for.
Asked(u) == Zero \cup {Num(p) : p \in {q \in Ops : User(q) = u
                                                 /\ Kind(q) = "read"}}

\* However rebuilds and updates interleave, fail and expire, a member of the
\* cache is about a participant of the room and carries that participant's
\* own read position, never another's: joinRoom trusts it to authorise, and
\* unread counts are computed from it.
CachedFieldsAreOwn ==
  \A e \in cache : e.user \in Participants /\ e.read \in Asked(e.user)

\* Nobody rebuilds the key from the rows, as a leave and some sends do: a
\* rebuild writes back rows read before the updates of others.
NoRebuild == \A p \in Ops : Kind(p) \notin {"send", "leave"}

Undisturbed ==
  scene.warm /\ scene.onePerUser /\ scene.faults \subseteq {"abort"} /\ NoRebuild

\* No request of user u was cut short.
Spared(u) == \A p \in Ops : User(p) = u => pc[p] # "aborted"

\* When the participants are cached, no user has two requests in flight and
\* nobody rebuilds the key, the updates of different users do not disturb
\* each other, wherever some of them are cut short: once all are done, every
\* participant but those whose own request was cut short is cached exactly
\* once and as the row says.
CacheAgreesWhenQuiet ==
  Undisturbed /\ Quiet
    => \A u \in Live : Spared(u) => MembersOf(u) = {EntryOf(u)}

-----------------------------------------------------------------------------
(* What a comment of the code says and the code does not do.               *)

\* handleSendMessage: the message goes to all participants, the sender too.
EveryParticipantNotified ==
  \A p \in Ops :
    Kind(p) = "send" /\ pc[p] = "done"
      => \A u \in Participants : \E e \in view[p] : e.user = u
=============================================================================
