----------------------- MODULE ParticipantCacheProofs ------------------------
(***************************************************************************)
(* The safety of ParticipantCache for any number of users and requests.    *)
(***************************************************************************)
EXTENDS ParticipantCache, TLAPS

RequestsOf(u) == {p \in Ops : User(p) = u}

\* Which kind of request is at which stage, and what it knows there.
StageInv ==
  \A p \in Ops :
    /\ pc[p] \notin Idle /\ Kind(p) # "send" => User(p) \in Participants
    /\ pc[p] = "flush" => Kind(p) # "send"
    /\ pc[p] \in {"get", "find", "remove", "add"}
         => Kind(p) \in {"read", "mute", "unmute"}
    /\ pc[p] = "commit" => Kind(p) \in {"read", "leave"}
    /\ pc[p] \in {"readRows", "clear", "fill"} => Kind(p) \in {"send", "leave"}
    /\ pc[p] \in {"find", "remove", "add"}
         => entry[p] \in Entry /\ entry[p].user = User(p)
    /\ pc[p] = "remove" => target[p] \in Entry /\ target[p].user = User(p)

\* Rows, members of the key and the copies requests hold carry read positions
\* their user asked for.
OwnReads(S) == \A e \in S : e.read \in Asked(e.user)

OwnInv ==
  /\ \A u \in Participants : rows[u].read \in Asked(u)
  /\ OwnReads(cache)
  /\ \A p \in Ops :
       /\ OwnReads(view[p])
       /\ pc[p] \in {"find", "remove", "add"} => entry[p].read \in Asked(User(p))

\* The member that will stand for the row once request p has committed.
Goal(p) == IF Kind(p) = "read" THEN [EntryOf(User(p)) EXCEPT !.read = Num(p)]
                               ELSE EntryOf(User(p))

\* The one member of p's user at each stage of updateParticipant.
MemberAt(p) ==
  /\ pc[p] = "flush" => MembersOf(User(p)) = {EntryOf(User(p))}
  /\ pc[p] = "get" => \E e \in MembersOf(User(p)) :
                        /\ MembersOf(User(p)) = {e}
                        /\ Changed(e, p) = Goal(p)
  /\ pc[p] = "find" => \E e \in MembersOf(User(p)) : MembersOf(User(p)) = {e}
  /\ pc[p] = "remove" => MembersOf(User(p)) = {target[p]}
  /\ pc[p] = "add" => MembersOf(User(p)) = {}
  /\ pc[p] \in {"find", "remove", "add"} => entry[p] = Goal(p)
  /\ pc[p] = "commit" => MembersOf(User(p)) = {Goal(p)}

\* What is so of user u when nothing is disturbed and none of u's requests was
\* cut short: at most one request, and exactly one member, which agrees with
\* the row when no request is running.
CalmFor(u) ==
  /\ ~rows[u].gone
  /\ \A p, q \in RequestsOf(u) :
       pc[p] \notin Idle /\ pc[q] \notin Idle => p = q
  /\ (\A p \in RequestsOf(u) : pc[p] \in Idle) => MembersOf(u) = {EntryOf(u)}
  /\ \A p \in RequestsOf(u) : MemberAt(p)

CalmInv == Undisturbed => \A u \in Participants : Spared(u) => CalmFor(u)

IInv == TypeOK /\ StageInv /\ OwnInv /\ CalmInv

-----------------------------------------------------------------------------
(* The kind of a request and what it asks never change; the members of a   *)
(* user are those of the key that carry the user's id.                     *)

LEMMA Requests ==
  ASSUME NEW p \in Ops, scene \in Scenes
  PROVE  /\ User(p) \in Users
         /\ Kind(p) \in Kinds
         /\ Num(p) \in Nat
  BY ParticipantAssumption DEF Scene, User, Kind, Num

LEMMA SceneStays ==
  ASSUME [Next]_vars, NEW p
  PROVE  /\ scene' = scene
         /\ User(p)' = User(p)
         /\ Kind(p)' = Kind(p)
         /\ Num(p)' = Num(p)
  BY DEF Next, vars, User, Kind, Num

\* The member an update adds is a participant's.
LEMMA ChangedIsEntry ==
  ASSUME NEW p \in Ops, scene \in Scenes, NEW e \in Entry
  PROVE  /\ Changed(e, p) \in Entry
         /\ Changed(e, p).user = e.user
         /\ Kind(p) = "read" => Changed(e, p).read = Num(p)
         /\ Kind(p) # "read" => Changed(e, p).read = e.read
  BY Requests DEF Changed, Entry

\* Muting rewrites one field of a row.
LEMMA MutedRow ==
  ASSUME NEW r \in Row, NEW b \in BOOLEAN
  PROVE  /\ [r EXCEPT !.muted = b] \in Row
         /\ [r EXCEPT !.muted = b].muted = b
         /\ [r EXCEPT !.muted = b].read = r.read
         /\ [r EXCEPT !.muted = b].gone = r.gone
<1>1. [r EXCEPT !.muted = b]
        = [read |-> r.read, muted |-> b, left |-> r.left, gone |-> r.gone]
  BY DEF Row
<1> QED
  BY <1>1 DEF Row

\* What a commit writes keeps a row a row.
LEMMA EndedRow ==
  ASSUME NEW r \in Row, NEW n \in Nat
  PROVE  [r EXCEPT !.read = n] \in Row /\ [r EXCEPT !.left = TRUE] \in Row
  BY DEF Row

LEMMA EntryOfIsEntry ==
  ASSUME TypeOK, NEW u \in Participants
  PROVE  EntryOf(u) \in Entry
  BY DEF TypeOK, EntryOf, Entry, Row

-----------------------------------------------------------------------------
(* Types, and what is known at each stage.                                 *)

LEMMA TypeInit == Init => TypeOK /\ StageInv
<1> SUFFICES ASSUME Init PROVE TypeOK /\ StageInv
  OBVIOUS
<1>1. rows \in [Participants -> Row]
  BY DEF Init, FreshRow, Row
<1>2. {EntryOf(u) : u \in Participants} \subseteq Entry
  BY <1>1 DEF EntryOf, Entry, Row
<1>3. cache \subseteq Entry
  BY <1>2 DEF Init
<1> QED
  BY <1>1, <1>3 DEF Init, TypeOK, StageInv, PCs, Idle

LEMMA TypeStep == TypeOK /\ StageInv /\ [Next]_vars => TypeOK'
<1> SUFFICES ASSUME TypeOK, StageInv, [Next]_vars PROVE TypeOK'
  OBVIOUS
<1> USE DEF TypeOK, PCs, Idle, Goto
<1>1. CASE UNCHANGED vars
  BY <1>1 DEF vars
<1>2. ASSUME NEW p \in Ops, Step(p), UNCHANGED scene PROVE TypeOK'
  <2>1. CASE LoadFromCache(p)
    BY <1>2, <2>1 DEF LoadFromCache
  <2>2. CASE LoadMiss(p)
    BY <1>2, <2>2 DEF LoadMiss
  <2>3. CASE ReadRows(p)
    BY <1>2, <2>3, EntryOfIsEntry DEF ReadRows, Live
  <2>4. CASE ClearKey(p)
    BY <1>2, <2>4 DEF ClearKey, Finish
  <2>5. CASE FillKey(p)
    BY <1>2, <2>5 DEF FillKey, Finish
  <2>6. CASE FindRow(p)
    BY <1>2, <2>6 DEF FindRow
  <2>7. CASE Refuse(p)
    BY <1>2, <2>7 DEF Refuse
  <2>8. CASE FlushInTransaction(p)
    BY <1>2, <2>8, ParticipantAssumption DEF FlushInTransaction
  <2>9. CASE FlushMuted(p)
    <3>1. User(p) \in Participants
      BY <2>9 DEF FlushMuted, StageInv
    <3>2. [rows[User(p)] EXCEPT !.muted = (Kind(p) = "mute")] \in Row
      BY <3>1, MutedRow
    <3>3. rows' \in [Participants -> Row]
      BY <2>9, <3>1, <3>2, Zenon DEF FlushMuted
    <3> QED
      BY <1>2, <2>9, <3>3 DEF FlushMuted
  <2>10. CASE GetParticipant(p)
    BY <1>2, <2>10, ChangedIsEntry DEF GetParticipant, MembersOf
  <2>11. CASE ParticipantNotCached(p)
    BY <1>2, <2>11 DEF ParticipantNotCached, Finish
  <2>12. CASE FindTarget(p)
    BY <1>2, <2>12 DEF FindTarget, MembersOf
  <2>13. CASE NoTarget(p)
    BY <1>2, <2>13 DEF NoTarget
  <2>14. CASE RemoveMember(p)
    BY <1>2, <2>14 DEF RemoveMember
  <2>15. CASE AddMember(p)
    BY <1>2, <2>15 DEF AddMember, Finish, StageInv
  <2>16. CASE Commit(p)
    <3>1. User(p) \in Participants /\ Num(p) \in Nat
      BY <2>16, Requests DEF Commit, StageInv
    <3>2. /\ [rows[User(p)] EXCEPT !.read = Num(p)] \in Row
          /\ [rows[User(p)] EXCEPT !.left = TRUE] \in Row
      BY <3>1, EndedRow
    <3>3. rows' \in [Participants -> Row]
      BY <2>16, <3>1, <3>2, Zenon DEF Commit
    <3> QED
      BY <1>2, <2>16, <3>3 DEF Commit
  <2> QED
    BY <1>2, <2>1, <2>2, <2>3, <2>4, <2>5, <2>6, <2>7, <2>8, <2>9, <2>10,
       <2>11, <2>12, <2>13, <2>14, <2>15, <2>16 DEF Step
<1>3. ASSUME NEW p \in Ops, Abort(p), UNCHANGED scene PROVE TypeOK'
  BY <1>3 DEF Abort
<1>4. ASSUME NEW u \in Participants, Withdraw(u), UNCHANGED scene PROVE TypeOK'
  BY <1>4 DEF Withdraw, Row
<1>5. CASE CacheExpires /\ UNCHANGED scene
  BY <1>5 DEF CacheExpires
<1> QED
  BY <1>1, <1>2, <1>3, <1>4, <1>5 DEF Next

LEMMA StageStep == TypeOK /\ StageInv /\ [Next]_vars => StageInv'
<1> SUFFICES ASSUME TypeOK, StageInv, [Next]_vars PROVE StageInv'
  OBVIOUS
<1> USE SceneStays DEF TypeOK, StageInv, Idle, Goto
<1>1. CASE UNCHANGED vars
  BY <1>1 DEF vars
<1>2. ASSUME NEW p \in Ops, Step(p), UNCHANGED scene PROVE StageInv'
  <2>1. CASE LoadFromCache(p)
    BY <1>2, <2>1 DEF LoadFromCache
  <2>2. CASE LoadMiss(p)
    BY <1>2, <2>2 DEF LoadMiss
  <2>3. CASE ReadRows(p)
    BY <1>2, <2>3 DEF ReadRows
  <2>4. CASE ClearKey(p)
    BY <1>2, <2>4 DEF ClearKey, Finish
  <2>5. CASE FillKey(p)
    BY <1>2, <2>5 DEF FillKey, Finish
  <2>6. CASE FindRow(p)
    BY <1>2, <2>6, Requests DEF FindRow, Allowed, Live
  <2>7. CASE Refuse(p)
    BY <1>2, <2>7 DEF Refuse
  <2>8. CASE FlushInTransaction(p)
    BY <1>2, <2>8 DEF FlushInTransaction
  <2>9. CASE FlushMuted(p)
    BY <1>2, <2>9 DEF FlushMuted
  <2>10. CASE GetParticipant(p)
    BY <1>2, <2>10, ChangedIsEntry DEF GetParticipant, MembersOf
  <2>11. CASE ParticipantNotCached(p)
    BY <1>2, <2>11 DEF ParticipantNotCached, Finish
  <2>12. CASE FindTarget(p)
    BY <1>2, <2>12 DEF FindTarget, MembersOf
  <2>13. CASE NoTarget(p)
    BY <1>2, <2>13 DEF NoTarget
  <2>14. CASE RemoveMember(p)
    BY <1>2, <2>14 DEF RemoveMember
  <2>15. CASE AddMember(p)
    BY <1>2, <2>15 DEF AddMember, Finish
  <2>16. CASE Commit(p)
    BY <1>2, <2>16 DEF Commit
  <2> QED
    BY <1>2, <2>1, <2>2, <2>3, <2>4, <2>5, <2>6, <2>7, <2>8, <2>9, <2>10,
       <2>11, <2>12, <2>13, <2>14, <2>15, <2>16 DEF Step
<1>3. ASSUME NEW p \in Ops, Abort(p), UNCHANGED scene PROVE StageInv'
  BY <1>3 DEF Abort
<1>4. ASSUME NEW u \in Participants, Withdraw(u), UNCHANGED scene
      PROVE  StageInv'
  BY <1>4 DEF Withdraw
<1>5. CASE CacheExpires /\ UNCHANGED scene
  BY <1>5 DEF CacheExpires
<1> QED
  BY <1>1, <1>2, <1>3, <1>4, <1>5 DEF Next

-----------------------------------------------------------------------------
(* Read positions.                                                         *)

LEMMA AskedStays ==
  ASSUME [Next]_vars, NEW u
  PROVE  Asked(u)' = Asked(u)
  BY SceneStays DEF Asked

LEMMA ReadIsAsked ==
  ASSUME NEW p \in Ops, Kind(p) = "read"
  PROVE  Num(p) \in Asked(User(p))
  BY DEF Asked

LEMMA LiveReadsAsked ==
  ASSUME OwnInv
  PROVE  OwnReads({EntryOf(u) : u \in Live})
  BY DEF OwnInv, OwnReads, EntryOf, Live

\* What is changed of a participant's member leaves its read position one
\* the participant asked for.
LEMMA ChangedIsOwn ==
  ASSUME TypeOK, OwnInv, NEW p \in Ops, NEW e \in MembersOf(User(p))
  PROVE  Changed(e, p).read \in Asked(User(p))
<1>1. e \in Entry /\ e.user = User(p) /\ e.read \in Asked(User(p))
  BY DEF TypeOK, OwnInv, OwnReads, MembersOf
<1> QED
  BY <1>1, ChangedIsEntry, ReadIsAsked DEF TypeOK

LEMMA OwnStep ==
  TypeOK /\ StageInv /\ OwnInv /\ [Next]_vars => OwnInv'
<1> SUFFICES ASSUME TypeOK, StageInv, OwnInv, [Next]_vars PROVE OwnInv'
  OBVIOUS
<1> USE SceneStays, AskedStays DEF TypeOK, OwnInv, OwnReads, Idle, Goto
<1>1. CASE UNCHANGED vars
  BY <1>1 DEF vars
<1>2. ASSUME NEW p \in Ops, Step(p), UNCHANGED scene PROVE OwnInv'
  <2>1. CASE LoadFromCache(p)
    BY <1>2, <2>1 DEF LoadFromCache
  <2>2. CASE LoadMiss(p)
    BY <1>2, <2>2 DEF LoadMiss
  <2>3. CASE ReadRows(p)
    BY <1>2, <2>3, LiveReadsAsked DEF ReadRows
  <2>4. CASE ClearKey(p)
    BY <1>2, <2>4 DEF ClearKey, Finish
  <2>5. CASE FillKey(p)
    BY <1>2, <2>5 DEF FillKey, Finish
  <2>6. CASE FindRow(p)
    BY <1>2, <2>6 DEF FindRow
  <2>7. CASE Refuse(p)
    BY <1>2, <2>7 DEF Refuse
  <2>8. CASE FlushInTransaction(p)
    BY <1>2, <2>8 DEF FlushInTransaction
  <2>9. CASE FlushMuted(p)
    <3>1. User(p) \in Participants
      BY <2>9 DEF FlushMuted, StageInv
    <3>2. \A u \in Participants : rows'[u].read = rows[u].read
      BY <2>9, <3>1, MutedRow DEF FlushMuted
    <3> QED
      BY <2>9, <3>2 DEF FlushMuted
  <2>10. CASE GetParticipant(p)
    BY <1>2, <2>10, ChangedIsOwn DEF GetParticipant
  <2>11. CASE ParticipantNotCached(p)
    BY <1>2, <2>11 DEF ParticipantNotCached, Finish
  <2>12. CASE FindTarget(p)
    BY <1>2, <2>12 DEF FindTarget
  <2>13. CASE NoTarget(p)
    BY <1>2, <2>13 DEF NoTarget
  <2>14. CASE RemoveMember(p)
    BY <1>2, <2>14 DEF RemoveMember
  <2>15. CASE AddMember(p)
    BY <1>2, <2>15 DEF AddMember, Finish, StageInv
  <2>16. CASE Commit(p)
    <3>1. User(p) \in Participants
      BY <2>16 DEF Commit, StageInv
    <3>2. \A u \in Participants : rows'[u].read \in Asked(u)
      BY <2>16, <3>1, ReadIsAsked DEF Commit, Row
    <3> QED
      BY <2>16, <3>2 DEF Commit
  <2> QED
    BY <1>2, <2>1, <2>2, <2>3, <2>4, <2>5, <2>6, <2>7, <2>8, <2>9, <2>10,
       <2>11, <2>12, <2>13, <2>14, <2>15, <2>16 DEF Step
<1>3. ASSUME NEW p \in Ops, Abort(p), UNCHANGED scene PROVE OwnInv'
  BY <1>3 DEF Abort
<1>4. ASSUME NEW u \in Participants, Withdraw(u), UNCHANGED scene PROVE OwnInv'
  BY <1>4 DEF Withdraw, Row
<1>5. CASE CacheExpires /\ UNCHANGED scene
  BY <1>5 DEF CacheExpires
<1> QED
  BY <1>1, <1>2, <1>3, <1>4, <1>5 DEF Next

-----------------------------------------------------------------------------
(* A quiet conversation: the updates of one user leave the others alone.   *)

LEMMA UndisturbedStays == [Next]_vars /\ Undisturbed' => Undisturbed
<1> SUFFICES ASSUME [Next]_vars, Undisturbed' PROVE Undisturbed
  OBVIOUS
<1>1. scene' = scene
  BY DEF Next, vars
<1> QED
  BY <1>1 DEF Undisturbed, NoRebuild, Kind

\* What is so of a user stays so while the user's row, members and requests
\* stay.
LEMMA CalmFrame ==
  ASSUME NEW u \in Participants, CalmFor(u), scene' = scene,
         rows'[u] = rows[u], MembersOf(u)' = MembersOf(u),
         \A p \in RequestsOf(u) : /\ pc'[p] = pc[p]
                                 /\ entry'[p] = entry[p]
                                 /\ target'[p] = target[p]
  PROVE  CalmFor(u)'
<1>1. RequestsOf(u)' = RequestsOf(u) /\ EntryOf(u)' = EntryOf(u)
  BY DEF RequestsOf, User, EntryOf
<1>2. ASSUME NEW p \in RequestsOf(u) PROVE MemberAt(p)'
  <2>1. /\ User(p) = u
        /\ User(p)' = u
        /\ Goal(p)' = Goal(p)
        /\ MembersOf(User(p))' = MembersOf(User(p))
        /\ EntryOf(User(p))' = EntryOf(User(p))
        /\ \A e \in MembersOf(u) : Changed(e, p)' = Changed(e, p)
    BY <1>1, <1>2 DEF RequestsOf, User, Kind, Num, Goal, Changed
  <2>2. MemberAt(p)
    BY <1>2 DEF CalmFor
  <2> QED
    BY <1>2, <2>1, <2>2 DEF MemberAt
<1> QED
  BY <1>1, <1>2 DEF CalmFor

\* Nobody sends or leaves, so of a request's steps these remain.
LEMMA CalmSteps ==
  ASSUME StageInv, Undisturbed, NEW p \in Ops, Step(p)
  PROVE  \/ FindRow(p) \/ Refuse(p) \/ FlushInTransaction(p) \/ FlushMuted(p)
         \/ GetParticipant(p) \/ ParticipantNotCached(p)
         \/ FindTarget(p) \/ NoTarget(p) \/ RemoveMember(p) \/ AddMember(p)
         \/ Commit(p)
  BY DEF Undisturbed, NoRebuild, StageInv, Step, Goto, LoadFromCache, LoadMiss,
     ReadRows, ClearKey, FillKey

\* While a request takes a step, its user's other requests are idle.
LEMMA OthersIdle ==
  ASSUME StageInv, Undisturbed, NEW u \in Participants, CalmFor(u),
         NEW p \in RequestsOf(u), Step(p), NEW q \in RequestsOf(u), q # p
  PROVE  pc[q] \in Idle
<1>1. p \in Ops /\ q \in Ops /\ User(q) = User(p)
  BY DEF RequestsOf
<1>2. pc[p] \in Idle => MayStart(p)
  BY <1>1, CalmSteps DEF FindRow, Refuse, FlushInTransaction, FlushMuted,
     GetParticipant, ParticipantNotCached, FindTarget, NoTarget, RemoveMember,
     AddMember, Commit, Goto, Idle
<1> QED
  BY <1>1, <1>2 DEF MayStart, Undisturbed, CalmFor

\* A step of a request of user p leaves user u's row and members alone.
LEMMA OtherUsersKept ==
  ASSUME TypeOK, StageInv, Undisturbed, NEW p \in Ops, Step(p),
         NEW u \in Participants, User(p) # u
  PROVE  rows'[u] = rows[u] /\ MembersOf(u)' = MembersOf(u)
<1> USE DEF TypeOK, StageInv, MembersOf, Goto
<1>1. CASE FindRow(p) \/ Refuse(p)
  BY <1>1 DEF FindRow, Refuse
<1>2. CASE FlushInTransaction(p) \/ FlushMuted(p) \/ Commit(p)
  BY <1>2 DEF FlushInTransaction, FlushMuted, Commit
<1>3. CASE \/ GetParticipant(p) \/ ParticipantNotCached(p)
           \/ FindTarget(p) \/ NoTarget(p)
  BY <1>3 DEF GetParticipant, ParticipantNotCached, FindTarget, NoTarget
<1>4. CASE RemoveMember(p) \/ AddMember(p)
  BY <1>4 DEF RemoveMember, AddMember
<1> QED
  BY <1>1, <1>2, <1>3, <1>4, CalmSteps

\* A step of the one request in flight for user u.
LEMMA OwnUserKept ==
  ASSUME TypeOK, StageInv, Undisturbed, NEW u \in Participants, CalmFor(u),
         NEW p \in RequestsOf(u), Step(p), scene' = scene
  PROVE  /\ ~rows'[u].gone
         /\ MemberAt(p)'
         /\ pc'[p] \in Idle => MembersOf(u)' = {EntryOf(u)'}
<1>1. /\ p \in Ops
      /\ User(p) = u
      /\ User(p)' = u
      /\ Kind(p)' = Kind(p)
      /\ Num(p)' = Num(p)
      /\ Kind(p) \in {"read", "mute", "unmute"}
      /\ Num(p) \in Nat
  BY Requests DEF RequestsOf, User, Kind, Num, TypeOK, Undisturbed, NoRebuild,
     Kinds
<1>2. MemberAt(p) /\ ~rows[u].gone /\ rows[u] \in Row
  BY DEF CalmFor, TypeOK
<1>3. pc[p] \in Idle => MembersOf(u) = {EntryOf(u)}
  BY OthersIdle DEF CalmFor
<1> USE <1>1, <1>2, <1>3 DEF MemberAt, Goto, Idle
<1>4. CASE FindRow(p) \/ Refuse(p)
  <2>1. MembersOf(u)' = MembersOf(u) /\ EntryOf(u)' = EntryOf(u)
    BY <1>4 DEF FindRow, Refuse, MembersOf, EntryOf
  <2> QED
    BY <1>4, <2>1 DEF FindRow, Refuse, TypeOK
<1>5. CASE FlushInTransaction(p)
  <2>1. /\ MembersOf(u)' = MembersOf(u)
        /\ \A e : Changed(e, p)' = Changed(e, p)
        /\ Goal(p)' = Goal(p)
    BY <1>5 DEF FlushInTransaction, MembersOf, EntryOf, Changed, Goal
  <2>2. Kind(p) = "read" /\ pc[p] = "flush" /\ pc'[p] = "get"
    BY <1>5 DEF FlushInTransaction, TypeOK
  <2>3. Changed(EntryOf(u), p) = Goal(p)
    BY <2>2 DEF Changed, Goal
  <2> QED
    BY <1>5, <2>1, <2>2, <2>3 DEF FlushInTransaction
<1>6. CASE FlushMuted(p)
  <2>1. MembersOf(u)' = MembersOf(u)
    BY <1>6 DEF FlushMuted, MembersOf
  <2>2. Kind(p) # "read" /\ pc[p] = "flush" /\ pc'[p] = "get"
    BY <1>6 DEF FlushMuted, TypeOK
  <2>3. /\ rows'[u].muted = (Kind(p) = "mute")
        /\ rows'[u].read = rows[u].read
        /\ rows'[u].gone = rows[u].gone
    BY <1>6, MutedRow DEF FlushMuted, TypeOK
  <2>4. PICK e \in MembersOf(u) : e = EntryOf(u) /\ MembersOf(u) = {e}
    BY <2>2
  <2>5. Changed(e, p)' = Goal(p)'
    BY <2>2, <2>3, <2>4 DEF Changed, Goal, EntryOf
  <2> QED
    BY <2>1, <2>2, <2>3, <2>4, <2>5
<1>7. CASE GetParticipant(p)
  <2>1. /\ MembersOf(u)' = MembersOf(u)
        /\ Goal(p)' = Goal(p)
    BY <1>7 DEF GetParticipant, MembersOf, EntryOf, Goal
  <2>2. pc[p] = "get" /\ pc'[p] = "find" /\ entry'[p] = Goal(p)
    BY <1>7 DEF GetParticipant, TypeOK
  <2> QED
    BY <1>7, <2>1, <2>2 DEF GetParticipant
<1>8. CASE FindTarget(p)
  <2>1. /\ MembersOf(u)' = MembersOf(u)
        /\ Goal(p)' = Goal(p)
    BY <1>8 DEF FindTarget, MembersOf, EntryOf, Goal
  <2>2. /\ pc[p] = "find" /\ pc'[p] = "remove" /\ entry'[p] = entry[p]
        /\ target'[p] \in MembersOf(u)
    BY <1>8 DEF FindTarget, TypeOK
  <2> QED
    BY <1>8, <2>1, <2>2 DEF FindTarget
<1>9. CASE ParticipantNotCached(p) \/ NoTarget(p)
  BY <1>9 DEF ParticipantNotCached, NoTarget
<1>10. CASE RemoveMember(p)
  <2>1. MembersOf(u)' = {} /\ Goal(p)' = Goal(p)
    BY <1>10 DEF RemoveMember, MembersOf, EntryOf, Goal
  <2> QED
    BY <1>10, <2>1 DEF RemoveMember, TypeOK
<1>11. CASE AddMember(p)
  <2>1. /\ MembersOf(u)' = {Goal(p)}
        /\ Goal(p)' = Goal(p)
        /\ EntryOf(u)' = EntryOf(u)
    BY <1>11 DEF AddMember, MembersOf, EntryOf, Goal, StageInv
  <2>2. pc'[p] = IF Kind(p) = "read" THEN "commit" ELSE "done"
    BY <1>11 DEF AddMember, Finish, TypeOK
  <2> QED
    BY <1>11, <2>1, <2>2 DEF AddMember, Goal
<1>12. CASE Commit(p)
  <2>1. Kind(p) = "read"
    BY <1>12 DEF Commit, StageInv
  <2>2. MembersOf(u)' = MembersOf(u) /\ pc[p] = "commit" /\ pc'[p] = "done"
    BY <1>12 DEF Commit, MembersOf, TypeOK
  <2>3. /\ rows'[u].read = Num(p)
        /\ rows'[u].muted = rows[u].muted
        /\ rows'[u].gone = rows[u].gone
    BY <1>12, <2>1 DEF Commit, TypeOK, Row
  <2>4. EntryOf(u)' = Goal(p)
    BY <2>1, <2>3 DEF EntryOf, Goal
  <2> QED
    BY <2>2, <2>3, <2>4
<1> QED
  BY <1>4, <1>5, <1>6, <1>7, <1>8, <1>9, <1>10, <1>11, <1>12, CalmSteps

\* A request that was cut short stays so.
LEMMA AbortedStays ==
  ASSUME TypeOK, StageInv, Undisturbed, [Next]_vars, NEW u, Spared(u)'
  PROVE  Spared(u)
<1> SUFFICES ASSUME NEW p \in Ops, pc[p] = "aborted" PROVE pc'[p] = "aborted"
  BY SceneStays DEF Spared
<1>1. ASSUME NEW q \in Ops, Step(q) PROVE pc'[p] = "aborted"
  BY <1>1, CalmSteps DEF TypeOK, Goto, FindRow, Refuse, FlushInTransaction,
     FlushMuted, GetParticipant, ParticipantNotCached, FindTarget, NoTarget,
     RemoveMember, AddMember, Commit
<1>2. ASSUME NEW q \in Ops, Abort(q) PROVE pc'[p] = "aborted"
  BY <1>2 DEF TypeOK, Abort
<1>3. ASSUME NEW v \in Participants, Withdraw(v) PROVE pc'[p] = "aborted"
  BY <1>3 DEF Withdraw
<1>4. CASE CacheExpires
  BY <1>4 DEF CacheExpires
<1>5. CASE UNCHANGED vars
  BY <1>5 DEF vars
<1> QED
  BY <1>1, <1>2, <1>3, <1>4, <1>5 DEF Next

LEMMA CalmStep ==
  TypeOK /\ StageInv /\ CalmInv /\ [Next]_vars => CalmInv'
<1> SUFFICES ASSUME TypeOK, StageInv, CalmInv, [Next]_vars, Undisturbed',
                    NEW u \in Participants, Spared(u)'
             PROVE  CalmFor(u)'
  BY DEF CalmInv
<1>1. Undisturbed /\ CalmFor(u) /\ scene' = scene
  BY UndisturbedStays, AbortedStays DEF CalmInv, Next, vars
<1>2. CASE UNCHANGED vars
  BY <1>1, <1>2, CalmFrame DEF vars, MembersOf
<1>3. ASSUME NEW p \in Ops, Step(p), UNCHANGED scene PROVE CalmFor(u)'
  <2>1. /\ pc' = [pc EXCEPT ![p] = pc'[p]]
        /\ entry' = [entry EXCEPT ![p] = entry'[p]]
        /\ target' = [target EXCEPT ![p] = target'[p]]
    BY <1>1, <1>3, CalmSteps DEF TypeOK, Goto, FindRow, Refuse,
       FlushInTransaction, FlushMuted, GetParticipant, ParticipantNotCached,
       FindTarget, NoTarget, RemoveMember, AddMember, Commit
  <2>2. CASE User(p) # u
    <3>1. \A q \in RequestsOf(u) : q \in Ops /\ q # p
      BY <2>2 DEF RequestsOf
    <3> QED
      BY <1>1, <1>3, <2>1, <2>2, <3>1, OtherUsersKept, CalmFrame DEF TypeOK
  <2>3. CASE User(p) = u
    <3>1. p \in RequestsOf(u) /\ RequestsOf(u)' = RequestsOf(u)
      BY <1>1, <2>3 DEF RequestsOf, User
    <3>2. ASSUME NEW q \in RequestsOf(u), q # p
          PROVE  pc'[q] \in Idle /\ MemberAt(q)'
      <4>1. q \in Ops /\ pc[q] \in Idle
        BY <1>1, <1>3, <3>1, <3>2, OthersIdle DEF RequestsOf
      <4>2. pc'[q] \in Idle
        BY <2>1, <3>2, <4>1 DEF TypeOK
      <4> QED
        BY <4>2 DEF MemberAt, Idle
    <3> QED
      BY <1>1, <1>3, <3>1, <3>2, OwnUserKept DEF CalmFor
  <2> QED
    BY <2>2, <2>3
<1>4. ASSUME NEW p \in Ops, Abort(p) PROVE CalmFor(u)'
  <2>1. User(p) # u
    BY <1>1, <1>4 DEF Spared, Abort, TypeOK, User
  <2>2. \A q \in RequestsOf(u) : pc'[q] = pc[q]
    BY <1>4, <2>1 DEF Abort, RequestsOf
  <2> QED
    BY <1>1, <1>4, <2>2, CalmFrame DEF Abort, MembersOf
<1>5. CASE (\E v \in Participants : Withdraw(v)) \/ CacheExpires
  BY <1>1, <1>5 DEF Undisturbed, Withdraw, CacheExpires
<1> QED
  BY <1>2, <1>3, <1>4, <1>5 DEF Next

LEMMA InitOwnCalm == Init => OwnInv /\ CalmInv
<1> SUFFICES ASSUME Init PROVE OwnInv /\ CalmInv
  OBVIOUS
<1>1. OwnInv
  BY DEF Init, OwnInv, OwnReads, EntryOf, FreshRow, Asked, Zero
<1>2. ASSUME Undisturbed, NEW u \in Participants PROVE CalmFor(u)
  <2>1. cache = {EntryOf(v) : v \in Participants}
    BY <1>2 DEF Init, Undisturbed
  <2>2. MembersOf(u) = {EntryOf(u)}
    BY <2>1 DEF MembersOf, EntryOf
  <2>3. ~rows[u].gone
    BY DEF Init, FreshRow
  <2> QED
    BY <2>2, <2>3 DEF Init, CalmFor, MemberAt, RequestsOf, Idle
<1> QED
  BY <1>1, <1>2 DEF CalmInv

-----------------------------------------------------------------------------
(* The theorems.                                                           *)

\* The inductive invariant: types, stages, read positions and the
\* members of an undisturbed conversation.
THEOREM CacheInvariant == Spec => []IInv
<1>1. Init => IInv
  BY TypeInit, InitOwnCalm DEF IInv
<1>2. IInv /\ [Next]_vars => IInv'
  BY TypeStep, StageStep, OwnStep, CalmStep DEF IInv
<1> QED
  BY <1>1, <1>2, PTL DEF Spec

\* Rows, locks, the Redis set and the requests' copies keep their types.
THEOREM TypeCorrect == Spec => []TypeOK
<1>1. IInv => TypeOK
  BY DEF IInv
<1> QED
  BY <1>1, CacheInvariant, PTL

\* Whatever rebuilds, updates, failures and expiries do to the Redis set, a
\* member of it is about a participant and carries a read position that very
\* participant asked for.
THEOREM FieldsAreOwn == Spec => []CachedFieldsAreOwn
<1>1. IInv => CachedFieldsAreOwn
  BY DEF IInv, TypeOK, OwnInv, OwnReads, CachedFieldsAreOwn, Entry
<1> QED
  BY <1>1, CacheInvariant, PTL

\* Updates of different users do not disturb each other: with the participants
\* cached, one request a user and no rebuild, once all requests are done every
\* participant none of whose own was cut short is cached once, as the row says.
THEOREM CacheAgrees == Spec => []CacheAgreesWhenQuiet
<1>1. ASSUME IInv, Undisturbed, Quiet, NEW u \in Live, Spared(u)
      PROVE  MembersOf(u) = {EntryOf(u)}
  BY <1>1 DEF IInv, CalmInv, CalmFor, Quiet, RequestsOf, Live
<1>2. IInv => CacheAgreesWhenQuiet
  BY <1>1 DEF CacheAgreesWhenQuiet
<1> QED
  BY <1>2, CacheInvariant, PTL
=============================================================================
