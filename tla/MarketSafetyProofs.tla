------------------------- MODULE MarketSafetyProofs -------------------------
(***************************************************************************)
(* What the requests of Market promise, for any posts, users, plans, tables*)
(* at the start and failures: whom a price change tells, whom a message    *)
(* reaches, and that a list read page by page is complete; each with the   *)
(* inductive invariant it needs, from what MarketProofs says of the rows   *)
(* that each step leaves.                                                  *)
(***************************************************************************)
EXTENDS MarketProofs

-----------------------------------------------------------------------------
(* The fan-out of a price change.                                          *)

\* The rows of notifications after a step.
LEMMA NotificationsKept ==
  ASSUME DataInv, NEW r \in Req, Handle(r)
  PROVE  /\ \A i \in DOMAIN db.notifications :
              /\ i \in DOMAIN db'.notifications
              /\ db'.notifications[i].by = db.notifications[i].by
              /\ db'.notifications[i].user = db.notifications[i].user
         /\ \A i \in DOMAIN db'.notifications : i \notin DOMAIN db.notifications =>
              /\ CommitEdit(r) /\ db'.notifications[i].by = r
              /\ db'.notifications[i].user \in got[r].targets
              /\ \A j \in DOMAIN db'.notifications : j \notin DOMAIN db.notifications =>
                   (db'.notifications[i].user = db'.notifications[j].user => i = j)
         /\ CommitEdit(r) => \A u \in got[r].targets : \E i \in DOMAIN db'.notifications :
              db'.notifications[i].by = r /\ db'.notifications[i].user = u
<1>1. StoreInv /\ StageInv
  BY DEF DataInv
<1>2. PICK Row : Row = NotificationRow(UserIds, PostIds, Writers)
  OBVIOUS
<1>3. /\ db.notifications \in Seq(Row)
      /\ \A i \in DOMAIN db.notifications : db.notifications[i] \in Row
  BY <1>2, RowTypes
<1>4. /\ ~CommitEdit(r) \/ (/\ ~MarkNotificationAsRead(r) /\ ~DeleteNotifications(r)
                            /\ ~Withdraw(r))
  BY DEF CommitEdit, MarkNotificationAsRead, DeleteNotifications, Withdraw, Step
<1>5. CASE CommitEdit(r)
  <2>1. pc[r] = "commit"
    BY <1>5 DEF CommitEdit
  <2>2. PICK targets, new : /\ targets = got[r].targets
                            /\ new = Notified(r, targets, got[r].likers)
    OBVIOUS
  <2>3. targets \subseteq UserIds /\ Post(r) \in PostIds /\ now \in Seconds
    BY <1>1, <2>1, <2>2, MarketAssumption
       DEF DataInv, GotInv, GotOk, StoreInv, Seconds
  <2>4. db'.notifications = db.notifications \o new
    BY <1>1, <1>5, <2>2, CommitEditEffect
  <2>5. new \in Seq(Row) /\ Len(new) = Cardinality(targets)
    BY <1>1, <1>2, <2>2, <2>3, NotifiedType
  <2>6. PICK n, s : n = Cardinality(targets) /\ s = SetToSeq(targets)
    OBVIOUS
  <2>7. /\ n \in Nat /\ \A i \in 1 .. n : s[i] \in targets
        /\ \A i, j \in 1 .. n : s[i] = s[j] => i = j
        /\ \A u \in targets : \E i \in 1 .. n : s[i] = u
    BY <1>1, <2>3, <2>6, UsersFinite, SetToSeqRange
  <2>8. ASSUME NEW i \in 1 .. n PROVE new[i].user = s[i] /\ new[i].by = r
    <3>1. PICK about : about = IF s[i] \in got[r].likers THEN "LIKE" ELSE "CHAT"
      OBVIOUS
    <3>2. new[i] = [user |-> s[i], post |-> plan[r].post, about |-> about,
                    read |-> FALSE, at |-> now, live |-> TRUE, by |-> r]
      BY <2>2, <2>6, <3>1 DEF Notified
    <3>3. QED
      BY <3>2
  <2>9. PICK all, old : all = db'.notifications /\ old = db.notifications
    OBVIOUS
  <2>10. /\ Len(old) \in Nat /\ DOMAIN old = 1 .. Len(old)
         /\ DOMAIN all = 1 .. Len(old) + n
         /\ \A i \in DOMAIN old : i \in DOMAIN all /\ all[i] = old[i]
         /\ \A i \in DOMAIN all : i \notin DOMAIN old =>
              i - Len(old) \in 1 .. n /\ all[i] = new[i - Len(old)]
    BY <1>3, <2>4, <2>5, <2>6, <2>9, Concatenation
  <2>11. ASSUME NEW i \in DOMAIN all, i \notin DOMAIN old
         PROVE  /\ all[i].by = r /\ all[i].user \in targets
                /\ \A j \in DOMAIN all : j \notin DOMAIN old =>
                     (all[i].user = all[j].user => i = j)
    <3>1. i - Len(old) \in 1 .. n /\ all[i] = new[i - Len(old)] /\ i \in Nat
      BY <2>10, <2>11
    <3>2. ASSUME NEW j \in DOMAIN all, j \notin DOMAIN old, all[i].user = all[j].user
          PROVE  i = j
      <4>1. j - Len(old) \in 1 .. n /\ all[j] = new[j - Len(old)] /\ j \in Nat
        BY <2>10, <3>2
      <4>2. s[i - Len(old)] = s[j - Len(old)]
        BY <2>8, <3>1, <3>2, <4>1
      <4>3. i - Len(old) = j - Len(old)
        BY <2>7, <3>1, <4>1, <4>2
      <4>4. QED
        BY <2>10, <3>1, <4>1, <4>3
    <3>3. QED
      BY <2>7, <2>8, <3>1, <3>2
  <2>12. ASSUME NEW u \in targets
         PROVE  \E i \in DOMAIN all : all[i].by = r /\ all[i].user = u
    <3>1. PICK k \in 1 .. n : s[k] = u
      BY <2>7
    <3>2. /\ Len(old) + k \in DOMAIN all /\ Len(old) + k \notin DOMAIN old
          /\ (Len(old) + k) - Len(old) = k
      BY <2>7, <2>10
    <3>3. all[Len(old) + k] = new[k]
      BY <2>10, <3>2
    <3>4. QED
      BY <2>8, <3>1, <3>2, <3>3
  <2>13. QED
    BY <1>5, <2>2, <2>9, <2>10, <2>11, <2>12
<1>6. ASSUME ~CommitEdit(r), NEW f \in {"live", "read"}, NEW S, NEW v,
             db'.notifications = Write(db.notifications, S, f, v)
      PROVE  /\ DOMAIN db'.notifications = DOMAIN db.notifications
             /\ \A i \in DOMAIN db.notifications :
                  /\ db'.notifications[i].by = db.notifications[i].by
                  /\ db'.notifications[i].user = db.notifications[i].user
  <2>1. DOMAIN db'.notifications = DOMAIN db.notifications
    BY <1>6 DEF Write
  <2>2. ASSUME NEW i \in DOMAIN db.notifications
        PROVE  /\ db'.notifications[i].by = db.notifications[i].by
               /\ db'.notifications[i].user = db.notifications[i].user
    <3>1. PICK row : row = db.notifications[i]
      OBVIOUS
    <3>2. row \in Row
      BY <1>3, <3>1
    <3>3. db'.notifications[i] = [row EXCEPT ![f] = v] \/ db'.notifications[i] = row
      BY <1>6, <3>1 DEF Write
    <3>4. QED
      BY <1>2, <1>6, <3>1, <3>2, <3>3 DEF NotificationRow
  <2>3. QED
    BY <2>1, <2>2
<1>7. CASE ~CommitEdit(r) /\ db'.notifications # db.notifications
  <2>1. MarkNotificationAsRead(r) \/ DeleteNotifications(r) \/ Withdraw(r)
    BY <1>7, TableWriters
  <2>2. \E S : \/ db'.notifications = Write(db.notifications, S, "live", FALSE)
                \/ db'.notifications = Write(db.notifications, S, "read", TRUE)
    <3>1. CASE MarkNotificationAsRead(r)
      <4>1. PICK S : S = {plan[r].id}
        OBVIOUS
      <4>2. ~DeleteNotifications(r)
        BY <3>1 DEF MarkNotificationAsRead, DeleteNotifications, Step
      <4>3. db'.notifications = Write(db.notifications, S, "read", TRUE)
        BY <1>1, <3>1, <4>1, <4>2, NotificationsEffect
      <4>4. QED
        BY <4>3
    <3>2. CASE DeleteNotifications(r)
      <4>1. ~MarkNotificationAsRead(r)
        BY <3>2 DEF MarkNotificationAsRead, DeleteNotifications, Step
      <4>2. PICK S : db'.notifications = Write(db.notifications, S, "live", FALSE)
        BY <1>1, <3>2, <4>1, NotificationsEffect DEF SoftDelete
      <4>3. QED
        BY <4>2
    <3>3. CASE Withdraw(r)
      <4>1. PICK S : S = OwnedBy(db.notifications, User(r))
        OBVIOUS
      <4>2. db'.notifications = Write(db.notifications, S, "live", FALSE)
        BY <1>1, <3>3, <4>1, WithdrawEffect DEF SoftDelete
      <4>3. QED
        BY <4>2
    <3>4. QED
      BY <2>1, <3>1, <3>2, <3>3
  <2>3. PICK S : \/ db'.notifications = Write(db.notifications, S, "live", FALSE)
                 \/ db'.notifications = Write(db.notifications, S, "read", TRUE)
    BY <2>2
  <2>4. CASE db'.notifications = Write(db.notifications, S, "live", FALSE)
    BY <1>6, <1>7, <2>4
  <2>5. CASE db'.notifications = Write(db.notifications, S, "read", TRUE)
    BY <1>6, <1>7, <2>5
  <2>6. QED
    BY <2>3, <2>4, <2>5
<1>8. CASE ~CommitEdit(r) /\ db'.notifications = db.notifications
  BY <1>8
<1>9. QED
  BY <1>5, <1>7, <1>8

\* The queue after a step.
LEMMA QueueKept ==
  ASSUME DataInv, NEW r \in Req, Handle(r)
  PROVE  /\ \A i \in DOMAIN queued : i \in DOMAIN queued' /\ queued'[i] = queued[i]
         /\ \A i \in DOMAIN queued' : i \notin DOMAIN queued =>
              /\ SendMessageBatch(r) \/ SendPushMessages(r)
              /\ queued'[i].by = r
              /\ pc[r] = "push" =>
                   queued'[i].user \in ToSet(Window(got[r].unsent, 0, BatchSize))
              /\ pc[r] # "push" => queued'[i].user \in got[r].push
              /\ \A j \in DOMAIN queued' : j \notin DOMAIN queued =>
                   (queued'[i].user = queued'[j].user => i = j)
<1>1. StoreInv
  BY DEF DataInv
<1>2. CASE queued' = queued
  BY <1>2
<1>3. CASE SendMessageBatch(r) \/ SendPushMessages(r)
  <2>1. PICK S : /\ S \subseteq UserIds
                 /\ S \subseteq IF pc[r] = "push"
                                THEN ToSet(Window(got[r].unsent, 0, BatchSize))
                                ELSE got[r].push
                 /\ queued' = queued \o PushedTo(r, S)
    BY <1>3, QueueEffect
  <2>2. PICK n, s, new : /\ n = Cardinality(S) /\ s = SetToSeq(S)
                         /\ new = PushedTo(r, S)
    OBVIOUS
  <2>3. /\ n \in Nat /\ \A i \in 1 .. n : s[i] \in S
        /\ \A i, j \in 1 .. n : s[i] = s[j] => i = j
    BY <1>1, <2>1, <2>2, UsersFinite, SetToSeqRange
  <2>4. /\ DOMAIN new = 1 .. n
        /\ \A i \in 1 .. n : new[i] = [by |-> r, user |-> s[i]]
    BY <2>2 DEF PushedTo
  <2>5. queued \in Seq([by: Req, user: UserIds]) /\ new \in Seq([by: Req, user: UserIds])
    BY <1>1, <2>1, <2>2, PushedType DEF StoreInv
  <2>6. PICK all : all = queued'
    OBVIOUS
  <2>7. Len(new) = n
    BY <2>3, <2>4, <2>5
  <2>8. /\ Len(queued) \in Nat /\ DOMAIN queued = 1 .. Len(queued)
        /\ DOMAIN all = 1 .. Len(queued) + n
        /\ \A i \in DOMAIN queued : i \in DOMAIN all /\ all[i] = queued[i]
        /\ \A i \in DOMAIN all : i \notin DOMAIN queued =>
             i - Len(queued) \in 1 .. n /\ all[i] = new[i - Len(queued)]
    BY <2>1, <2>2, <2>5, <2>6, <2>7, Concatenation
  <2>9. ASSUME NEW i \in DOMAIN all, i \notin DOMAIN queued
        PROVE  /\ all[i].by = r /\ all[i].user \in S
               /\ \A j \in DOMAIN all : j \notin DOMAIN queued =>
                    (all[i].user = all[j].user => i = j)
    <3>1. /\ i - Len(queued) \in 1 .. n /\ i \in Nat
          /\ all[i] = [by |-> r, user |-> s[i - Len(queued)]]
      BY <2>4, <2>8, <2>9
    <3>2. ASSUME NEW j \in DOMAIN all, j \notin DOMAIN queued, all[i].user = all[j].user
          PROVE  i = j
      <4>1. /\ j - Len(queued) \in 1 .. n /\ j \in Nat
            /\ all[j] = [by |-> r, user |-> s[j - Len(queued)]]
        BY <2>4, <2>8, <3>2
      <4>2. s[i - Len(queued)] = s[j - Len(queued)]
        BY <3>1, <3>2, <4>1
      <4>3. i - Len(queued) = j - Len(queued)
        BY <2>3, <3>1, <4>1, <4>2
      <4>4. QED
        BY <2>8, <3>1, <4>1, <4>3
    <3>3. QED
      BY <2>3, <3>1, <3>2
  <2>10. QED
    BY <1>3, <2>1, <2>6, <2>8, <2>9
<1>4. QED
  BY <1>2, <1>3, HandleWrites

-----------------------------------------------------------------------------
(* Whom a price change tells.                                              *)

SettingsOf(u) == {q \in Req : Op(q) = "settings" /\ User(q) = u}

SwitchedOn(u) == \E q \in SettingsOf(u) : plan[q].on

\* What u had done before r arrived does not forbid r to tell u ...
MayTell(r, u) ==
  /\ \A q \in past[r] : Op(q) = "withdraw" /\ Done(q) => User(q) # u
  /\ \A q \in past[r] : q \in SettingsOf(u) /\ Done(q) /\ ~plan[q].on => SwitchedOn(u)

\* ... and what u has done since does not excuse r from it.
MustTell(r, u) ==
  /\ u # User(r) /\ db.users[u].live /\ db.users[u].priceOn
  /\ SettingsOf(u) \subseteq past[r]
  /\ \E i \in FindLike(db, Post(r), u) : db.likes[i].by \in past[r] \cup {0}

Told(r, u) == \E i \in DOMAIN db.notifications :
                db.notifications[i].by = r /\ db.notifications[i].user = u

Pushed(r, u) == \E i \in DOMAIN queued : queued[i].by = r /\ queued[i].user = u

\* A price change at the step s that carries v has told whom it may and must.
FanOk(r, s, v) ==
  /\ s \in {"edit", "notify"} => \A u \in UserIds :
       /\ u \in v.interested.enabled => MayTell(r, u)
       /\ MustTell(r, u) => u \in v.interested.enabled /\ u \in v.interested.likers
  /\ s \in {"push", "commit"} => \A u \in UserIds :
       /\ u \in v.targets => u # User(r) /\ MayTell(r, u)
       /\ MustTell(r, u) => u \in v.targets
       /\ Pushed(r, u) => u \in v.targets
  /\ s = "push" =>
       /\ \A k \in DOMAIN v.unsent : v.unsent[k] \in v.targets /\ ~Pushed(r, v.unsent[k])
       /\ \A j, k \in DOMAIN v.unsent : v.unsent[j] = v.unsent[k] => j = k
  /\ s = "done" => \A u \in UserIds :
       /\ Told(r, u) => u # User(r) /\ MayTell(r, u)
       /\ v.notified /\ MustTell(r, u) => Told(r, u)
       /\ Pushed(r, u) => Told(r, u)
  /\ s \notin {"push", "commit", "done", "failed"} => \A u \in UserIds : ~Pushed(r, u)
  /\ s # "done" => \A u \in UserIds : ~Told(r, u)

\* Whoever has switched the setting off, and never on, has it off.
SettingInv ==
  \A q \in Req :
    /\ Op(q) = "settings" /\ ~plan[q].on /\ ~SwitchedOn(User(q))
    /\ Done(q) \/ (pc[q] = "settings" /\ got[q] = FALSE)
    => ~db.users[User(q)].priceOn

\* One push and one notification of a price change for a user at most.
OnceInv ==
  /\ \A i, j \in DOMAIN queued :
       /\ queued[i].by \in Req /\ Op(queued[i].by) = "edit"
       /\ queued[i].by = queued[j].by /\ queued[i].user = queued[j].user
       => i = j
  /\ \A i, j \in DOMAIN db.notifications :
       /\ db.notifications[i].by \in Req /\ Op(db.notifications[i].by) = "edit"
       /\ db.notifications[i].by = db.notifications[j].by
       /\ db.notifications[i].user = db.notifications[j].user
       => i = j

FanoutInv ==
  /\ SettingInv /\ OnceInv
  /\ \A r \in Req : \A s \in {pc[r]}, v \in {got[r]} : Op(r) = "edit" => FanOk(r, s, v)

-----------------------------------------------------------------------------

LEMMA FanoutStart ==
  ASSUME Init
  PROVE  FanoutInv
<1>1. /\ db = StartDb /\ queued = << >>
      /\ \A r \in Req : pc[r] = "idle" /\ plan \in Plans
  BY DEF Init, RequestsInit
<1>2. ASSUME NEW i \in DOMAIN db.notifications PROVE db.notifications[i].by = 0
  <2>1. PICK Row : Row = NotificationRow(UserIds, PostIds, {0})
    OBVIOUS
  <2>2. StartDb \in Tables(DOMAIN StartDb.users, DOMAIN StartDb.posts,
                           DOMAIN StartDb.conversations, {0})
    BY StartAssumption
  <2>3. db.notifications \in Seq(Row)
    BY <1>1, <2>1, <2>2, TableTypes DEF UserIds, PostIds
  <2>4. db.notifications[i] \in Row
    BY <2>3
  <2>5. QED
    BY <2>1, <2>4 DEF NotificationRow
<1>3. 0 \notin Req
  <2>1. plan \in Plans
    BY DEF Init, RequestsInit
  <2>2. QED
    BY <2>1, RequestNumbers
<1>4. SettingInv
  BY <1>1 DEF SettingInv, Done
<1>5. OnceInv
  BY <1>1, <1>2, <1>3 DEF OnceInv
<1>6. ASSUME NEW r \in Req PROVE FanOk(r, "idle", got[r])
  BY <1>1, <1>2, <1>3, <1>6 DEF FanOk, Told, Pushed
<1>7. QED
  BY <1>1, <1>4, <1>5, <1>6 DEF FanoutInv

\* What a price change may and must do stays while it is at the same step ...
LEMMA FanStays ==
  ASSUME NEW r \in Req, r \in Req', NEW s, NEW v, FanOk(r, s, v),
         UserIds' = UserIds,
         s \in {"edit", "notify", "push", "commit", "done"} =>
           \A u \in UserIds : /\ MayTell(r, u) => MayTell(r, u)'
                              /\ MustTell(r, u)' => MustTell(r, u),
         \A u \in UserIds : /\ Told(r, u)' <=> Told(r, u)
                            /\ Pushed(r, u)' <=> Pushed(r, u),
         User(r)' = User(r),
         s = "push" => v.unsent \in Seq(UserIds)
  PROVE  FanOk(r, s, v)'
<1>1. \A k \in DOMAIN v.unsent : s = "push" => v.unsent[k] \in UserIds
  OBVIOUS
<1>2. s \in {"edit", "notify"} => \A u \in UserIds :
       /\ u \in v.interested.enabled => MayTell(r, u)'
       /\ MustTell(r, u)' => u \in v.interested.enabled /\ u \in v.interested.likers
  BY DEF FanOk
<1>3. s \in {"push", "commit"} => \A u \in UserIds :
       /\ u \in v.targets => u # User(r) /\ MayTell(r, u)'
       /\ MustTell(r, u)' => u \in v.targets
       /\ Pushed(r, u)' => u \in v.targets
  BY DEF FanOk
<1>4. s = "push" =>
       /\ \A k \in DOMAIN v.unsent : v.unsent[k] \in v.targets /\ ~Pushed(r, v.unsent[k])'
       /\ \A j, k \in DOMAIN v.unsent : v.unsent[j] = v.unsent[k] => j = k
  BY <1>1 DEF FanOk
<1>5. s = "done" => \A u \in UserIds :
       /\ Told(r, u)' => u # User(r) /\ MayTell(r, u)'
       /\ v.notified /\ MustTell(r, u)' => Told(r, u)'
       /\ Pushed(r, u)' => Told(r, u)'
  BY DEF FanOk
<1>6. /\ s \notin {"push", "commit", "done", "failed"} => \A u \in UserIds : ~Pushed(r, u)'
      /\ s # "done" => \A u \in UserIds : ~Told(r, u)'
  BY DEF FanOk
<1>7. QED
  BY <1>2, <1>3, <1>4, <1>5, <1>6 DEF FanOk

\* ... whoever makes a step.
LEMMA MustStays ==
  ASSUME DataInv, NEW h \in Req, Handle(h), NEW r \in Req, pc[r] # "idle",
         NEW u \in UserIds
  PROVE  /\ MayTell(r, u) => MayTell(r, u)'
         /\ MustTell(r, u)' => MustTell(r, u)
<1>1. /\ RequestInv /\ Moves(h) /\ Req' = Req /\ plan' = plan /\ ~Ended(h)
      /\ past'[r] = past[r]
  BY HandleMoves, PastStays DEF DataInv
<1>2. /\ \A q \in Req : Op(q)' = Op(q) /\ User(q)' = User(q)
      /\ Post(r)' = Post(r) /\ SettingsOf(u)' = SettingsOf(u)
      /\ SwitchedOn(u)' = SwitchedOn(u)
  BY <1>1 DEF Op, User, Post, SettingsOf, SwitchedOn
<1>3. \A q \in past[r] : q \in Req /\ Ended(q) /\ q # h /\ (Done(q)' => Done(q))
  BY <1>1, EndedStays DEF RequestInv, Done
<1>4. MayTell(r, u) => MayTell(r, u)'
  BY <1>1, <1>2, <1>3 DEF MayTell
<1>5. ASSUME MustTell(r, u)' PROVE MustTell(r, u)
  <2>1. u # User(r) /\ db'.users[u].live /\ db'.users[u].priceOn
    BY <1>2, <1>5 DEF MustTell
  <2>2. SettingsOf(u) \subseteq past[r]
    BY <1>1, <1>2, <1>5 DEF MustTell
  <2>3. PICK i \in FindLike(db', Post(r), u) : db'.likes[i].by \in past[r] \cup {0}
    BY <1>1, <1>2, <1>5 DEF MustTell
  <2>4. h \notin SettingsOf(u)
    BY <1>3, <2>2
  <2>5. db.users[u].live /\ db.users[u].priceOn
    <3>1. db.users[u].live
      BY <2>1, UsersKept
    <3>2. UpdateSettings(h) => Op(h) = "settings"
      BY DEF DataInv, StageInv, StageOps, UpdateSettings
    <3>3. QED
      BY <2>1, <2>4, <3>1, <3>2, UsersKept DEF SettingsOf
  <2>6. i \in FindLike(db, Post(r), u) /\ db'.likes[i].by = db.likes[i].by
    <3>1. 0 # h
      BY RequestNumbers DEF DataInv, StoreInv
    <3>2. db'.likes[i].by # h
      BY <1>3, <2>3, <3>1
    <3>3. QED
      BY <3>2, FoundLikes
  <2>7. \E k \in FindLike(db, Post(r), u) : db.likes[k].by \in past[r] \cup {0}
    BY <2>3, <2>6
  <2>8. QED
    BY <2>1, <2>2, <2>5, <2>7 DEF MustTell
<1>6. QED
  BY <1>4, <1>5

LEMMA FanoutStill ==
  ASSUME DataInv, FanoutInv, Still
  PROVE  FanoutInv'
<1>1. /\ Req' = Req /\ plan' = plan /\ db' = db /\ queued' = queued /\ past' = past
      /\ \A q \in Req : /\ Op(q)' = Op(q) /\ User(q)' = User(q) /\ Post(q)' = Post(q)
                        /\ Done(q)' => Done(q)
      /\ UserIds' = UserIds
  BY DEF Still, Op, User, Post, Done, UserIds
<1>2. \A u : SettingsOf(u)' = SettingsOf(u) /\ SwitchedOn(u)' = SwitchedOn(u)
  BY <1>1 DEF SettingsOf, SwitchedOn
<1>3. SettingInv'
  <2>1. ASSUME NEW q \in Req, Op(q) = "settings", ~plan[q].on, ~SwitchedOn(User(q)),
               Done(q)' \/ (pc'[q] = "settings" /\ got'[q] = FALSE)
        PROVE  ~db.users[User(q)].priceOn
    <3>1. Done(q) \/ (pc[q] = "settings" /\ got[q] = FALSE)
      BY <2>1 DEF Still, Done
    <3>2. QED
      BY <2>1, <3>1 DEF FanoutInv, SettingInv
  <2>2. QED
    BY <1>1, <1>2, <2>1 DEF SettingInv
<1>4. OnceInv'
  BY <1>1 DEF FanoutInv, OnceInv, Op
<1>5. ASSUME NEW r \in Req, Op(r) = "edit", NEW s, s = pc'[r], NEW v, v = got'[r]
      PROVE  FanOk(r, s, v)'
  <2>1. \A u : /\ MayTell(r, u) => MayTell(r, u)'
               /\ MustTell(r, u)' => MustTell(r, u)
               /\ Told(r, u)' <=> Told(r, u)
               /\ Pushed(r, u)' <=> Pushed(r, u)
    <3>1. past[r] \subseteq Req
      BY DEF DataInv, RequestInv
    <3>2. ASSUME NEW u PROVE MayTell(r, u) => MayTell(r, u)'
      BY <1>1, <1>2, <3>1 DEF MayTell
    <3>3. ASSUME NEW u PROVE MustTell(r, u)' => MustTell(r, u)
      BY <1>1, <1>2 DEF MustTell
    <3>4. ASSUME NEW u PROVE /\ Told(r, u)' <=> Told(r, u)
                             /\ Pushed(r, u)' <=> Pushed(r, u)
      BY <1>1 DEF Told, Pushed
    <3>5. QED
      BY <3>2, <3>3, <3>4
  <2>2. CASE pc[r] = s /\ got[r] = v
    <3>1. FanOk(r, s, v)
      BY <1>5, <2>2 DEF FanoutInv
    <3>2. s = "push" => v.unsent \in Seq(UserIds)
      BY <2>2 DEF DataInv, GotInv, GotOk
    <3>3. User(r)' = User(r) /\ r \in Req'
      BY <1>1
    <3>4. QED
      BY <1>1, <2>1, <3>1, <3>2, <3>3, FanStays
  <2>3. CASE s = "failed" /\ Running(r)
    <3>1. \A u \in UserIds : ~Told(r, u)
      BY <1>5, <2>3 DEF FanoutInv, FanOk, Running, Ends
    <3>2. \A u \in UserIds' : ~Told(r, u)'
      BY <1>1, <2>1, <3>1
    <3>3. QED
      BY <2>3, <3>2 DEF FanOk
  <2>4. QED
    BY <1>5, <2>2, <2>3 DEF Still
<1>6. QED
  BY <1>1, <1>3, <1>4, <1>5 DEF FanoutInv

LEMMA SettingHandle ==
  ASSUME DataInv, SettingInv, NEW r \in Req, Handle(r)
  PROVE  SettingInv'
<1>1. /\ RequestInv /\ StageInv /\ StoreInv /\ Moves(r) /\ ~Ended(r)
      /\ Req' = Req /\ plan' = plan
  BY HandleMoves DEF DataInv
<1>2. \A q \in Req : /\ Op(q)' = Op(q) /\ User(q)' = User(q)
                     /\ SwitchedOn(User(q))' = SwitchedOn(User(q))
  BY <1>1 DEF Op, User, SettingsOf, SwitchedOn
<1>3. ASSUME NEW q \in Req, Op(q) = "settings", ~plan[q].on, ~SwitchedOn(User(q)),
             Done(q)' \/ (pc'[q] = "settings" /\ got'[q] = FALSE)
      PROVE  ~db'.users[User(q)].priceOn
  <2>1. User(q) \in UserIds
    BY <1>1, <1>3, RequestTypes DEF StoreInv, UserIdsAtStart
  <2>2. ASSUME ~db.users[User(q)].priceOn PROVE ~db'.users[User(q)].priceOn
    <3>1. UpdateSettings(r) => Op(r) = "settings"
      BY <1>1 DEF StageInv, StageOps, UpdateSettings
    <3>2. UpdateSettings(r) /\ User(r) = User(q) => ~plan[r].on
      BY <1>3, <3>1 DEF SwitchedOn, SettingsOf
    <3>3. QED
      BY <2>1, <2>2, <3>2, UsersKept
  <2>3. CASE Done(q) \/ (pc[q] = "settings" /\ got[q] = FALSE)
    BY <1>3, <2>2, <2>3 DEF SettingInv
  <2>4. CASE q # r
    <3>1. pc'[q] = pc[q] /\ got'[q] = got[q]
      BY <1>1, <2>4, OthersStay
    <3>2. QED
      BY <1>3, <2>3, <3>1 DEF Done
  <2>5. CASE q = r /\ ReadSettings(r)
    <3>1. PICK on : on = db.users[User(r)].priceOn
      OBVIOUS
    <3>2. Step(r, "idle", "settings", on) /\ db' = db
      BY <1>3, <2>1, <2>5, <3>1 DEF ReadSettings, OnlyReads, NoWrite
    <3>3. pc'[r] = "settings" /\ got'[r] = on
      BY <1>1, <3>2, StepMoves DEF Ends
    <3>4. on = FALSE
      BY <1>3, <2>5, <3>3 DEF Done
    <3>5. QED
      BY <2>5, <3>1, <3>2, <3>4
  <2>6. CASE q = r /\ UpdateSettings(r)
    <3>1. PICK rows, row : rows = db.users /\ row = db.users[User(r)]
      OBVIOUS
    <3>2. pc[r] = "settings"
      BY <2>6 DEF UpdateSettings
    <3>3. plan[r].on = FALSE
      BY <1>1, <1>3, <2>6, RequestTypes DEF StoreInv
    <3>4. CASE got[r] = FALSE
      BY <2>3, <2>6, <3>2, <3>4
    <3>5. CASE got[r] # FALSE
      <4>1. db'.users = Write(rows, {User(r)}, "priceOn", FALSE)
        BY <1>1, <2>6, <3>1, <3>3, <3>5, SettingsEffect
      <4>2. User(r) \in DOMAIN rows /\ row \in UserRow
        BY <2>1, <2>6, <3>1, RowTypes DEF UserIds
      <4>3. db'.users[User(r)] = [row EXCEPT !["priceOn"] = FALSE]
        BY <3>1, <4>1, <4>2 DEF Write
      <4>4. QED
        BY <2>6, <4>2, <4>3 DEF UserRow
    <3>6. QED
      BY <3>4, <3>5
  <2>7. QED
    BY <1>3, <2>4, <2>5, <2>6, HandlerOps
<1>4. QED
  BY <1>1, <1>2, <1>3 DEF SettingInv

LEMMA OnceHandle ==
  ASSUME DataInv, FanoutInv, NEW r \in Req, Handle(r)
  PROVE  OnceInv'
<1>1. Req' = Req /\ plan' = plan /\ RequestInv /\ StageInv /\ StoreInv
  BY HandleMoves DEF DataInv
<1>2. \A q \in Req : Op(q)' = Op(q)
  BY <1>1 DEF Op
<1>3. PICK sent, rows : sent = queued' /\ rows = db'.notifications
  OBVIOUS
<1>4. /\ \A i \in DOMAIN queued : queued[i].user \in UserIds
      /\ \A i \in DOMAIN db.notifications : db.notifications[i].user \in UserIds
  <2>1. \A i \in DOMAIN queued : queued[i].user \in UserIds
    <3>1. PICK Row : Row = [by: Req, user: UserIds]
      OBVIOUS
    <3>2. queued \in Seq(Row)
      BY <1>1, <3>1 DEF StoreInv
    <3>3. \A i \in DOMAIN queued : queued[i] \in Row
      BY <3>2
    <3>4. QED
      BY <3>1, <3>3
  <2>2. ASSUME NEW i \in DOMAIN db.notifications
        PROVE  db.notifications[i].user \in UserIds
    <3>1. PICK row : row = db.notifications[i]
      OBVIOUS
    <3>2. row \in NotificationRow(UserIds, PostIds, Writers)
      BY <3>1, RowTypes
    <3>3. QED
      BY <3>1, <3>2 DEF NotificationRow
  <2>3. QED
    BY <2>1, <2>2
<1>5. ASSUME NEW i \in DOMAIN sent, NEW j \in DOMAIN sent,
             sent[i].by \in Req, Op(sent[i].by) = "edit",
             sent[i].by = sent[j].by, sent[i].user = sent[j].user
      PROVE  i = j
  <2>1. ASSUME NEW a \in DOMAIN sent, NEW b \in DOMAIN sent,
               a \in DOMAIN queued, b \notin DOMAIN queued,
               sent[a].by = sent[b].by, sent[a].user = sent[b].user,
               Op(sent[a].by) = "edit"
        PROVE  FALSE
    <3>1. /\ sent[a] = queued[a] /\ sent[b].by = r
          /\ SendMessageBatch(r) \/ SendPushMessages(r)
      BY <1>3, <2>1, QueueKept
    <3>2. Pushed(r, sent[b].user)
      BY <2>1, <3>1 DEF Pushed
    <3>3. SendMessageBatch(r)
      <4>1. SendPushMessages(r) => Op(r) = "send"
        BY <1>1 DEF StageInv, StageOps, SendPushMessages, Step
      <4>2. QED
        BY <2>1, <3>1, <4>1
    <3>4. pc[r] = "push"
      BY <3>3 DEF SendMessageBatch
    <3>5. PICK unsent, batch : /\ unsent = got[r].unsent
                               /\ batch = Window(unsent, 0, BatchSize)
      OBVIOUS
    <3>6. unsent \in Seq(UserIds)
      BY <1>1, <3>4, <3>5 DEF DataInv, GotInv, GotOk
    <3>7. sent[b].user \in ToSet(batch)
      BY <1>3, <2>1, <3>4, <3>5, QueueKept
    <3>8. PICK k \in DOMAIN batch : batch[k] = sent[b].user
      BY <3>7 DEF ToSet
    <3>9. k \in DOMAIN unsent /\ unsent[k] = batch[k]
      <4>1. BatchSize \in Nat
        BY MarketAssumption
      <4>2. /\ batch \in Seq(UserIds)
            /\ Len(batch) = IF BatchSize <= Len(unsent) THEN BatchSize ELSE Len(unsent)
            /\ \A n \in 1 .. Len(batch) : batch[n] = unsent[n]
        BY <3>5, <3>6, <4>1, WindowRows
      <4>3. QED
        BY <3>6, <4>1, <4>2
    <3>10. FanOk(r, pc[r], got[r])
      BY <2>1, <3>1 DEF FanoutInv
    <3>11. ~Pushed(r, unsent[k])
      BY <3>4, <3>5, <3>9, <3>10 DEF FanOk
    <3>12. QED
      BY <3>2, <3>8, <3>9, <3>11
  <2>2. CASE i \in DOMAIN queued /\ j \in DOMAIN queued
    BY <1>3, <1>5, <2>2, QueueKept DEF FanoutInv, OnceInv
  <2>3. CASE i \notin DOMAIN queued /\ j \notin DOMAIN queued
    BY <1>3, <1>5, <2>3, QueueKept
  <2>4. QED
    BY <1>5, <2>1, <2>2, <2>3
<1>6. ASSUME NEW i \in DOMAIN rows, NEW j \in DOMAIN rows,
             rows[i].by \in Req, Op(rows[i].by) = "edit",
             rows[i].by = rows[j].by, rows[i].user = rows[j].user
      PROVE  i = j
  <2>1. ASSUME NEW a \in DOMAIN rows, NEW b \in DOMAIN rows,
               a \in DOMAIN db.notifications, b \notin DOMAIN db.notifications,
               rows[a].by = rows[b].by, rows[a].user = rows[b].user,
               Op(rows[a].by) = "edit"
        PROVE  FALSE
    <3>1. /\ rows[a].by = db.notifications[a].by
          /\ rows[a].user = db.notifications[a].user
          /\ CommitEdit(r) /\ rows[b].by = r
      BY <1>3, <2>1, NotificationsKept
    <3>2. Told(r, rows[a].user) /\ rows[a].user \in UserIds
      BY <1>4, <2>1, <3>1 DEF Told
    <3>3. pc[r] = "commit" /\ FanOk(r, pc[r], got[r])
      BY <2>1, <3>1 DEF CommitEdit, FanoutInv
    <3>4. QED
      BY <3>2, <3>3 DEF FanOk
  <2>2. CASE i \in DOMAIN db.notifications /\ j \in DOMAIN db.notifications
    BY <1>3, <1>6, <2>2, NotificationsKept DEF FanoutInv, OnceInv
  <2>3. CASE i \notin DOMAIN db.notifications /\ j \notin DOMAIN db.notifications
    BY <1>3, <1>6, <2>3, NotificationsKept
  <2>4. QED
    BY <1>6, <2>1, <2>2, <2>3
<1>7. QED
  BY <1>1, <1>2, <1>3, <1>5, <1>6 DEF OnceInv

\* Only r tells and pushes for r, and only at the end and in its batches.
LEMMA TellsOwn ==
  ASSUME DataInv, NEW h \in Req, Handle(h), NEW r \in Req, NEW u
  PROVE  /\ Told(r, u) => Told(r, u)'
         /\ Told(r, u)' => Told(r, u) \/ (CommitEdit(r) /\ u \in got[r].targets)
         /\ CommitEdit(r) /\ u \in got[r].targets => Told(r, u)' \/ h # r
         /\ Pushed(r, u) => Pushed(r, u)'
         /\ Pushed(r, u)' =>
              \/ Pushed(r, u)
              \/ /\ h = r /\ (SendMessageBatch(r) \/ SendPushMessages(r))
                 /\ pc[r] = "push" => u \in ToSet(Window(got[r].unsent, 0, BatchSize))
                 /\ pc[r] # "push" => u \in got[r].push
<1>1. PICK rows, sent : rows = db'.notifications /\ sent = queued'
  OBVIOUS
<1>2. /\ Told(r, u)' <=> \E i \in DOMAIN rows : rows[i].by = r /\ rows[i].user = u
      /\ Pushed(r, u)' <=> \E i \in DOMAIN sent : sent[i].by = r /\ sent[i].user = u
  BY <1>1 DEF Told, Pushed
<1>3. Told(r, u) => Told(r, u)'
  BY <1>1, <1>2, NotificationsKept DEF Told
<1>4. ASSUME Told(r, u)', ~Told(r, u)
      PROVE  CommitEdit(r) /\ u \in got[r].targets
  <2>1. PICK i \in DOMAIN rows : rows[i].by = r /\ rows[i].user = u
    BY <1>2, <1>4
  <2>2. i \notin DOMAIN db.notifications
    BY <1>1, <1>4, <2>1, NotificationsKept DEF Told
  <2>3. QED
    BY <1>1, <2>1, <2>2, NotificationsKept
<1>5. ASSUME CommitEdit(r), u \in got[r].targets, h = r
      PROVE  Told(r, u)'
  BY <1>1, <1>2, <1>5, NotificationsKept
<1>6. Pushed(r, u) => Pushed(r, u)'
  BY <1>1, <1>2, QueueKept DEF Pushed
<1>7. ASSUME Pushed(r, u)', ~Pushed(r, u)
      PROVE  /\ h = r /\ (SendMessageBatch(r) \/ SendPushMessages(r))
             /\ pc[r] = "push" => u \in ToSet(Window(got[r].unsent, 0, BatchSize))
             /\ pc[r] # "push" => u \in got[r].push
  <2>1. PICK i \in DOMAIN sent : sent[i].by = r /\ sent[i].user = u
    BY <1>2, <1>7
  <2>2. i \notin DOMAIN queued
    BY <1>1, <1>7, <2>1, QueueKept DEF Pushed
  <2>3. QED
    BY <1>1, <2>1, <2>2, QueueKept
<1>8. QED
  BY <1>3, <1>4, <1>5, <1>6, <1>7

\* Whom the rows that ReadPost finds forbid and oblige it to tell.
LEMMA ReadPostTells ==
  ASSUME DataInv, GoneInv, SettingInv, NEW r \in Req, Handle(r), ReadPost(r),
         pc'[r] = "edit", NEW u \in UserIds
  PROVE  /\ u \in Interested(db, Post(r)).enabled => MayTell(r, u)'
         /\ MustTell(r, u)' => /\ u \in Interested(db, Post(r)).enabled
                               /\ u \in Interested(db, Post(r)).likers
<1>1. /\ RequestInv /\ Moves(r) /\ Req' = Req /\ plan' = plan /\ ~Ended(r)
      /\ db' = db /\ pc[r] = "idle"
  BY HandleMoves DEF DataInv, ReadPost, OnlyReads, NoWrite, Step, Refuse
<1>2. /\ \A q \in Req : Op(q)' = Op(q) /\ User(q)' = User(q)
      /\ Post(r)' = Post(r) /\ SettingsOf(u)' = SettingsOf(u)
      /\ SwitchedOn(u)' = SwitchedOn(u)
  BY <1>1 DEF Op, User, Post, SettingsOf, SwitchedOn
<1>3. past'[r] = {q \in Req : Ended(q)}
  BY <1>1 DEF Moves, RequestInv
<1>4. \A q \in past'[r] : q \in Req /\ (Done(q)' => Done(q))
  BY <1>1, <1>3, EndedStays DEF Done
<1>5. /\ u \in Interested(db, Post(r)).enabled <=> db.users[u].live /\ db.users[u].priceOn
      /\ \A i \in FindLikes(db, Post(r)) :
           db.likes[i].user \in Interested(db, Post(r)).likers
  BY DEF Interested, LiveRows, UserIds
<1>6. ASSUME u \in Interested(db, Post(r)).enabled PROVE MayTell(r, u)'
  <2>1. FindById(db, u) /\ db.users[u].priceOn
    BY <1>5, <1>6 DEF FindById, LiveRows, UserIds
  <2>2. \A q \in past'[r] : Op(q) = "withdraw" /\ Done(q)' => User(q) # u
    BY <1>4, <2>1 DEF GoneInv
  <2>3. \A q \in past'[r] : q \in SettingsOf(u) /\ Done(q)' /\ ~plan[q].on => SwitchedOn(u)
    BY <1>4, <2>1 DEF SettingInv, SettingsOf
  <2>4. QED
    BY <1>1, <1>2, <1>4, <2>2, <2>3 DEF MayTell
<1>7. ASSUME MustTell(r, u)'
      PROVE  /\ u \in Interested(db, Post(r)).enabled
             /\ u \in Interested(db, Post(r)).likers
  <2>1. /\ db.users[u].live /\ db.users[u].priceOn
        /\ \E i \in FindLike(db, Post(r), u) : TRUE
    BY <1>1, <1>2, <1>7 DEF MustTell
  <2>2. PICK i \in FindLikes(db, Post(r)) : db.likes[i].user = u
    BY <2>1 DEF FindLike
  <2>3. QED
    BY <1>5, <2>1, <2>2
<1>8. QED
  BY <1>6, <1>7

LEMMA FanReadPost ==
  ASSUME DataInv, GoneInv, SettingInv, NEW r \in Req, Handle(r), ReadPost(r),
         \A s \in {pc[r]}, v \in {got[r]} : FanOk(r, s, v),
         NEW s, s = pc'[r], NEW v, v = got'[r]
  PROVE  FanOk(r, s, v)'
<1>1. /\ RequestInv /\ Moves(r) /\ pc[r] = "idle"
      /\ UserIds' = UserIds
  BY HandleMoves, UsersKept DEF DataInv, ReadPost, Step, Refuse
<1>2. \A u \in UserIds : ~Told(r, u) /\ ~Pushed(r, u)
  BY <1>1 DEF FanOk
<1>3. ~CommitEdit(r) /\ ~SendMessageBatch(r) /\ ~SendPushMessages(r)
  BY <1>1 DEF CommitEdit, SendMessageBatch, SendPushMessages, Step
<1>4. \A u \in UserIds' : ~Told(r, u)' /\ ~Pushed(r, u)'
  BY <1>1, <1>2, <1>3, TellsOwn
<1>5. CASE s = "edit"
  <2>1. PICK interested, price, hidden :
          /\ interested = Interested(db, Post(r))
          /\ price = db.posts[Post(r)].price /\ hidden = db.posts[Post(r)].hidden
    OBVIOUS
  <2>2. v = [price |-> price, hidden |-> hidden, interested |-> interested]
    <3>1. PICK w : w = [price |-> price, hidden |-> hidden, interested |-> interested]
      OBVIOUS
    <3>2. Step(r, "idle", "edit", w) \/ Step(r, "idle", "refused", None)
      BY <2>1, <3>1 DEF ReadPost, Refuse
    <3>3. ASSUME Step(r, "idle", "refused", None) PROVE FALSE
      <4>1. pc'[r] = "refused"
        BY <1>1, <3>3, StepMoves DEF Ends
      <4>2. QED
        BY <1>5, <4>1
    <3>4. QED
      BY <1>1, <3>1, <3>2, <3>3, StepMoves DEF Ends
  <2>3. v.interested = interested
    BY <2>2
  <2>4. \A u \in UserIds' :
          /\ u \in v.interested.enabled => MayTell(r, u)'
          /\ MustTell(r, u)' => u \in v.interested.enabled /\ u \in v.interested.likers
    BY <1>1, <1>5, <2>1, <2>3, ReadPostTells
  <2>5. QED
    BY <1>4, <1>5, <2>4 DEF FanOk
<1>6. CASE s = "refused"
  BY <1>4, <1>6 DEF FanOk
<1>7. s \in {"edit", "refused"}
  <2>1. PICK w : Step(r, "idle", "edit", w) \/ Step(r, "idle", "refused", w)
    BY DEF ReadPost, Refuse
  <2>2. QED
    BY <1>1, <2>1, StepMoves DEF Ends
<1>8. QED
  BY <1>5, <1>6, <1>7

\* The steps after ReadPost keep what it found.
LEMMA FanFlush ==
  ASSUME DataInv, NEW r \in Req, Handle(r), FlushEdit(r),
         \A s \in {pc[r]}, v \in {got[r]} : FanOk(r, s, v),
         NEW s, s = pc'[r], NEW v, v = got'[r]
  PROVE  FanOk(r, s, v)'
<1>1. /\ RequestInv /\ Moves(r) /\ pc[r] = "edit" /\ UserIds' = UserIds
  BY HandleMoves, UsersKept DEF DataInv, FlushEdit
<1>2. \A u \in UserIds : ~Told(r, u) /\ ~Pushed(r, u)
  BY <1>1 DEF FanOk
<1>3. ~CommitEdit(r) /\ ~SendMessageBatch(r) /\ ~SendPushMessages(r)
  BY <1>1 DEF CommitEdit, SendMessageBatch, SendPushMessages, Step
<1>4. \A u \in UserIds' : ~Told(r, u)' /\ ~Pushed(r, u)'
  BY <1>1, <1>2, <1>3, TellsOwn
<1>5. \/ s = "notify" /\ v = got[r]
      \/ s = "done" /\ v = [notified |-> FALSE]
  <2>1. PICK w : w = [notified |-> FALSE]
    OBVIOUS
  <2>2. Step(r, "edit", "notify", got[r]) \/ Step(r, "edit", "done", w)
    BY <2>1 DEF FlushEdit
  <2>3. QED
    BY <1>1, <2>1, <2>2, StepMoves DEF Ends
<1>6. CASE s = "notify" /\ v = got[r]
  <2>1. \A u \in UserIds : /\ u \in v.interested.enabled => MayTell(r, u)
                           /\ MustTell(r, u) => /\ u \in v.interested.enabled
                                                /\ u \in v.interested.likers
    BY <1>1, <1>6 DEF FanOk
  <2>2. \A u \in UserIds' : /\ u \in v.interested.enabled => MayTell(r, u)'
                            /\ MustTell(r, u)' => /\ u \in v.interested.enabled
                                                  /\ u \in v.interested.likers
    BY <1>1, <2>1, MustStays
  <2>3. QED
    BY <1>4, <1>6, <2>2 DEF FanOk
<1>7. CASE s = "done" /\ v = [notified |-> FALSE]
  <2>1. ~v.notified
    BY <1>7
  <2>2. QED
    BY <1>4, <1>7, <2>1 DEF FanOk
<1>8. QED
  BY <1>5, <1>6, <1>7

LEMMA FanNotify ==
  ASSUME DataInv, NEW r \in Req, Handle(r), NotifyProductPostUpdate(r),
         \A s \in {pc[r]}, v \in {got[r]} : FanOk(r, s, v),
         NEW s, s = pc'[r], NEW v, v = got'[r]
  PROVE  FanOk(r, s, v)'
<1>1. /\ RequestInv /\ StoreInv /\ Moves(r) /\ pc[r] = "notify" /\ UserIds' = UserIds
      /\ plan' = plan
  BY HandleMoves, UsersKept DEF DataInv, NotifyProductPostUpdate
<1>2. \A u \in UserIds : ~Told(r, u) /\ ~Pushed(r, u)
  BY <1>1 DEF FanOk
<1>3. ~CommitEdit(r) /\ ~SendMessageBatch(r) /\ ~SendPushMessages(r)
  BY <1>1 DEF CommitEdit, SendMessageBatch, SendPushMessages, Step
<1>4. \A u \in UserIds' : ~Told(r, u)' /\ ~Pushed(r, u)'
  BY <1>1, <1>2, <1>3, TellsOwn
<1>5. PICK snap : snap = got[r].interested
  OBVIOUS
<1>6. snap \in [likers: SUBSET UserIds, enabled: SUBSET UserIds, phones: SUBSET UserIds]
  BY <1>1, <1>5 DEF DataInv, GotInv, GotOk
<1>7. PICK targets, called, to :
        /\ targets = Targets(r, snap.likers, snap.enabled)
        /\ called = targets \cap snap.phones
        /\ to = IF targets = {} THEN "commit" ELSE "push"
  OBVIOUS
<1>8. PICK unsent : unsent = SetToSeq(called)
  OBVIOUS
<1>9. s = to /\ v = [likers |-> snap.likers, targets |-> targets, unsent |-> unsent]
  <2>1. PICK w : w = [likers |-> snap.likers, targets |-> targets, unsent |-> unsent]
    OBVIOUS
  <2>2. Step(r, "notify", to, w)
    BY <1>5, <1>7, <1>8, <2>1 DEF NotifyProductPostUpdate
  <2>3. QED
    BY <1>1, <1>7, <2>1, <2>2, StepMoves DEF Ends
<1>10. v.targets = targets /\ v.unsent = unsent /\ User(r)' = User(r)
  BY <1>1, <1>9 DEF User
<1>11. \A u \in UserIds : /\ u \in snap.enabled => MayTell(r, u)
                          /\ MustTell(r, u) => u \in snap.enabled /\ u \in snap.likers
  BY <1>1, <1>5 DEF FanOk
<1>12. /\ \A u \in targets : u \in snap.enabled /\ u # User(r)
       /\ \A u \in snap.enabled : u \in snap.likers /\ u # User(r) => u \in targets
  BY <1>7 DEF Targets
<1>13. \A u \in UserIds' : /\ u \in targets => u # User(r) /\ MayTell(r, u)'
                           /\ MustTell(r, u)' => u \in targets
  <2>1. ASSUME NEW u \in UserIds
        PROVE  /\ u \in targets => MayTell(r, u)
               /\ MustTell(r, u) => u \in targets
    BY <1>11, <1>12 DEF MustTell
  <2>2. QED
    BY <1>1, <1>12, <2>1, MustStays
<1>14. /\ \A k \in DOMAIN unsent : unsent[k] \in targets /\ unsent[k] \in UserIds
       /\ \A j, k \in DOMAIN unsent : unsent[j] = unsent[k] => j = k
  <2>1. called \subseteq UserIds /\ called \subseteq targets
    BY <1>6, <1>7
  <2>2. IsFiniteSet(called)
    BY <1>1, <2>1, UsersFinite
  <2>3. PICK n : n = Cardinality(called)
    OBVIOUS
  <2>4. /\ unsent \in [1 .. n -> called]
        /\ \A j, k \in 1 .. n : unsent[j] = unsent[k] => j = k
    BY <1>8, <2>2, <2>3, SetToSeqRange
  <2>5. QED
    BY <2>1, <2>4
<1>15. \A k \in DOMAIN unsent : ~Pushed(r, unsent[k])'
  BY <1>1, <1>4, <1>14
<1>16. QED
  BY <1>4, <1>7, <1>9, <1>10, <1>13, <1>14, <1>15 DEF FanOk

LEMMA FanBatch ==
  ASSUME DataInv, NEW r \in Req, Handle(r), SendMessageBatch(r),
         \A s \in {pc[r]}, v \in {got[r]} : FanOk(r, s, v),
         NEW s, s = pc'[r], NEW v, v = got'[r]
  PROVE  FanOk(r, s, v)'
<1>1. /\ RequestInv /\ StoreInv /\ Moves(r) /\ pc[r] = "push" /\ UserIds' = UserIds
      /\ plan' = plan
  BY HandleMoves, UsersKept DEF DataInv, SendMessageBatch
<1>2. \A u \in UserIds : ~Told(r, u)
  BY <1>1 DEF FanOk
<1>3. ~CommitEdit(r)
  BY <1>1 DEF CommitEdit
<1>4. \A u \in UserIds' : ~Told(r, u)'
  BY <1>1, <1>2, <1>3, TellsOwn
<1>5. PICK page, unsent, batch : /\ page = got[r] /\ unsent = page.unsent
                                 /\ batch = Window(unsent, 0, BatchSize)
  OBVIOUS
<1>6. /\ page \in [likers: SUBSET UserIds, targets: SUBSET UserIds, unsent: Seq(UserIds)]
      /\ unsent \in Seq(UserIds)
  BY <1>1, <1>5 DEF DataInv, GotInv, GotOk
<1>7. PICK rest, to : /\ rest = SubSeq(unsent, Len(batch) + 1, Len(unsent))
                      /\ to = IF rest = << >> THEN "commit" ELSE "push"
  OBVIOUS
<1>8. s = to /\ v = [page EXCEPT !.unsent = rest]
  <2>1. PICK w : w = [page EXCEPT !.unsent = rest]
    OBVIOUS
  <2>2. Step(r, "push", to, w)
    BY <1>5, <1>7, <2>1 DEF SendMessageBatch
  <2>3. QED
    BY <1>1, <1>7, <2>1, <2>2, StepMoves DEF Ends
<1>9. v.targets = page.targets /\ v.unsent = rest /\ User(r)' = User(r)
  BY <1>1, <1>6, <1>8 DEF User
<1>10. /\ batch \in Seq(UserIds) /\ Len(batch) \in Nat /\ Len(batch) <= Len(unsent)
       /\ \A k \in DOMAIN batch : k \in DOMAIN unsent /\ batch[k] = unsent[k]
  <2>1. BatchSize \in Nat
    BY MarketAssumption
  <2>2. /\ batch \in Seq(UserIds)
        /\ Len(batch) = IF BatchSize <= Len(unsent) THEN BatchSize ELSE Len(unsent)
        /\ \A k \in 1 .. Len(batch) : batch[k] = unsent[k]
    BY <1>5, <1>6, <2>1, WindowRows
  <2>3. QED
    BY <1>6, <2>1, <2>2
<1>11. ASSUME NEW k \in DOMAIN rest
       PROVE  /\ k \in Nat /\ Len(batch) + k \in DOMAIN unsent
              /\ Len(batch) + k \notin DOMAIN batch
              /\ rest[k] = unsent[Len(batch) + k]
  <2>1. PICK m, n : m = Len(batch) /\ n = Len(unsent)
    OBVIOUS
  <2>2. m \in Nat /\ n \in Nat /\ m <= n /\ DOMAIN unsent = 1 .. n /\ DOMAIN batch = 1 .. m
    BY <1>6, <1>10, <2>1
  <2>3. PICK f : f = m + 1
    OBVIOUS
  <2>4. /\ f \in Nat /\ n - f + 1 = n - m /\ (f <= n <=> m < n)
        /\ \A i \in 1 .. n - m : f + i - 1 = m + i
    BY <2>2, <2>3
  <2>5. rest = SubSeq(unsent, f, n)
    BY <1>7, <2>1, <2>3
  <2>6. \A i \in f .. n : unsent[i] \in UserIds
    BY <1>6, <2>1, <2>2, <2>3
  <2>7. /\ rest \in Seq(UserIds)
        /\ Len(rest) = IF f <= n THEN n - f + 1 ELSE 0
        /\ \A i \in 1 .. n - f + 1 : rest[i] = unsent[f + i - 1]
    BY <2>2, <2>4, <2>5, <2>6, SubSeqProperties
  <2>8. DOMAIN rest = 1 .. n - m
    BY <2>2, <2>4, <2>7
  <2>9. rest[k] = unsent[m + k]
    BY <1>11, <2>4, <2>7, <2>8
  <2>10. QED
    BY <1>11, <2>1, <2>2, <2>8, <2>9
<1>12. /\ \A u \in UserIds : /\ u \in page.targets => u # User(r) /\ MayTell(r, u)
                             /\ MustTell(r, u) => u \in page.targets
                             /\ Pushed(r, u) => u \in page.targets
       /\ \A k \in DOMAIN unsent : unsent[k] \in page.targets /\ ~Pushed(r, unsent[k])
       /\ \A j, k \in DOMAIN unsent : unsent[j] = unsent[k] => j = k
  BY <1>1, <1>5 DEF FanOk
<1>13. ASSUME NEW u, Pushed(r, u)'
       PROVE  Pushed(r, u) \/ \E k \in DOMAIN batch : batch[k] = u
  <2>1. Pushed(r, u) \/ u \in ToSet(batch)
    BY <1>1, <1>5, <1>13, TellsOwn
  <2>2. QED
    BY <2>1 DEF ToSet
<1>14. \A u \in UserIds' :
         /\ u \in v.targets => u # User(r) /\ MayTell(r, u)'
         /\ MustTell(r, u)' => u \in v.targets
         /\ Pushed(r, u)' => u \in v.targets
  BY <1>1, <1>9, <1>10, <1>12, <1>13, MustStays
<1>15. ASSUME NEW k \in DOMAIN rest
       PROVE  /\ rest[k] \in v.targets /\ ~Pushed(r, rest[k])'
              /\ \A j \in DOMAIN rest : rest[j] = rest[k] => j = k
  <2>1. rest[k] \in v.targets /\ ~Pushed(r, rest[k])
    BY <1>9, <1>11, <1>12
  <2>2. ~\E j \in DOMAIN batch : batch[j] = rest[k]
    BY <1>10, <1>11, <1>12
  <2>3. ASSUME NEW j \in DOMAIN rest, rest[j] = rest[k] PROVE j = k
    <3>1. Len(batch) + j = Len(batch) + k
      BY <1>11, <1>12, <2>3
    <3>2. QED
      BY <1>10, <1>11, <3>1
  <2>4. QED
    BY <1>13, <2>1, <2>2, <2>3
<1>16. QED
  BY <1>4, <1>7, <1>8, <1>9, <1>14, <1>15 DEF FanOk

LEMMA FanCommit ==
  ASSUME DataInv, NEW r \in Req, Handle(r), CommitEdit(r),
         \A s \in {pc[r]}, v \in {got[r]} : FanOk(r, s, v),
         NEW s, s = pc'[r], NEW v, v = got'[r]
  PROVE  FanOk(r, s, v)'
<1>1. /\ RequestInv /\ Moves(r) /\ pc[r] = "commit" /\ UserIds' = UserIds /\ plan' = plan
  BY HandleMoves, UsersKept DEF DataInv, CommitEdit
<1>2. PICK targets : targets = got[r].targets
  OBVIOUS
<1>3. \A u \in UserIds : /\ u \in targets => u # User(r) /\ MayTell(r, u)
                         /\ MustTell(r, u) => u \in targets
                         /\ Pushed(r, u) => u \in targets
                         /\ ~Told(r, u)
  BY <1>1, <1>2 DEF FanOk
<1>4. s = "done" /\ User(r)' = User(r)
  BY <1>1, StepMoves DEF CommitEdit, Ends, User
<1>5. ~SendMessageBatch(r) /\ ~SendPushMessages(r)
  BY <1>1 DEF SendMessageBatch, SendPushMessages, Step
<1>6. \A u \in UserIds : /\ Told(r, u)' <=> u \in targets
                         /\ Pushed(r, u)' => u \in targets
  BY <1>2, <1>3, <1>5, TellsOwn
<1>7. \A u \in UserIds' :
        /\ Told(r, u)' => u # User(r) /\ MayTell(r, u)'
        /\ MustTell(r, u)' => Told(r, u)'
        /\ Pushed(r, u)' => Told(r, u)'
  BY <1>1, <1>3, <1>6, MustStays
<1>8. QED
  BY <1>4, <1>7 DEF FanOk

LEMMA FanoutHandle ==
  ASSUME DataInv, GoneInv, FanoutInv, NEW h \in Req, Handle(h)
  PROVE  FanoutInv'
<1>1. /\ RequestInv /\ Moves(h) /\ Req' = Req /\ plan' = plan /\ UserIds' = UserIds
      /\ ~Ended(h)
  BY HandleMoves, UsersKept DEF DataInv
<1>2. SettingInv /\ OnceInv
  BY DEF FanoutInv
<1>3. SettingInv' /\ OnceInv'
  BY <1>2, SettingHandle, OnceHandle
<1>4. ASSUME NEW r \in Req, Op(r) = "edit", NEW s, s = pc'[r], NEW v, v = got'[r]
      PROVE  FanOk(r, s, v)'
  <2>1. \A t \in {pc[r]}, w \in {got[r]} : FanOk(r, t, w)
    BY <1>4 DEF FanoutInv
  <2>2. CASE h = r
    <3>1. CASE ReadPost(r)
      BY <1>2, <1>4, <2>1, <2>2, <3>1, FanReadPost
    <3>2. CASE FlushEdit(r)
      BY <1>4, <2>1, <2>2, <3>2, FanFlush
    <3>3. CASE NotifyProductPostUpdate(r)
      BY <1>4, <2>1, <2>2, <3>3, FanNotify
    <3>4. CASE SendMessageBatch(r)
      BY <1>4, <2>1, <2>2, <3>4, FanBatch
    <3>5. CASE CommitEdit(r)
      BY <1>4, <2>1, <2>2, <3>5, FanCommit
    <3>6. QED
      BY <1>4, <2>2, <3>1, <3>2, <3>3, <3>4, <3>5, HandlerOps
  <2>3. CASE h # r
    <3>1. pc[r] = s /\ got[r] = v
      BY <1>1, <1>4, <2>3, OthersStay
    <3>2. FanOk(r, s, v)
      BY <2>1, <3>1
    <3>3. s \in {"edit", "notify", "push", "commit", "done"} =>
            \A u \in UserIds : /\ MayTell(r, u) => MayTell(r, u)'
                               /\ MustTell(r, u)' => MustTell(r, u)
      BY <3>1, MustStays
    <3>4. ~(CommitEdit(r) /\ h # r)
      <4>1. ASSUME CommitEdit(r) PROVE h = r
        <5>1. pc[r] = "commit" /\ pc'[r] = "done"
          BY <1>1, <4>1, StepMoves DEF CommitEdit, Ends
        <5>2. QED
          BY <1>4, <3>1, <5>1
      <4>2. QED
        BY <4>1
    <3>5. \A u \in UserIds : /\ Told(r, u)' <=> Told(r, u)
                             /\ Pushed(r, u)' <=> Pushed(r, u)
      BY <2>3, <3>4, TellsOwn
    <3>6. s = "push" => v.unsent \in Seq(UserIds)
      BY <3>1 DEF DataInv, GotInv, GotOk
    <3>7. User(r)' = User(r) /\ r \in Req'
      BY <1>1 DEF User
    <3>8. QED
      BY <1>1, <3>2, <3>3, <3>5, <3>6, <3>7, FanStays
  <2>4. QED
    BY <2>2, <2>3
<1>5. \A r \in Req : Op(r)' = Op(r)
  BY <1>1 DEF Op
<1>6. QED
  BY <1>1, <1>3, <1>4, <1>5 DEF FanoutInv

\* A price change tells nobody who forbade it before it came, everybody who
\* must hear of it, and each once, at every step on the way to its commit.
THEOREM FanoutInvariant == Spec => []FanoutInv
<1>1. Init => FanoutInv
  BY FanoutStart
<1>2. DataInv /\ GoneInv /\ FanoutInv /\ [Next]_marketVars => FanoutInv'
  BY StillStep, FanoutStill, FanoutHandle
<1>3. QED
  BY <1>1, <1>2, DataInvariant, GoneInvariant, PTL DEF Spec

\* The fan-out of a price change is true to its rows: one push and one
\* notification at most, no push without the row, and rows for exactly those
\* who want them, although likes, settings and chats are read at other moments.
THEOREM FanoutTrue == Spec => []FanoutIsTrue
<1>1. ASSUME DataInv, FanoutInv PROVE FanoutIsTrue
  <2>1. ASSUME NEW r \in Req, Op(r) = "edit", NEW u \in UserIds
        PROVE  /\ Cardinality(Pushes(r, u)) <= 1
               /\ Cardinality(NoticesOf(r, u)) <= 1
               /\ Pushes(r, u) # {} <=> Pushed(r, u)
               /\ NoticesOf(r, u) # {} <=> Told(r, u)
    <3>1. \A i \in Pushes(r, u) :
            i \in DOMAIN queued /\ queued[i].by = r /\ queued[i].user = u
      BY DEF Pushes
    <3>2. ASSUME NEW i \in DOMAIN queued, queued[i].by = r, queued[i].user = u
          PROVE  i \in Pushes(r, u)
      <4>1. PICK Row : Row = [by: Req, user: UserIds]
        OBVIOUS
      <4>2. queued \in Seq(Row)
        BY <1>1, <4>1 DEF DataInv, StoreInv
      <4>3. queued[i] \in Row
        BY <3>2, <4>2
      <4>4. queued[i] = [by |-> r, user |-> u]
        BY <3>2, <4>1, <4>3
      <4>5. QED
        BY <4>4 DEF Pushes
    <3>3. Pushes(r, u) # {} <=> Pushed(r, u)
      BY <3>1, <3>2 DEF Pushed
    <3>4. \A i, j \in Pushes(r, u) : i = j
      BY <1>1, <2>1, <3>1 DEF FanoutInv, OnceInv
    <3>5. \A i, j \in NoticesOf(r, u) : i = j
      BY <1>1, <2>1 DEF FanoutInv, OnceInv, NoticesOf
    <3>6. NoticesOf(r, u) # {} <=> Told(r, u)
      BY DEF NoticesOf, Told
    <3>7. QED
      BY <3>3, <3>4, <3>5, <3>6, AtMostOne
  <2>2. ASSUME NEW r \in Req, Op(r) = "edit" PROVE FanOk(r, pc[r], got[r])
    BY <1>1, <2>2 DEF FanoutInv
  <2>3. ASSUME NEW r \in Req, Op(r) = "edit", NEW u \in UserIds,
               Pushed(r, u), ~Told(r, u)
        PROVE  Running(r) \/ pc[r] = "failed"
    <3>1. pc[r] \in {"push", "commit", "done", "failed"} /\ pc[r] # "done"
      BY <2>2, <2>3 DEF FanOk
    <3>2. QED
      BY <3>1 DEF Running, Ends
  <2>4. PushHasNotification
    BY <2>1, <2>3 DEF PushHasNotification
  <2>5. ASSUME NEW r \in Req, Op(r) = "edit", Done(r), NEW u \in UserIds,
               NEW settings, settings = {q \in Req : Op(q) = "settings" /\ User(q) = u},
               NEW left, left = {q \in Req : Op(q) = "withdraw" /\ User(q) = u /\ Done(q)},
               NEW off, off = {q \in settings : Done(q) /\ ~plan[q].on}
        PROVE  /\ NoticesOf(r, u) # {} =>
                    /\ u # User(r)
                    /\ left \cap past[r] = {}
                    /\ off \cap past[r] # {} => \E q \in settings : plan[q].on
               /\ /\ got[r].notified
                  /\ u # User(r) /\ db.users[u].live /\ db.users[u].priceOn
                  /\ settings \subseteq past[r]
                  /\ \E i \in FindLike(db, plan[r].post, u) :
                       db.likes[i].by \in past[r] \cup {0}
                  => NoticesOf(r, u) # {}
    <3>1. settings = SettingsOf(u) /\ (NoticesOf(r, u) # {} <=> Told(r, u))
      BY <2>1, <2>5 DEF SettingsOf
    <3>2. /\ Told(r, u) => u # User(r) /\ MayTell(r, u)
          /\ got[r].notified /\ MustTell(r, u) => Told(r, u)
      BY <2>2, <2>5 DEF FanOk, Done
    <3>3. MayTell(r, u) => /\ left \cap past[r] = {}
                           /\ off \cap past[r] # {} => \E q \in settings : plan[q].on
      BY <2>5, <3>1 DEF MayTell, SwitchedOn
    <3>4. QED
      BY <3>1, <3>2, <3>3 DEF MustTell, Post
  <2>6. NotificationsAreWanted
    BY <2>5, Zenon DEF NotificationsAreWanted
  <2>7. QED
    BY <2>4, <2>6 DEF FanoutIsTrue
<1>2. QED
  BY <1>1, DataInvariant, FanoutInvariant, PTL

-----------------------------------------------------------------------------
(* How a conversation numbers its messages.                                *)

\* A conversation numbers its messages from 1 to the last, as time goes by.
NumbersInv ==
  /\ \A m \in DOMAIN db.messages :
       db.messages[m].number \in 1 .. db.conversations[db.messages[m].conv].last
  /\ \A c \in ConversationIds : \A n \in 1 .. db.conversations[c].last :
       \E m \in DOMAIN db.messages :
         db.messages[m].conv = c /\ db.messages[m].number = n
  /\ \A k, m \in DOMAIN db.messages :
       /\ db.messages[k].conv = db.messages[m].conv
       /\ db.messages[k].number <= db.messages[m].number
       => db.messages[k].at <= db.messages[m].at

LEMMA NumbersStart ==
  ASSUME Init
  PROVE  NumbersInv
<1>1. db = StartDb
  BY DEF Init
<1>2. QED
  BY <1>1, StartAssumption DEF NumbersInv, ConversationIds

\* The numbers of the messages there are.
LEMMA Lasts ==
  ASSUME DataInv
  PROVE  /\ \A c \in ConversationIds : db.conversations[c].last \in Nat
         /\ \A m \in DOMAIN db.messages : db.messages[m].number \in Nat
  BY RowTypes DEF ConversationRow, MessageRow

\* The new message of a step has the next number, and the time of now.
LEMMA NewNumber ==
  ASSUME DataInv, NEW r \in Req, Handle(r),
         NEW m \in DOMAIN db'.messages, m \notin DOMAIN db.messages
  PROVE  /\ SaveMessage(r) /\ Conv(r) \in ConversationIds
         /\ db'.messages[m].conv = Conv(r) /\ db'.messages[m].at = now
         /\ db'.messages[m].number = db.conversations[Conv(r)].last + 1
         /\ db'.messages[m].by = r
<1>1. PICK n : n = db.conversations[Conv(r)].last + 1
  OBVIOUS
<1>2. SaveMessage(r) /\ db'.messages[m] = NewMessage(r, n)
  BY <1>1, MessagesKept
<1>3. QED
  BY <1>1, <1>2 DEF NewMessage, SaveMessage

LEMMA NumbersHandle ==
  ASSUME DataInv, DatesInv, NumbersInv, NEW r \in Req, Handle(r)
  PROVE  NumbersInv'
<1>1. PICK rows, rooms : rows = db'.messages /\ rooms = db'.conversations
  OBVIOUS
<1>2. DataInv'
  BY HandleMoves
<1>3. ASSUME NEW c \in ConversationIds
      PROVE  /\ db.conversations[c].last \in Nat /\ c \in ConversationIds'
             /\ rooms[c].last \in
                  {db.conversations[c].last, db.conversations[c].last + 1}
             /\ SaveMessage(r) /\ c = Conv(r) =>
                  rooms[c].last = db.conversations[c].last + 1
             /\ ~(SaveMessage(r) /\ c = Conv(r)) =>
                  rooms[c].last = db.conversations[c].last
  BY <1>1, <1>3, Lasts, ConversationsKept
<1>4. ASSUME NEW m \in DOMAIN db.messages
      PROVE  /\ m \in DOMAIN rows /\ rows[m] = db.messages[m]
             /\ db.messages[m].conv \in ConversationIds
             /\ db.messages[m].number \in Nat /\ db.messages[m].at \in Nat
             /\ db.messages[m].number <= db.conversations[db.messages[m].conv].last
             /\ 1 <= db.messages[m].number
             /\ db.messages[m].at <= now
  <2>1. PICK c : c = db.messages[m].conv
    OBVIOUS
  <2>2. /\ c \in ConversationIds /\ db.messages[m].at \in Nat
        /\ db.conversations[c].sentAt \in Nat /\ now \in Nat
        /\ db.conversations[c].sentAt <= now
        /\ db.messages[m].at <= db.conversations[c].sentAt
    BY <2>1, Dates DEF DatesInv
  <2>3. db.messages[m].number \in Nat /\ db.conversations[c].last \in Nat
    BY <2>2, Lasts
  <2>4. db.messages[m].number \in 1 .. db.conversations[c].last
    BY <2>1 DEF NumbersInv
  <2>5. QED
    BY <1>1, <2>1, <2>2, <2>3, <2>4, MessagesKept
<1>5. ASSUME NEW m \in DOMAIN rows, m \notin DOMAIN db.messages
      PROVE  /\ SaveMessage(r) /\ Conv(r) \in ConversationIds
             /\ rows[m].conv = Conv(r) /\ rows[m].at = now
             /\ rows[m].number = db.conversations[Conv(r)].last + 1
  BY <1>1, <1>5, NewNumber
<1>6. ASSUME NEW m \in DOMAIN rows
      PROVE  rows[m].number \in 1 .. rooms[rows[m].conv].last
  <2>1. CASE m \in DOMAIN db.messages
    <3>1. PICK c \in ConversationIds : c = rows[m].conv
      BY <1>4, <2>1
    <3>2. /\ rows[m].number \in Nat /\ 1 <= rows[m].number
          /\ rows[m].number <= db.conversations[c].last
      BY <1>4, <2>1, <3>1
    <3>3. QED
      BY <1>3, <3>1, <3>2
  <2>2. CASE m \notin DOMAIN db.messages
    <3>1. /\ SaveMessage(r) /\ Conv(r) \in ConversationIds
          /\ rows[m].conv = Conv(r)
          /\ rows[m].number = db.conversations[Conv(r)].last + 1
      BY <1>5, <2>2
    <3>2. QED
      BY <1>3, <3>1
  <2>3. QED
    BY <2>1, <2>2
<1>7. ASSUME NEW c \in ConversationIds', NEW n \in 1 .. rooms[c].last
      PROVE  \E m \in DOMAIN rows : rows[m].conv = c /\ rows[m].number = n
  <2>1. CASE c \in ConversationIds
    <3>1. CASE n \in 1 .. db.conversations[c].last
      <4>1. PICK m \in DOMAIN db.messages :
                   db.messages[m].conv = c /\ db.messages[m].number = n
        BY <2>1, <3>1 DEF NumbersInv
      <4>2. QED
        BY <1>4, <4>1
    <3>2. CASE n \notin 1 .. db.conversations[c].last
      <4>1. rooms[c].last # db.conversations[c].last
        BY <1>7, <3>2
      <4>2. /\ SaveMessage(r) /\ c = Conv(r)
            /\ rooms[c].last = db.conversations[c].last + 1
        BY <1>3, <2>1, <4>1
      <4>3. n = db.conversations[c].last + 1
        BY <1>3, <1>7, <2>1, <3>2, <4>2
      <4>4. PICK m \in DOMAIN rows : rows[m] = NewMessage(r, n)
        BY <1>1, <4>2, <4>3, MessagesKept
      <4>5. QED
        BY <4>2, <4>4 DEF NewMessage
    <3>3. QED
      BY <3>1, <3>2
  <2>2. CASE c \notin ConversationIds
    <3>1. rooms[c] = NewConversation(r)
      BY <1>1, <1>7, <2>2, ConversationsKept
    <3>2. rooms[c].last = 0
      BY <3>1 DEF NewConversation
    <3>3. QED
      BY <1>7, <3>2
  <2>3. QED
    BY <2>1, <2>2
<1>8. ASSUME NEW k \in DOMAIN rows, NEW m \in DOMAIN rows,
             rows[k].conv = rows[m].conv, rows[k].number <= rows[m].number
      PROVE  rows[k].at <= rows[m].at
  <2>1. now \in Nat
    BY Dates
  <2>2. CASE k \in DOMAIN db.messages /\ m \in DOMAIN db.messages
    BY <1>4, <1>8, <2>2 DEF NumbersInv
  <2>3. CASE k \in DOMAIN db.messages /\ m \notin DOMAIN db.messages
    BY <1>4, <1>5, <1>8, <2>1, <2>3
  <2>4. CASE k \notin DOMAIN db.messages /\ m \in DOMAIN db.messages
    <3>1. /\ Conv(r) \in ConversationIds /\ rows[k].conv = Conv(r)
          /\ rows[k].number = db.conversations[Conv(r)].last + 1
      BY <1>5, <2>4
    <3>2. /\ rows[m].number \in Nat
          /\ rows[m].number <= db.conversations[rows[m].conv].last
      BY <1>4, <2>4
    <3>3. db.conversations[Conv(r)].last \in Nat
      BY <1>3, <3>1
    <3>4. QED
      BY <1>8, <3>1, <3>2, <3>3
  <2>5. CASE k \notin DOMAIN db.messages /\ m \notin DOMAIN db.messages
    BY <1>5, <2>1, <2>5
  <2>6. QED
    BY <2>2, <2>3, <2>4, <2>5
<1>9. QED
  BY <1>1, <1>6, <1>7, <1>8 DEF NumbersInv

\* Messages are numbered without a gap, in the order of their dates.
LEMMA NumbersInvariant == Spec => []NumbersInv
<1>1. Init => NumbersInv
  BY NumbersStart
<1>2. DataInv /\ NumbersInv /\ Still => NumbersInv'
  BY DEF Still, NumbersInv, ConversationIds
<1>3. DataInv /\ DatesInv /\ NumbersInv /\ [Next]_marketVars => NumbersInv'
  BY <1>2, StillStep, NumbersHandle
<1>4. QED
  BY <1>1, <1>3, DataInvariant, DatesInvariant, PTL DEF Spec

-----------------------------------------------------------------------------
(* What a reader of messages has read.                                     *)

\* From some number on to the last.
Reaches(last, ids) ==
  /\ ids \subseteq 1 .. last
  /\ \A n \in ids, k \in 1 .. last : n <= k => k \in ids

\* The numbers a reader is entitled to.
LEMMA ReadableRows ==
  ASSUME DataInv, NumbersInv, NEW c \in ConversationIds, NEW at \in Seconds \cup {None}
  PROVE  /\ Reaches(db.conversations[c].last, Readable(c, at))
         /\ \A k \in 1 .. db.conversations[c].last : k \in Readable(c, None)
<1>1. PICK last \in Nat : last = db.conversations[c].last
  BY Lasts
<1>2. Readable(c, at) \subseteq 1 .. last
  BY <1>1 DEF Readable, NumbersInv
<1>3. ASSUME NEW k \in 1 .. last
      PROVE  \E m \in DOMAIN db.messages :
               db.messages[m].conv = c /\ db.messages[m].number = k
  BY <1>1 DEF NumbersInv
<1>4. ASSUME NEW n \in Readable(c, at), NEW k \in 1 .. last, n <= k
      PROVE  k \in Readable(c, at)
  <2>1. PICK i \in DOMAIN db.messages :
               /\ db.messages[i].conv = c /\ db.messages[i].number = n
               /\ at = None \/ db.messages[i].at > at
    BY DEF Readable
  <2>2. PICK m \in DOMAIN db.messages :
               db.messages[m].conv = c /\ db.messages[m].number = k
    BY <1>3
  <2>3. db.messages[i].at <= db.messages[m].at
    BY <1>4, <2>1, <2>2 DEF NumbersInv
  <2>4. db.messages[i].at \in Nat /\ db.messages[m].at \in Nat
    BY Dates
  <2>5. at # None => at \in Nat
    BY DEF Seconds
  <2>6. at = None \/ db.messages[m].at > at
    BY <2>1, <2>3, <2>4, <2>5
  <2>7. QED
    BY <2>2, <2>6 DEF Readable
<1>5. \A k \in 1 .. last : k \in Readable(c, None)
  BY <1>3 DEF Readable
<1>6. QED
  BY <1>1, <1>2, <1>4, <1>5 DEF Reaches

\* Each number one below the number before it.
Unbroken(s) == \A i \in 1 .. Len(s) - 1 : s[i + 1] = s[i] - 1

\* A page of numbers that reach without a gap to the last goes on where the
\* cursor stands.
LEMMA PageUnbroken ==
  ASSUME NEW last \in Nat, NEW ids, Reaches(last, ids),
         NEW cursor \in 0 .. last, NEW size \in Nat \ {0},
         NEW page, page = CursorPage(ids, cursor, size)
  PROVE  /\ page.contents \in Seq(Nat) /\ Unbroken(page.contents)
         /\ page.contents # << >> => cursor = 0 \/ page.contents[1] = cursor - 1
         /\ page.hasNext \in BOOLEAN
         /\ page.hasNext =>
              /\ page.nextCursor \in ids /\ page.contents # << >>
              /\ page.contents[Len(page.contents)] = page.nextCursor
              /\ \A i \in ids : cursor = 0 \/ i < cursor
                   => i \in ToSet(page.contents) \/ i < page.nextCursor
         /\ ~page.hasNext =>
              /\ page.nextCursor = 0
              /\ \A i \in ids : cursor = 0 \/ i < cursor => i \in ToSet(page.contents)
<1>1. /\ ids \subseteq 1 .. last
      /\ \A n \in ids, k \in 1 .. last : n <= k => k \in ids
  BY DEF Reaches
<1>2. ids \subseteq Nat \ {0} /\ IsFiniteSet(ids)
  <2>1. 1 \in Int /\ last \in Int
    OBVIOUS
  <2>2. IsFiniteSet(1 .. last)
    BY <2>1, FS_Interval
  <2>3. ids \in SUBSET (1 .. last) /\ 1 .. last \subseteq Nat \ {0}
    BY <1>1
  <2>4. IsFiniteSet(ids)
    BY <2>2, <2>3, FS_Subset
  <2>5. QED
    BY <2>3, <2>4
<1>3. PICK t, more, next : /\ t = page.contents /\ more = page.hasNext
                           /\ next = page.nextCursor
  OBVIOUS
<1>4. PICK B : B = {i \in ids : cursor = 0 \/ i < cursor}
  OBVIOUS
<1>5. /\ t \in Seq(B) /\ Falling(t) /\ more \in BOOLEAN
      /\ ~more => next = 0 /\ \A i \in B : i \in ToSet(t)
      /\ more => /\ next \in ToSet(t)
                 /\ \A k \in ToSet(t) : next <= k
                 /\ \A i \in B : i \in ToSet(t) \/ i < next
  <2>1. cursor \in Nat
    OBVIOUS
  <2>2. /\ page.contents \in Seq({i \in ids : cursor = 0 \/ i < cursor})
        /\ Falling(page.contents) /\ page.hasNext \in BOOLEAN
        /\ ~page.hasNext =>
             /\ page.nextCursor = 0
             /\ \A i \in ids : cursor = 0 \/ i < cursor => i \in ToSet(page.contents)
        /\ page.hasNext =>
             /\ page.nextCursor \in ToSet(page.contents)
             /\ \A k \in ToSet(page.contents) : page.nextCursor <= k
             /\ \A i \in ids : cursor = 0 \/ i < cursor
                  => i \in ToSet(page.contents) \/ i < page.nextCursor
    BY <1>2, <2>1, CursorPageRows
  <2>3. QED
    BY <1>3, <1>4, <2>2
<1>6. B \subseteq ids /\ B \subseteq Nat /\ t \in Seq(Nat)
  <2>1. B \subseteq ids /\ B \subseteq Nat
    BY <1>2, <1>4
  <2>2. QED
    BY <1>5, <2>1, SeqGrows
<1>7. PICK n \in Nat : n = Len(t)
  BY <1>6
<1>8. /\ DOMAIN t = 1 .. n /\ \A i \in 1 .. n : t[i] \in B
      /\ ToSet(t) = {t[i] : i \in 1 .. n}
  BY <1>5, <1>7 DEF ToSet
\* What lies between a row and one below it is on the page.
<1>9. ASSUME NEW i \in 1 .. n, NEW k \in B, t[i] <= k
      PROVE  \E j \in 1 .. n : t[j] = k
  <2>1. t[i] \in Nat /\ k \in Nat /\ t[i] \in ToSet(t)
    BY <1>6, <1>8
  <2>2. more => next \in Nat /\ next <= t[i]
    BY <1>5, <1>6, <1>8, <2>1
  <2>3. k \in ToSet(t)
    BY <1>5, <1>9, <2>1, <2>2
  <2>4. QED
    BY <1>8, <2>3
<1>10. ASSUME NEW i \in 1 .. n - 1
      PROVE  t[i + 1] = t[i] - 1
  <2>1. i \in 1 .. n /\ i + 1 \in 1 .. n
    BY <1>7
  <2>2. t[i] \in B /\ t[i + 1] \in B /\ t[i] > t[i + 1]
    <3>1. i \in DOMAIN t /\ i + 1 \in DOMAIN t /\ i < i + 1
      BY <1>8, <2>1
    <3>2. t[i] > t[i + 1]
      BY <1>5, <3>1 DEF Falling
    <3>3. QED
      BY <1>8, <2>1, <3>2
  <2>3. PICK a \in Nat, b \in Nat : a = t[i] /\ b = t[i + 1]
    BY <1>6, <2>2
  <2>4. b \in ids /\ a \in ids /\ b <= a - 1 /\ a - 1 \in 1 .. last
    <3>1. a \in ids /\ b \in ids /\ a > b
      BY <1>6, <2>2, <2>3
    <3>2. \A k \in ids : k \in 1 .. last
      BY <1>1
    <3>3. QED
      BY <2>3, <3>1, <3>2
  <2>5. a - 1 \in B
    <3>1. a - 1 \in ids
      BY <1>1, <2>4
    <3>2. cursor = 0 \/ a < cursor
      BY <1>4, <2>2, <2>3
    <3>3. QED
      BY <1>4, <2>3, <3>1, <3>2
  <2>6. PICK j \in 1 .. n : t[j] = a - 1
    BY <1>9, <2>1, <2>3, <2>4, <2>5
  <2>7. CASE j <= i
    <3>1. j < i => t[j] > t[i]
      BY <1>5, <1>8, <2>1 DEF Falling
    <3>2. CASE j < i
      BY <2>3, <2>6, <3>1, <3>2
    <3>3. CASE j = i
      BY <2>3, <2>6, <3>3
    <3>4. QED
      BY <2>1, <2>7, <3>2, <3>3
  <2>8. CASE j > i + 1
    <3>1. b > t[j]
      BY <1>5, <1>8, <2>1, <2>3, <2>8 DEF Falling
    <3>2. QED
      BY <2>3, <2>4, <2>6, <3>1
  <2>9. CASE j = i + 1
    BY <2>3, <2>6, <2>9
  <2>10. QED
    BY <1>7, <2>7, <2>8, <2>9
<1>11. ASSUME t # << >>, cursor # 0
       PROVE  t[1] = cursor - 1
  <2>1. 1 \in 1 .. n
    BY <1>6, <1>7, <1>11
  <2>2. PICK b \in Nat : b = t[1] /\ b \in B
    BY <1>6, <1>8, <2>1
  <2>3. /\ b \in ids /\ b \in 1 .. last /\ b < cursor
        /\ b <= cursor - 1 /\ cursor - 1 \in 1 .. last
    BY <1>1, <1>4, <1>6, <1>11, <2>2
  <2>4. cursor - 1 \in B
    BY <1>1, <1>4, <1>6, <2>2, <2>3
  <2>5. PICK j \in 1 .. n : t[j] = cursor - 1
    BY <1>9, <2>1, <2>2, <2>3, <2>4
  <2>6. CASE j = 1
    BY <2>5, <2>6
  <2>7. CASE j > 1
    BY <1>5, <1>8, <2>1, <2>2, <2>3, <2>5, <2>7 DEF Falling
  <2>8. QED
    BY <2>6, <2>7
<1>12. ASSUME more
       PROVE  t # << >> /\ t[n] = next /\ next \in ids
  <2>1. PICK j \in 1 .. n : t[j] = next
    BY <1>5, <1>8, <1>12
  <2>2. n \in 1 .. n
    BY <1>7, <2>1
  <2>3. t[n] \in Nat /\ next \in Nat /\ next \in ids /\ next <= t[n]
    BY <1>5, <1>6, <1>8, <1>12, <2>1, <2>2
  <2>4. j < n => next > t[n]
    BY <1>5, <1>8, <2>1, <2>2 DEF Falling
  <2>5. j = n
    BY <2>1, <2>3, <2>4
  <2>6. QED
    BY <1>7, <2>1, <2>2, <2>3, <2>5
<1>13. Unbroken(t)
  BY <1>7, <1>10 DEF Unbroken
<1>14. QED
  BY <1>3, <1>4, <1>5, <1>6, <1>7, <1>11, <1>12, <1>13

\* What is unbroken goes on unbroken from its last row.
LEMMA UnbrokenOn ==
  ASSUME NEW s \in Seq(Nat), NEW t \in Seq(Nat), Unbroken(s), Unbroken(t),
         s # << >> /\ t # << >> => t[1] = s[Len(s)] - 1
  PROVE  /\ s \o t \in Seq(Nat) /\ Unbroken(s \o t)
         /\ ToSet(s \o t) = ToSet(s) \cup ToSet(t)
         /\ t # << >> => /\ s \o t # << >>
                         /\ (s \o t)[Len(s \o t)] = t[Len(t)]
<1>1. PICK m \in Nat, n \in Nat : m = Len(s) /\ n = Len(t)
  OBVIOUS
<1>2. DOMAIN s = 1 .. m /\ DOMAIN t = 1 .. n
  BY <1>1
<1>3. PICK u \in Seq(Nat) : u = s \o t
  <2>1. s \o t \in Seq(Nat)
    BY ConcatProperties
  <2>2. QED
    BY <2>1
<1>4. /\ Len(u) = m + n
      /\ DOMAIN u = 1 .. m + n /\ \A i \in 1 .. m : u[i] = s[i]
      /\ \A i \in m + 1 .. m + n : u[i] = t[i - m]
  BY <1>1, <1>3
<1>5. ASSUME NEW i \in 1 .. m + n - 1
      PROVE  u[i + 1] = u[i] - 1
  <2>1. CASE i < m
    <3>1. i \in 1 .. m - 1 /\ i \in 1 .. m /\ i + 1 \in 1 .. m
      BY <2>1
    <3>2. QED
      BY <1>1, <1>4, <3>1 DEF Unbroken
  <2>2. CASE i = m
    <3>1. /\ m \in 1 .. m /\ m + 1 \in m + 1 .. m + n /\ (m + 1) - m = 1
          /\ n >= 1
      BY <2>2
    <3>2. s # << >> /\ t # << >>
      BY <1>1, <3>1
    <3>3. u[m] = s[m] /\ u[m + 1] = t[1]
      BY <1>4, <3>1
    <3>4. QED
      BY <1>1, <2>2, <3>2, <3>3
  <2>3. CASE i > m
    <3>1. PICK k \in Nat : k = i - m
      BY <2>3
    <3>2. /\ k \in 1 .. n - 1 /\ i \in m + 1 .. m + n
          /\ i + 1 \in m + 1 .. m + n /\ (i + 1) - m = k + 1
      BY <2>3, <3>1
    <3>3. u[i] = t[k] /\ u[i + 1] = t[k + 1]
      BY <1>4, <3>1, <3>2
    <3>4. QED
      BY <1>1, <3>2, <3>3 DEF Unbroken
  <2>4. QED
    BY <2>1, <2>2, <2>3
<1>6. ToSet(u) = ToSet(s) \cup ToSet(t)
  <2>1. ASSUME NEW x \in ToSet(u) PROVE x \in ToSet(s) \cup ToSet(t)
    <3>1. PICK i \in 1 .. m + n : u[i] = x
      BY <1>4 DEF ToSet
    <3>2. CASE i <= m
      <4>1. i \in 1 .. m
        BY <3>2
      <4>2. QED
        BY <1>2, <1>4, <3>1, <4>1 DEF ToSet
    <3>3. CASE i > m
      <4>1. i - m \in 1 .. n /\ i \in m + 1 .. m + n
        BY <3>3
      <4>2. QED
        BY <1>2, <1>4, <3>1, <4>1 DEF ToSet
    <3>4. QED
      BY <3>2, <3>3
  <2>2. ASSUME NEW i \in 1 .. m PROVE s[i] \in ToSet(u)
    <3>1. i \in 1 .. m + n
      OBVIOUS
    <3>2. QED
      BY <1>4, <3>1 DEF ToSet
  <2>3. ASSUME NEW k \in 1 .. n PROVE t[k] \in ToSet(u)
    <3>1. PICK i : i = m + k
      OBVIOUS
    <3>2. i \in 1 .. m + n /\ i \in m + 1 .. m + n /\ i - m = k
      BY <3>1
    <3>3. QED
      BY <1>4, <3>2 DEF ToSet
  <2>4. QED
    BY <1>2, <2>1, <2>2, <2>3 DEF ToSet
<1>7. ASSUME t # << >> PROVE u # << >> /\ u[Len(u)] = t[n]
  <2>1. n >= 1
    BY <1>1, <1>7
  <2>2. m + n \in m + 1 .. m + n /\ (m + n) - m = n
    BY <2>1
  <2>3. u[m + n] = t[n]
    BY <1>4, <2>2
  <2>4. QED
    BY <1>4, <2>1, <2>3
<1>8. Unbroken(u)
  BY <1>4, <1>5 DEF Unbroken
<1>9. QED
  BY <1>1, <1>3, <1>6, <1>7, <1>8

PageStages == {"reader", "statuses", "messages", "again"}

\* What a reader of messages keeps from page to page.
ReaderState ==
  [cursor: Nat, seen: Seq(Nat), sentAt: Seconds \cup {None},
   leftAt: Seconds \cup {None}, upTo: Nat]

\* A reader at the step s who keeps v has read without a gap from the last
\* message down to the cursor, and at the end all that they may read.
ReadOk(r, s, v) ==
  /\ s \in PageStages \cup {"done"} =>
       /\ v \in ReaderState /\ Conv(r) \in ConversationIds
       /\ v.upTo <= db.conversations[Conv(r)].last
       /\ Unbroken(v.seen)
  /\ s \in PageStages =>
       /\ v.cursor <= db.conversations[Conv(r)].last
       /\ v.cursor = 0 => v.seen = << >>
       /\ v.cursor # 0 => /\ v.seen # << >> /\ v.seen[Len(v.seen)] = v.cursor
                          /\ v.cursor .. v.upTo \subseteq ToSet(v.seen)
  /\ s = "done" =>
       \A n \in Readable(Conv(r), v.leftAt) : n <= v.upTo => n \in ToSet(v.seen)

ReadInv ==
  \A r \in Req : \A s \in {pc[r]}, v \in {got[r]} : Op(r) \in Paging => ReadOk(r, s, v)

LEMMA ReadStart ==
  ASSUME Init
  PROVE  ReadInv
BY DEF Init, RequestsInit, ReadInv, ReadOk, PageStages

\* The messages of others do not disturb a reader.
LEMMA ReadStays ==
  ASSUME DataInv, DatesInv, NumbersInv, NEW h \in Req, Handle(h), NEW r \in Req,
         NEW s, NEW v, ReadOk(r, s, v)
  PROVE  ReadOk(r, s, v)'
<1>1. PICK c : c = Conv(r)
  OBVIOUS
<1>2. Conv(r)' = c
  BY <1>1, HandleMoves DEF Conv
<1>3. ASSUME c \in ConversationIds
      PROVE  /\ c \in ConversationIds' /\ db.conversations[c].last \in Nat
             /\ db'.conversations[c].last \in Nat
             /\ db.conversations[c].last <= db'.conversations[c].last
  BY <1>3, Lasts, ConversationsKept
<1>4. ASSUME c \in ConversationIds, NEW at, NEW n \in Readable(c, at)',
             n <= db.conversations[c].last
      PROVE  n \in Readable(c, at)
  <2>1. PICK m \in DOMAIN db'.messages :
               /\ db'.messages[m].conv = c /\ db'.messages[m].number = n
               /\ at = None \/ db'.messages[m].at > at
    BY <1>4 DEF Readable
  <2>2. m \in DOMAIN db.messages
    <3>1. CASE m \notin DOMAIN db.messages
      <4>1. db'.messages[m].number = db.conversations[c].last + 1
        BY <2>1, <3>1, NewNumber
      <4>2. QED
        BY <1>3, <1>4, <2>1, <4>1
    <3>2. QED
      BY <3>1
  <2>3. db'.messages[m] = db.messages[m]
    BY <2>2, MessagesKept
  <2>4. QED
    BY <2>1, <2>2, <2>3 DEF Readable
<1>5. CASE s \in PageStages \cup {"done"}
  <2>1. /\ v \in ReaderState /\ c \in ConversationIds
        /\ v.upTo <= db.conversations[c].last /\ Unbroken(v.seen)
    BY <1>1, <1>5 DEF ReadOk
  <2>2. v.upTo \in Nat /\ v.cursor \in Nat
    BY <2>1 DEF ReaderState
  <2>3. v.upTo <= db'.conversations[c].last /\ c \in ConversationIds'
    BY <1>3, <2>1, <2>2
  <2>4. s \in PageStages =>
          /\ v.cursor <= db'.conversations[c].last
          /\ v.cursor = 0 => v.seen = << >>
          /\ v.cursor # 0 => /\ v.seen # << >> /\ v.seen[Len(v.seen)] = v.cursor
                             /\ v.cursor .. v.upTo \subseteq ToSet(v.seen)
    BY <1>1, <1>3, <2>1, <2>2 DEF ReadOk
  <2>5. ASSUME s = "done", NEW n \in Readable(c, v.leftAt)', n <= v.upTo
        PROVE  n \in ToSet(v.seen)
    <3>1. n \in Nat
      <4>1. ASSUME NEW m \in DOMAIN db'.messages
            PROVE  db'.messages[m].number \in Nat
        <5>1. CASE m \in DOMAIN db.messages
          BY <5>1, MessagesKept, Lasts
        <5>2. CASE m \notin DOMAIN db.messages
          BY <5>2, NewNumber, Lasts
        <5>3. QED
          BY <5>1, <5>2
      <4>2. QED
        BY <2>5, <4>1 DEF Readable
    <3>2. n <= db.conversations[c].last
      BY <1>3, <2>1, <2>2, <2>5, <3>1
    <3>3. n \in Readable(c, v.leftAt)
      BY <1>4, <2>1, <2>5, <3>2
    <3>4. QED
      BY <1>1, <2>5, <3>3 DEF ReadOk
  <2>6. QED
    BY <1>2, <2>1, <2>3, <2>4, <2>5 DEF ReadOk
<1>6. CASE s \notin PageStages \cup {"done"}
  BY <1>6 DEF ReadOk
<1>7. QED
  BY <1>5, <1>6

\* What the steps of the reader keep.
LEMMA ReadMoves ==
  ASSUME DataInv, DatesInv, NumbersInv, ReadInv,
         NEW r \in Req, Op(r) \in Paging, Handle(r)
  PROVE  ReadOk(r, pc'[r], got'[r])
<1>1. RequestInv /\ StoreInv /\ StageInv /\ GotInv /\ plan \in Plans
  BY DEF DataInv, StoreInv
<1>2. PICK c : c = Conv(r)
  OBVIOUS
<1>3. PICK v : v = got[r]
  OBVIOUS
<1>4. ReadOk(r, pc[r], v)
  BY <1>3 DEF ReadInv
<1>5. plan[r].size \in Nat \ {0}
  BY <1>1, RequestTypes
<1>6. c \in ConversationIds =>
        /\ db.conversations[c].last \in Nat
        /\ db.conversations[c].sentAt \in Seconds \cup {None}
  BY Lasts, RowTypes DEF ConversationRow
<1>7. CASE JoinRoom(r)
  <2>1. pc'[r] \in {"refused", "join", "joined"}
    BY <1>1, <1>7, StepMoves DEF JoinRoom, Refuse, Ends
  <2>2. QED
    BY <2>1 DEF ReadOk, PageStages
<1>8. CASE ReadConversation(r)
  <2>1. PICK from : /\ from \in {"idle", "joined", "again"} /\ pc[r] = from
                    /\ IF c \notin ConversationIds THEN Refuse(r, from)
                       ELSE LET room  == db.conversations[c]
                                state == IF from = "again" THEN v
                                         ELSE [NothingSeen EXCEPT !.upTo = room.last]
                            IN Step(r, from, "reader", [state EXCEPT !.sentAt = room.sentAt])
    BY <1>2, <1>3, <1>8 DEF ReadConversation
  <2>2. CASE c \notin ConversationIds
    <3>1. pc'[r] = "refused"
      BY <1>1, <2>1, <2>2, StepMoves DEF Refuse, Ends
    <3>2. QED
      BY <3>1 DEF ReadOk, PageStages
  <2>3. CASE c \in ConversationIds /\ from = "again"
    <3>1. PICK w : w = [v EXCEPT !.sentAt = db.conversations[c].sentAt]
      OBVIOUS
    <3>2. pc'[r] = "reader" /\ got'[r] = w
      <4>1. Step(r, from, "reader", w)
        BY <2>1, <2>3, <3>1
      <4>2. QED
        BY <1>1, <2>1, <4>1, StepMoves DEF Ends
    <3>3. v \in ReaderState
      BY <1>4, <2>1, <2>3 DEF ReadOk, PageStages
    <3>4. /\ w \in ReaderState /\ w.cursor = v.cursor /\ w.seen = v.seen
          /\ w.upTo = v.upTo
      BY <1>6, <2>3, <3>1, <3>3 DEF ReaderState
    <3>5. QED
      BY <1>2, <1>4, <2>1, <2>3, <3>2, <3>4 DEF ReadOk, PageStages
  <2>4. CASE c \in ConversationIds /\ from # "again"
    <3>1. PICK last \in Nat : last = db.conversations[c].last
      BY <1>6, <2>4
    <3>2. PICK sentAt : sentAt = db.conversations[c].sentAt
      OBVIOUS
    <3>3. PICK w : w = [[NothingSeen EXCEPT !.upTo = last] EXCEPT !.sentAt = sentAt]
      OBVIOUS
    <3>4. pc'[r] = "reader" /\ got'[r] = w
      <4>1. Step(r, from, "reader", w)
        BY <2>1, <2>4, <3>1, <3>2, <3>3
      <4>2. QED
        BY <1>1, <2>1, <4>1, StepMoves DEF Ends
    <3>5. w = [cursor |-> 0, seen |-> << >>, sentAt |-> sentAt, leftAt |-> None,
               upTo |-> last]
      BY <3>3 DEF NothingSeen
    <3>6. sentAt \in Seconds \cup {None} /\ << >> \in Seq(Nat)
      BY <1>6, <2>4, <3>2
    <3>7. w \in ReaderState /\ Unbroken(w.seen)
      BY <3>1, <3>5, <3>6 DEF ReaderState, Unbroken
    <3>8. QED
      BY <1>2, <2>4, <3>1, <3>4, <3>5, <3>7 DEF ReadOk, PageStages
  <2>5. QED
    BY <2>2, <2>3, <2>4
<1>9. CASE ReadReader(r)
  <2>1. /\ pc[r] = "reader"
        /\ \E i \in AnyOf(FindParticipant(db, c, User(r))) :
             IF i = None \/ (i # None /\ TurnedAway(v.sentAt, db.participants[i].leftAt))
               THEN Refuse(r, "reader")
               ELSE Step(r, "reader", "statuses",
                         [v EXCEPT !.leftAt = db.participants[i].leftAt])
    BY <1>2, <1>3, <1>9 DEF ReadReader
  <2>2. CASE Refuse(r, "reader")
    <3>1. pc'[r] = "refused"
      BY <1>1, <2>2, StepMoves DEF Refuse, Ends
    <3>2. QED
      BY <3>1 DEF ReadOk, PageStages
  <2>3. CASE ~Refuse(r, "reader")
    <3>1. PICK i \in AnyOf(FindParticipant(db, c, User(r))) :
            /\ i # None
            /\ Step(r, "reader", "statuses",
                    [v EXCEPT !.leftAt = db.participants[i].leftAt])
      BY <2>1, <2>3
    <3>2. PICK leftAt : leftAt = db.participants[i].leftAt
      OBVIOUS
    <3>3. i \in DOMAIN db.participants
      BY <3>1 DEF AnyOf, FindParticipant, LiveRows
    <3>4. leftAt \in Seconds \cup {None}
      BY <3>2, <3>3, RowTypes DEF ParticipantRow
    <3>5. PICK w : w = [v EXCEPT !.leftAt = leftAt]
      OBVIOUS
    <3>6. pc'[r] = "statuses" /\ got'[r] = w
      <4>1. Step(r, "reader", "statuses", w)
        BY <3>1, <3>2, <3>5
      <4>2. QED
        BY <1>1, <4>1, StepMoves DEF Ends
    <3>7. v \in ReaderState
      BY <1>4, <2>1 DEF ReadOk, PageStages
    <3>8. /\ w \in ReaderState /\ w.cursor = v.cursor /\ w.seen = v.seen
          /\ w.upTo = v.upTo
      BY <3>4, <3>5, <3>7 DEF ReaderState
    <3>9. QED
      BY <1>2, <1>4, <2>1, <3>6, <3>8 DEF ReadOk, PageStages
  <2>4. QED
    BY <2>2, <2>3
<1>10. CASE ReadStatuses(r)
  <2>1. pc[r] = "statuses" /\ pc'[r] = "messages" /\ got'[r] = v
    BY <1>1, <1>3, <1>10, StepMoves DEF ReadStatuses, Ends
  <2>2. QED
    BY <1>4, <2>1 DEF ReadOk, PageStages
<1>11. CASE ReadMessages(r)
  <2>1. pc[r] = "messages"
    BY <1>11 DEF ReadMessages
  <2>2. /\ v \in ReaderState /\ c \in ConversationIds /\ Unbroken(v.seen)
        /\ v.upTo <= db.conversations[c].last
        /\ v.cursor <= db.conversations[c].last
        /\ v.cursor = 0 => v.seen = << >>
        /\ v.cursor # 0 => /\ v.seen # << >> /\ v.seen[Len(v.seen)] = v.cursor
                           /\ v.cursor .. v.upTo \subseteq ToSet(v.seen)
    BY <1>2, <1>4, <2>1 DEF ReadOk, PageStages
  <2>3. PICK last \in Nat : last = db.conversations[c].last
    BY <1>6, <2>2
  <2>4. PICK seen \in Seq(Nat), upTo \in Nat, leftAt \in Seconds \cup {None} :
               seen = v.seen /\ upTo = v.upTo /\ leftAt = v.leftAt
    BY <2>2 DEF ReaderState
  <2>5. PICK cursor \in 0 .. last : cursor = v.cursor
    BY <2>2, <2>3 DEF ReaderState
  <2>6. PICK ids : ids = Readable(c, leftAt)
    OBVIOUS
  <2>7. Reaches(last, ids)
    BY <2>2, <2>3, <2>4, <2>6, ReadableRows
  <2>8. PICK page : page = CursorPage(ids, cursor, plan[r].size)
    OBVIOUS
  <2>9. PICK t, more, next : /\ t = page.contents /\ more = page.hasNext
                             /\ next = page.nextCursor
    OBVIOUS
  <2>10. /\ t \in Seq(Nat) /\ Unbroken(t)
         /\ t # << >> => cursor = 0 \/ t[1] = cursor - 1
         /\ more \in BOOLEAN
         /\ more =>
              /\ next \in ids /\ t # << >> /\ t[Len(t)] = next
              /\ \A i \in ids : cursor = 0 \/ i < cursor => i \in ToSet(t) \/ i < next
         /\ ~more => /\ next = 0
                     /\ \A i \in ids : cursor = 0 \/ i < cursor => i \in ToSet(t)
    <3>1. PICK size \in Nat \ {0} : size = plan[r].size
      BY <1>5
    <3>2. page = CursorPage(ids, cursor, size)
      BY <2>8, <3>1
    <3>3. /\ page.contents \in Seq(Nat) /\ Unbroken(page.contents)
          /\ page.contents # << >> => cursor = 0 \/ page.contents[1] = cursor - 1
          /\ page.hasNext \in BOOLEAN
          /\ page.hasNext =>
               /\ page.nextCursor \in ids /\ page.contents # << >>
               /\ page.contents[Len(page.contents)] = page.nextCursor
               /\ \A i \in ids : cursor = 0 \/ i < cursor
                    => i \in ToSet(page.contents) \/ i < page.nextCursor
          /\ ~page.hasNext =>
               /\ page.nextCursor = 0
               /\ \A i \in ids : cursor = 0 \/ i < cursor => i \in ToSet(page.contents)
      BY <2>7, <3>2, PageUnbroken
    <3>4. QED
      BY <2>9, <3>3
  <2>11. PICK all : all = seen \o t
    OBVIOUS
  <2>12. seen # << >> /\ t # << >> => t[1] = seen[Len(seen)] - 1
    BY <2>2, <2>4, <2>5, <2>10
  <2>13. /\ all \in Seq(Nat) /\ Unbroken(all) /\ ToSet(all) = ToSet(seen) \cup ToSet(t)
         /\ t # << >> => all # << >> /\ all[Len(all)] = t[Len(t)]
    BY <2>2, <2>4, <2>10, <2>11, <2>12, UnbrokenOn
  <2>14. PICK w : w = [v EXCEPT !.cursor = next, !.seen = all]
    OBVIOUS
  <2>15. pc'[r] = (IF more THEN "again" ELSE "done") /\ got'[r] = w
    <3>1. page = CursorPage(Readable(Conv(r), got[r].leftAt), got[r].cursor, plan[r].size)
      BY <1>2, <1>3, <2>4, <2>5, <2>6, <2>8
    <3>2. Step(r, "messages", IF page.hasNext THEN "again" ELSE "done",
               [got[r] EXCEPT !.cursor = page.nextCursor, !.seen = @ \o page.contents])
      BY <1>11, <3>1 DEF ReadMessages
    <3>3. PICK to : to = IF more THEN "again" ELSE "done"
      OBVIOUS
    <3>4. Step(r, "messages", to, w)
      BY <1>3, <2>4, <2>9, <2>11, <2>14, <3>2, <3>3
    <3>5. to # "idle"
      BY <2>10, <3>3
    <3>6. QED
      BY <1>1, <3>3, <3>4, <3>5, StepMoves DEF Ends
  <2>16. /\ w.seen = all /\ w.cursor = next /\ w.upTo = upTo /\ w.leftAt = leftAt
         /\ next \in Nat => w \in ReaderState
    BY <2>2, <2>4, <2>13, <2>14 DEF ReaderState
  <2>17. cursor # 0 => \A n \in cursor .. upTo : n \in ToSet(seen)
    BY <2>2, <2>4, <2>5
  <2>18. CASE more
    <3>1. next \in 1 .. last /\ next \in Nat /\ next # 0 /\ next <= last
      BY <2>7, <2>10, <2>18 DEF Reaches
    <3>2. ASSUME NEW n \in next .. upTo
          PROVE  n \in ToSet(all)
      <4>1. n \in 1 .. last /\ next <= n /\ n \in Nat
        BY <2>2, <2>3, <2>4, <3>1, <3>2
      <4>2. n \in ids
        BY <2>7, <2>10, <2>18, <4>1 DEF Reaches
      <4>3. CASE cursor = 0 \/ n < cursor
        BY <2>10, <2>13, <2>18, <3>1, <4>1, <4>2, <4>3
      <4>4. CASE ~(cursor = 0 \/ n < cursor)
        BY <2>13, <2>17, <3>2, <4>1, <4>4
      <4>5. QED
        BY <4>3, <4>4
    <3>3. QED
      BY <1>2, <2>2, <2>3, <2>4, <2>10, <2>13, <2>15, <2>16, <2>18, <3>1, <3>2
         DEF ReadOk, PageStages
  <2>19. CASE ~more
    <3>1. next \in Nat
      BY <2>10, <2>19
    <3>2. ASSUME NEW n \in ids, n <= upTo
          PROVE  n \in ToSet(all)
      <4>1. n \in Nat
        BY <2>7 DEF Reaches
      <4>2. CASE cursor = 0 \/ n < cursor
        BY <2>10, <2>13, <2>19, <4>2
      <4>3. CASE ~(cursor = 0 \/ n < cursor)
        BY <2>13, <2>17, <3>2, <4>1, <4>3
      <4>4. QED
        BY <4>2, <4>3
    <3>3. QED
      BY <1>2, <2>2, <2>3, <2>4, <2>6, <2>9, <2>13, <2>15, <2>16, <2>19, <3>1, <3>2
         DEF ReadOk, PageStages
  <2>20. QED
    BY <2>10, <2>18, <2>19
<1>12. QED
  BY <1>7, <1>8, <1>9, <1>10, <1>11, HandlerOps

\* Who reads messages page by page has them without a gap, whatever is sent.
LEMMA ReadInvariant == Spec => []ReadInv
<1>1. ASSUME DataInv, DatesInv, NumbersInv, ReadInv, NEW r \in Req, Handle(r)
      PROVE  ReadInv'
  <2>1. /\ RequestInv /\ Moves(r) /\ Req' = Req /\ plan' = plan
    BY <1>1, HandleMoves
  <2>2. ASSUME NEW q \in Req, Op(q) \in Paging, NEW s, s = pc'[q], NEW v, v = got'[q]
        PROVE  ReadOk(q, s, v)'
    <3>1. ReadOk(q, s, v)
      <4>1. CASE q # r
        BY <1>1, <2>1, <2>2, <4>1, OthersStay DEF ReadInv
      <4>2. CASE q = r
        BY <1>1, <2>2, <4>2, ReadMoves
      <4>3. QED
        BY <4>1, <4>2
    <3>2. QED
      BY <1>1, <2>2, <3>1, ReadStays
  <2>3. QED
    BY <2>1, <2>2 DEF ReadInv, Op
<1>2. ASSUME ReadInv, Still PROVE ReadInv'
  <2>1. /\ plan' = plan /\ db' = db /\ Req' = Req
        /\ ConversationIds' = ConversationIds
    BY <1>2 DEF Still, ConversationIds
  <2>2. ASSUME NEW q \in Req, Op(q) \in Paging, NEW s, s = pc'[q], NEW v, v = got'[q]
        PROVE  ReadOk(q, s, v)
    <3>1. CASE pc'[q] = pc[q] /\ got'[q] = got[q]
      BY <1>2, <2>2, <3>1 DEF ReadInv
    <3>2. CASE pc'[q] = "failed"
      BY <2>2, <3>2 DEF ReadOk, PageStages
    <3>3. QED
      BY <1>2, <2>2, <3>1, <3>2 DEF Still
  <2>3. \A q \in Req : \A s, v : ReadOk(q, s, v)' <=> ReadOk(q, s, v)
    BY <2>1 DEF ReadOk, Conv, Readable
  <2>4. QED
    BY <2>1, <2>2, <2>3 DEF ReadInv, Op
<1>3. Init => ReadInv
  BY ReadStart
<1>4. DataInv /\ DatesInv /\ NumbersInv /\ ReadInv /\ [Next]_marketVars => ReadInv'
  BY <1>1, <1>2, StillStep
<1>5. QED
  BY <1>3, <1>4, DataInvariant, DatesInvariant, NumbersInvariant, PTL DEF Spec

-----------------------------------------------------------------------------
(* Whom a message reaches.                                                 *)

\* The rows that a sender has loaded say of each who takes part by now how
\* they take part, and name them all if the conversation was there before.
Loads(r, rows) ==
  /\ \A x \in rows : x.conv = Conv(r)
  /\ \A i \in LiveRows(db.participants) : db.participants[i].conv = Conv(r) =>
       /\ \A x \in rows : x.user = db.participants[i].user =>
            /\ x.blocking = db.participants[i].blocking
            /\ x.muted = db.participants[i].muted
       /\ db.conversations[Conv(r)].by \in past[r] \cup {0} =>
            \E x \in rows : x.user = db.participants[i].user

\* A message at the step s whose sender carries v has reached whom it must.
SentOk(r, s, v) ==
  /\ s = "done" => Conv(r) \in ConversationIds
  /\ s \in {"save", "online", "devices", "sqs", "emit"} => Loads(r, v.rows)
  /\ s \in {"sqs", "emit"} => v.push \subseteq Pushable(r, v.rows, v.online)
  /\ s = "emit" => \A u \in UserIds : Pushed(r, u) => u \in v.push
  /\ s \notin {"emit", "done", "failed"} => \A u \in UserIds : ~Pushed(r, u)
  /\ s # "done" => \A e \in emitted : e.by # r
  /\ s = "done" =>
       /\ \A e, f \in emitted : e.by = r /\ f.by = r /\ e.user = f.user => e = f
       /\ \A u \in UserIds : Pushed(r, u) =>
            /\ [by |-> r, user |-> u, event |-> "chatRoomUpdated"] \in emitted
            /\ \A i \in FindParticipant(db, Conv(r), u) : ~db.participants[i].muted
       /\ \A i \in LiveRows(db.participants) :
            /\ db.participants[i].conv = Conv(r)
            /\ ~db.participants[i].blocking /\ db.participants[i].user # User(r)
            /\ db.conversations[Conv(r)].by \in past[r] \cup {0}
            => \E e \in emitted : e.by = r /\ e.user = db.participants[i].user

\* Nobody takes part in a conversation twice, nor is pushed a message twice.
PartOnce ==
  \A i, j \in LiveRows(db.participants) :
    /\ db.participants[i].conv = db.participants[j].conv
    /\ db.participants[i].user = db.participants[j].user
    => i = j

PushOnce ==
  \A i, j \in DOMAIN queued :
    /\ queued[i].by \in Req /\ Op(queued[i].by) = "send"
    /\ queued[i].by = queued[j].by /\ queued[i].user = queued[j].user
    => i = j

SentInv ==
  /\ PartOnce /\ PushOnce
  /\ \A r \in Req : \A s \in {pc[r]}, v \in {got[r]} : Op(r) = "send" => SentOk(r, s, v)

-----------------------------------------------------------------------------

LEMMA SentStart ==
  ASSUME Init
  PROVE  SentInv
<1>1. /\ db = StartDb /\ queued = << >> /\ emitted = {}
      /\ \A r \in Req : pc[r] = "idle"
  BY DEF Init, RequestsInit
<1>2. PartOnce
  BY <1>1, StartAssumption DEF PartOnce
<1>3. PushOnce
  BY <1>1 DEF PushOnce
<1>4. ASSUME NEW r \in Req PROVE SentOk(r, "idle", got[r])
  BY <1>1 DEF SentOk, Pushed
<1>5. QED
  BY <1>1, <1>2, <1>3, <1>4 DEF SentInv

\* Who takes part after a step took part before, or the conversation is new.
LEMMA TakingPart ==
  ASSUME DataInv, NEW h \in Req, Handle(h), NEW i \in LiveRows(db'.participants)
  PROVE  \/ /\ i \in LiveRows(db.participants)
            /\ db.participants[i].conv \in ConversationIds
            /\ db'.participants[i].conv = db.participants[i].conv
            /\ db'.participants[i].user = db.participants[i].user
            /\ db'.participants[i].blocking = db.participants[i].blocking
            /\ db'.participants[i].muted = db.participants[i].muted
         \/ /\ InsertConversation(h) /\ i \notin DOMAIN db.participants
            /\ db'.participants[i].conv \in ConversationIds'
            /\ db'.participants[i].conv \notin ConversationIds
            /\ db'.conversations[db'.participants[i].conv].by = h
<1>1. i \in DOMAIN db'.participants /\ db'.participants[i].live
  BY DEF LiveRows
<1>2. CASE i \in DOMAIN db.participants
  BY <1>1, <1>2, ParticipantsKept, ConversationNumbers DEF LiveRows
<1>3. CASE i \notin DOMAIN db.participants
  <2>1. PICK c : c = Len(db.conversations) + 1
    OBVIOUS
  <2>2. InsertConversation(h) /\ db'.participants[i].conv = c
    BY <1>1, <1>3, <2>1, ParticipantsKept
  <2>3. c \in ConversationIds' /\ c \notin ConversationIds
    BY <2>1, <2>2, ConversationsKept
  <2>4. db'.conversations[c].by = h
    <3>1. db'.conversations[c] = NewConversation(h)
      BY <2>3, ConversationsKept
    <3>2. QED
      BY <3>1 DEF NewConversation
  <2>5. QED
    BY <1>3, <2>2, <2>3, <2>4
<1>4. QED
  BY <1>2, <1>3

LEMMA PartOnceHandle ==
  ASSUME DataInv, PartOnce, NEW h \in Req, Handle(h)
  PROVE  PartOnce'
<1>1. PICK rows : rows = db'.participants
  OBVIOUS
<1>2. ASSUME NEW i \in LiveRows(rows), NEW j \in LiveRows(rows),
             rows[i].conv = rows[j].conv, rows[i].user = rows[j].user
      PROVE  i = j
  <2>1. CASE i \in DOMAIN db.participants /\ j \in DOMAIN db.participants
    BY <1>1, <1>2, <2>1, TakingPart DEF PartOnce
  <2>2. CASE i \notin DOMAIN db.participants /\ j \notin DOMAIN db.participants
    BY <1>1, <1>2, <2>2, ParticipantsKept DEF LiveRows
  <2>3. CASE i \in DOMAIN db.participants /\ j \notin DOMAIN db.participants
    <3>1. rows[i].conv \in ConversationIds
      BY <1>1, <2>3, TakingPart
    <3>2. rows[j].conv \notin ConversationIds
      BY <1>1, <2>3, TakingPart DEF LiveRows
    <3>3. QED
      BY <1>2, <3>1, <3>2
  <2>4. CASE i \notin DOMAIN db.participants /\ j \in DOMAIN db.participants
    <3>1. rows[j].conv \in ConversationIds
      BY <1>1, <2>4, TakingPart
    <3>2. rows[i].conv \notin ConversationIds
      BY <1>1, <2>4, TakingPart DEF LiveRows
    <3>3. QED
      BY <1>2, <3>1, <3>2
  <2>5. QED
    BY <2>1, <2>2, <2>3, <2>4
<1>3. QED
  BY <1>1, <1>2 DEF PartOnce

\* The rows that a sender has loaded stay true.
LEMMA LoadsStays ==
  ASSUME DataInv, NEW h \in Req, Handle(h), NEW r \in Req, Op(r) = "send",
         pc[r] # "idle", NEW rows,
         rows \subseteq ParticipantRow(UserIds, ConversationIds), Loads(r, rows)
  PROVE  Loads(r, rows)'
<1>1. /\ RequestInv /\ StageInv /\ Moves(h) /\ ~Ended(h) /\ plan' = plan
      /\ plan \in Plans
  BY HandleMoves DEF DataInv, StoreInv
<1>2. PICK c : c = Conv(r)
  OBVIOUS
<1>3. Conv(r)' = c /\ past'[r] = past[r]
  BY <1>1, <1>2, PastStays DEF Conv
<1>4. h \notin past[r] \cup {0}
  BY <1>1, RequestNumbers DEF RequestInv
<1>5. PICK all, rooms : all = db'.participants /\ rooms = db'.conversations
  OBVIOUS
<1>6. \A x \in rows : x.conv = c /\ x.conv \in ConversationIds
  BY <1>2 DEF Loads, ParticipantRow
<1>7. ASSUME NEW i \in LiveRows(all), all[i].conv = c
      PROVE  /\ \A x \in rows : x.user = all[i].user =>
                  x.blocking = all[i].blocking /\ x.muted = all[i].muted
             /\ rooms[c].by \in past[r] \cup {0} =>
                  \E x \in rows : x.user = all[i].user
  <2>1. CASE i \in DOMAIN db.participants
    <3>1. /\ i \in LiveRows(db.participants) /\ c \in ConversationIds
          /\ db.participants[i].conv = c
          /\ all[i].user = db.participants[i].user
          /\ all[i].blocking = db.participants[i].blocking
          /\ all[i].muted = db.participants[i].muted
      BY <1>5, <1>7, <2>1, TakingPart
    <3>2. rooms[c].by = db.conversations[c].by
      BY <1>5, <3>1, ConversationsKept
    <3>3. QED
      BY <1>2, <3>1, <3>2 DEF Loads
  <2>2. CASE i \notin DOMAIN db.participants
    <3>1. c \notin ConversationIds /\ rooms[c].by = h
      BY <1>5, <1>7, <2>2, TakingPart DEF LiveRows
    <3>2. QED
      BY <1>4, <1>6, <3>1
  <2>3. QED
    BY <2>1, <2>2
<1>8. QED
  BY <1>3, <1>5, <1>6, <1>7 DEF Loads

\* Only the handler of a message emits its events, and in one step.
LEMMA EmittedKept ==
  ASSUME DataInv, NEW h \in Req, Handle(h)
  PROVE  /\ emitted \subseteq emitted'
         /\ \A e \in emitted' : e \notin emitted =>
              /\ Emit(h) /\ e.by = h
              /\ e \in Emissions(h, got[h].rows, got[h].online)
<1>1. CASE emitted' = emitted
  BY <1>1
<1>2. CASE Emit(h)
  <2>1. emitted' = emitted \cup Emissions(h, got[h].rows, got[h].online)
    BY <1>2 DEF Emit
  <2>2. \A e \in Emissions(h, got[h].rows, got[h].online) : e.by = h
    BY DEF Emissions, OnlineEmissions, OfflineEmissions
  <2>3. QED
    BY <1>2, <2>1, <2>2
<1>3. QED
  BY <1>1, <1>2, HandleWrites

\* What a sender carries from the first step to the last.
LEMMA SenderGot ==
  ASSUME DataInv, NEW r \in Req
  PROVE  /\ pc[r] \in {"save", "online", "devices", "sqs", "emit"} =>
              got[r].rows \subseteq ParticipantRow(UserIds, ConversationIds)
         /\ pc[r] \in {"online", "devices", "sqs", "emit"} =>
              Conv(r) \in ConversationIds
         /\ pc[r] \in {"devices", "sqs", "emit"} =>
              /\ got[r] \in [rows: SUBSET ParticipantRow(UserIds, ConversationIds),
                             online: SUBSET UserIds, push: SUBSET UserIds]
              /\ got[r].online \subseteq UserIds /\ got[r].push \subseteq UserIds
<1>1. PICK s, v : s = pc[r] /\ v = got[r]
  OBVIOUS
<1>2. GotOk(r, s, v)
  BY <1>1 DEF DataInv, GotInv
<1>3. s \in {"save", "online", "devices", "sqs", "emit"} =>
        v.rows \subseteq ParticipantRow(UserIds, ConversationIds)
  BY <1>2 DEF GotOk
<1>4. QED
  BY <1>1, <1>2, <1>3 DEF GotOk

\* The messages of others do not disturb a sender.
LEMMA SentStays ==
  ASSUME DataInv, NEW h \in Req, Handle(h), NEW r \in Req, Op(r) = "send", h # r,
         NEW s, s = pc[r], NEW v, v = got[r], SentOk(r, s, v)
  PROVE  SentOk(r, s, v)'
<1>1. /\ RequestInv /\ Moves(h) /\ plan' = plan /\ UserIds' = UserIds
  BY HandleMoves, UsersKept DEF DataInv
<1>2. User(r)' = User(r) /\ Conv(r)' = Conv(r) /\ past'[r] = past[r]
  BY <1>1, OthersStay DEF User, Conv
<1>3. s \in {"save", "online", "devices", "sqs", "emit"} => Loads(r, v.rows)'
  <2>1. ASSUME s \in {"save", "online", "devices", "sqs", "emit"}
        PROVE  Loads(r, v.rows)'
    <3>1. PICK rows : rows = v.rows
      OBVIOUS
    <3>2. rows \subseteq ParticipantRow(UserIds, ConversationIds) /\ pc[r] # "idle"
      BY <2>1, <3>1, SenderGot
    <3>3. Loads(r, rows)
      BY <2>1, <3>1 DEF SentOk
    <3>4. Loads(r, rows)'
      BY <3>2, <3>3, LoadsStays
    <3>5. QED
      BY <3>1, <3>4
  <2>2. QED
    BY <2>1
<1>4. Pushable(r, v.rows, v.online)' = Pushable(r, v.rows, v.online)
  BY <1>2 DEF Pushable
<1>5. \A u : Pushed(r, u)' <=> Pushed(r, u)
  BY TellsOwn
<1>6. /\ emitted \subseteq emitted'
      /\ \A e \in emitted' : e.by = r => e \in emitted
  BY EmittedKept
<1>7. s = "done" =>
        /\ Conv(r)' \in ConversationIds'
        /\ \A e, f \in emitted' : e.by = r /\ f.by = r /\ e.user = f.user => e = f
        /\ \A u \in UserIds' : Pushed(r, u)' =>
             /\ [by |-> r, user |-> u, event |-> "chatRoomUpdated"] \in emitted'
             /\ \A i \in FindParticipant(db, Conv(r), u)' : ~db'.participants[i].muted
        /\ \A i \in LiveRows(db'.participants) :
             /\ db'.participants[i].conv = Conv(r)'
             /\ ~db'.participants[i].blocking /\ db'.participants[i].user # User(r)'
             /\ db'.conversations[Conv(r)'].by \in past'[r] \cup {0}
             => \E e \in emitted' : e.by = r /\ e.user = db'.participants[i].user
  <2>1. ASSUME s = "done"
        PROVE  /\ Conv(r)' \in ConversationIds'
               /\ \A e, f \in emitted' : e.by = r /\ f.by = r /\ e.user = f.user => e = f
               /\ \A u \in UserIds' : Pushed(r, u)' =>
                    /\ [by |-> r, user |-> u, event |-> "chatRoomUpdated"] \in emitted'
                    /\ \A i \in FindParticipant(db, Conv(r), u)' : ~db'.participants[i].muted
               /\ \A i \in LiveRows(db'.participants) :
                    /\ db'.participants[i].conv = Conv(r)'
                    /\ ~db'.participants[i].blocking /\ db'.participants[i].user # User(r)'
                    /\ db'.conversations[Conv(r)'].by \in past'[r] \cup {0}
                    => \E e \in emitted' : e.by = r /\ e.user = db'.participants[i].user
    <3>1. PICK c : c = Conv(r)
      OBVIOUS
    <3>2. c \in ConversationIds
      BY <2>1, <3>1 DEF SentOk
    <3>3. c \in ConversationIds' /\ db'.conversations[c].by = db.conversations[c].by
      BY <3>2, ConversationsKept
    <3>4. \A e, f \in emitted' : e.by = r /\ f.by = r /\ e.user = f.user => e = f
      BY <1>6, <2>1 DEF SentOk
    <3>5. ASSUME NEW i \in LiveRows(db'.participants), db'.participants[i].conv = c
          PROVE  /\ i \in LiveRows(db.participants) /\ db.participants[i].conv = c
                 /\ db'.participants[i].user = db.participants[i].user
                 /\ db'.participants[i].blocking = db.participants[i].blocking
                 /\ db'.participants[i].muted = db.participants[i].muted
      BY <3>2, <3>5, TakingPart
    <3>6. ASSUME NEW u \in UserIds, Pushed(r, u)
          PROVE  /\ [by |-> r, user |-> u, event |-> "chatRoomUpdated"] \in emitted'
                 /\ \A i \in FindParticipant(db', c, u) : ~db'.participants[i].muted
      <4>1. /\ [by |-> r, user |-> u, event |-> "chatRoomUpdated"] \in emitted
            /\ \A i \in FindParticipant(db, c, u) : ~db.participants[i].muted
        BY <2>1, <3>1, <3>6 DEF SentOk
      <4>2. QED
        BY <1>6, <3>5, <4>1 DEF FindParticipant
    <3>7. ASSUME NEW i \in LiveRows(db'.participants), db'.participants[i].conv = c,
                 ~db'.participants[i].blocking, db'.participants[i].user # User(r),
                 db'.conversations[c].by \in past[r] \cup {0}
          PROVE  \E e \in emitted' : e.by = r /\ e.user = db'.participants[i].user
      <4>1. /\ i \in LiveRows(db.participants) /\ db.participants[i].conv = c
            /\ db'.participants[i].user = db.participants[i].user
            /\ ~db.participants[i].blocking
        BY <3>5, <3>7
      <4>2. \E e \in emitted : e.by = r /\ e.user = db.participants[i].user
        BY <2>1, <3>1, <3>3, <3>7, <4>1 DEF SentOk
      <4>3. QED
        BY <1>6, <4>1, <4>2
    <3>8. \A u : FindParticipant(db, Conv(r), u)' = FindParticipant(db', c, u)
      BY <1>2, <3>1 DEF FindParticipant
    <3>9. QED
      BY <1>1, <1>2, <1>5, <3>1, <3>3, <3>4, <3>6, <3>7, <3>8
  <2>2. QED
    BY <2>1
<1>8. ASSUME NEW e \in emitted', s # "done" PROVE e.by # r
  BY <1>6, <1>8 DEF SentOk
<1>9. QED
  BY <1>1, <1>3, <1>4, <1>5, <1>7, <1>8 DEF SentOk

\* The step that emits the events of a message.
LEMMA SentEmit ==
  ASSUME DataInv, NEW r \in Req, Handle(r), Op(r) = "send", Emit(r),
         \A s \in {pc[r]}, v \in {got[r]} : SentOk(r, s, v)
  PROVE  /\ SentOk(r, "done", None)'
         /\ pc'[r] = "done" /\ got'[r] = None
<1>1. /\ RequestInv /\ Moves(r) /\ plan' = plan /\ pc[r] = "emit"
  BY HandleMoves DEF DataInv, Emit
<1>2. db' = db /\ queued' = queued /\ pc'[r] = "done" /\ got'[r] = None
  BY <1>1, StepMoves DEF Emit, NoWrite, Ends
<1>3. /\ User(r)' = User(r) /\ Conv(r)' = Conv(r) /\ past'[r] = past[r]
      /\ UserIds' = UserIds /\ ConversationIds' = ConversationIds
  BY <1>1, <1>2, PastStays DEF User, Conv, UserIds, ConversationIds
<1>4. PICK c, rows, watching, push :
        c = Conv(r) /\ rows = got[r].rows /\ watching = got[r].online /\ push = got[r].push
  OBVIOUS
<1>5. /\ c \in ConversationIds /\ watching \subseteq UserIds
      /\ rows \subseteq ParticipantRow(UserIds, ConversationIds)
  BY <1>1, <1>4, SenderGot
<1>6. /\ Loads(r, rows) /\ push \subseteq Pushable(r, rows, watching)
      /\ \A u \in UserIds : Pushed(r, u) => u \in push
      /\ \A e \in emitted : e.by # r
  BY <1>1, <1>4 DEF SentOk
<1>7. emitted' = emitted \cup Emissions(r, rows, watching)
  BY <1>4 DEF Emit
<1>8. ASSUME NEW e \in emitted', e.by = r
      PROVE  e = [by |-> r, user |-> e.user, event |->
                    IF e.user \in watching THEN "newMessage" ELSE "chatRoomUpdated"]
  <2>1. e \in Emissions(r, rows, watching)
    BY <1>6, <1>7, <1>8
  <2>2. QED
    BY <2>1 DEF Emissions, OnlineEmissions, OfflineEmissions
<1>9. ASSUME NEW x \in rows, ~x.blocking, x.user # User(r)
      PROVE  [by |-> r, user |-> x.user, event |->
                IF x.user \in watching THEN "newMessage" ELSE "chatRoomUpdated"]
               \in emitted'
  <2>1. CASE x.user \in watching
    <3>1. [by |-> r, user |-> x.user, event |-> "newMessage"]
            \in Emissions(r, rows, watching)
      BY <1>9, <2>1 DEF Emissions, OnlineEmissions
    <3>2. QED
      BY <1>7, <2>1, <3>1
  <2>2. CASE x.user \notin watching
    <3>1. [by |-> r, user |-> x.user, event |-> "chatRoomUpdated"]
            \in Emissions(r, rows, watching)
      BY <1>9, <2>2 DEF Emissions, OfflineEmissions
    <3>2. QED
      BY <1>7, <2>2, <3>1
  <2>3. QED
    BY <2>1, <2>2
<1>10. ASSUME NEW u \in UserIds, Pushed(r, u)
       PROVE  /\ [by |-> r, user |-> u, event |-> "chatRoomUpdated"] \in emitted'
              /\ \A i \in FindParticipant(db, c, u) : ~db.participants[i].muted
  <2>1. PICK x \in rows : /\ x.user = u /\ u \notin watching /\ u # User(r)
                          /\ ~x.blocking /\ ~x.muted
    BY <1>6, <1>10 DEF Pushable
  <2>2. [by |-> r, user |-> u, event |-> "chatRoomUpdated"] \in emitted'
    BY <1>9, <2>1
  <2>3. ASSUME NEW i \in FindParticipant(db, c, u) PROVE ~db.participants[i].muted
    <3>1. /\ i \in LiveRows(db.participants) /\ db.participants[i].conv = c
          /\ db.participants[i].user = u
      BY <2>3 DEF FindParticipant
    <3>2. QED
      BY <1>4, <1>6, <2>1, <3>1 DEF Loads
  <2>4. QED
    BY <2>2, <2>3
<1>11. ASSUME NEW i \in LiveRows(db.participants), db.participants[i].conv = c,
              ~db.participants[i].blocking, db.participants[i].user # User(r),
              db.conversations[c].by \in past[r] \cup {0}
       PROVE  \E e \in emitted' : e.by = r /\ e.user = db.participants[i].user
  <2>1. PICK x \in rows : x.user = db.participants[i].user /\ ~x.blocking
    BY <1>4, <1>6, <1>11 DEF Loads
  <2>2. QED
    BY <1>9, <1>11, <2>1
<1>12. \A u : /\ Pushed(r, u)' <=> Pushed(r, u)
              /\ FindParticipant(db, Conv(r), u)' = FindParticipant(db, c, u)
  BY <1>2, <1>3, <1>4 DEF Pushed, FindParticipant
<1>13. \A e, f \in emitted' : e.by = r /\ f.by = r /\ e.user = f.user => e = f
  BY <1>8
<1>14. SentOk(r, "done", None)'
  BY <1>2, <1>3, <1>4, <1>5, <1>10, <1>11, <1>12, <1>13 DEF SentOk
<1>15. QED
  BY <1>2, <1>14

LEMMA SentMoves ==
  ASSUME DataInv, PartOnce, NEW r \in Req, Handle(r), Op(r) = "send",
         \A s \in {pc[r]}, v \in {got[r]} : SentOk(r, s, v),
         NEW s, s = pc'[r], NEW v, v = got'[r]
  PROVE  SentOk(r, s, v)'
<1>1. /\ RequestInv /\ StageInv /\ Moves(r) /\ plan' = plan /\ UserIds' = UserIds
  BY HandleMoves, UsersKept DEF DataInv
<1>2. /\ pc[r] # "done" => \A e \in emitted : e.by # r
      /\ pc[r] \notin {"emit", "done", "failed"} => \A u \in UserIds : ~Pushed(r, u)
      /\ pc[r] \in {"save", "online", "devices", "sqs", "emit"} => Loads(r, got[r].rows)
  BY DEF SentOk
<1>3. ~Emit(r) /\ pc[r] # "done" => \A e \in emitted' : e.by # r
  BY <1>2, EmittedKept
<1>4. ~SendPushMessages(r) /\ pc[r] \notin {"emit", "done", "failed"} =>
        \A u \in UserIds' : ~Pushed(r, u)'
  <2>1. ~SendMessageBatch(r)
    <3>1. SendMessageBatch(r) => pc[r] = "push"
      BY DEF SendMessageBatch
    <3>2. QED
      BY <1>1, <3>1 DEF StageInv, StageOps
  <2>2. QED
    BY <1>1, <1>2, <2>1, TellsOwn
<1>5. ASSUME NEW rows, rows = got[r].rows,
             pc[r] \in {"save", "online", "devices", "sqs", "emit"}
      PROVE  Loads(r, rows)'
  BY <1>2, <1>5, SenderGot, LoadsStays
<1>6. User(r)' = User(r) /\ Conv(r)' = Conv(r)
  BY <1>1 DEF User, Conv
<1>7. CASE LoadParticipants(r)
  <2>1. PICK c, rows : c = Conv(r) /\ rows = Loaded(c)
    OBVIOUS
  <2>2. PICK w : w = [rows |-> rows]
    OBVIOUS
  <2>3. /\ Refuse(r, "idle") \/ Step(r, "idle", "save", w)
        /\ db' = db
    BY <1>7, <2>1, <2>2 DEF LoadParticipants, OnlyReads, NoWrite
  <2>4. pc[r] = "idle" /\ (s = "refused" \/ (s = "save" /\ v = w))
    BY <1>1, <2>3, StepMoves DEF Refuse, Ends
  <2>5. ~Emit(r) /\ ~SendPushMessages(r)
    BY <2>4 DEF Emit, SendPushMessages, Step
  <2>6. Loads(r, rows)'
    <3>1. \A x \in rows : \E j \in LiveRows(db.participants) :
            x = db.participants[j] /\ db.participants[j].conv = c
      BY <2>1 DEF Loaded
    <3>2. ASSUME NEW i \in LiveRows(db.participants), db.participants[i].conv = c
          PROVE  /\ db.participants[i] \in rows
                 /\ \A x \in rows : x.user = db.participants[i].user =>
                      x = db.participants[i]
      BY <2>1, <3>1, <3>2 DEF Loaded, PartOnce
    <3>3. QED
      BY <1>6, <2>1, <2>3, <3>1, <3>2 DEF Loads
  <2>7. QED
    BY <1>3, <1>4, <2>2, <2>4, <2>5, <2>6 DEF SentOk
<1>8. CASE SaveMessage(r)
  <2>1. pc[r] = "save" /\ s = "online" /\ v = got[r]
    BY <1>1, <1>8, StepMoves DEF SaveMessage, Ends
  <2>2. ~Emit(r) /\ ~SendPushMessages(r)
    BY <2>1 DEF Emit, SendPushMessages, Step
  <2>3. QED
    BY <1>3, <1>4, <1>5, <2>1, <2>2 DEF SentOk
<1>9. CASE MissConversation(r)
  <2>1. pc[r] = "save" /\ s = "refused"
    BY <1>1, <1>9, StepMoves DEF MissConversation, Refuse, Ends
  <2>2. ~Emit(r) /\ ~SendPushMessages(r)
    BY <2>1 DEF Emit, SendPushMessages, Step
  <2>3. QED
    BY <1>3, <1>4, <2>1, <2>2 DEF SentOk
<1>10. CASE ReadOnlineUsers(r)
  <2>1. PICK rows, watching : rows = got[r].rows /\ watching = Watching(r)
    OBVIOUS
  <2>2. PICK w : w = [rows |-> rows, online |-> watching, push |-> {}]
    OBVIOUS
  <2>3. Step(r, "online", "devices", w)
    BY <1>10, <2>1, <2>2 DEF ReadOnlineUsers
  <2>4. pc[r] = "online" /\ s = "devices" /\ v = w /\ v.rows = rows
    BY <1>1, <2>2, <2>3, StepMoves DEF Ends
  <2>5. ~Emit(r) /\ ~SendPushMessages(r)
    BY <2>4 DEF Emit, SendPushMessages, Step
  <2>6. Loads(r, rows)'
    BY <1>5, <2>1, <2>4
  <2>7. QED
    BY <1>3, <1>4, <2>4, <2>5, <2>6 DEF SentOk
<1>11. CASE BuildPushMessages(r)
  <2>1. PICK old, push : old = got[r]
          /\ push = {u \in Pushable(r, old.rows, old.online) : db.users[u].devices}
    OBVIOUS
  <2>2. PICK w : w = [old EXCEPT !.push = push]
    OBVIOUS
  <2>3. Step(r, "devices", "sqs", w)
    BY <1>11, <2>1, <2>2 DEF BuildPushMessages
  <2>4. pc[r] = "devices" /\ s = "sqs" /\ v = w
    BY <1>1, <2>3, StepMoves DEF Ends
  <2>5. v.rows = old.rows /\ v.online = old.online /\ v.push = push
    BY <2>1, <2>2, <2>4, SenderGot
  <2>6. ~Emit(r) /\ ~SendPushMessages(r)
    BY <2>4 DEF Emit, SendPushMessages, Step
  <2>7. PICK rows : rows = old.rows
    OBVIOUS
  <2>8. Loads(r, rows)'
    BY <1>5, <2>1, <2>4, <2>7
  <2>9. v.push \subseteq Pushable(r, rows, v.online)'
    BY <1>6, <2>1, <2>5, <2>7 DEF Pushable
  <2>10. QED
    BY <1>3, <1>4, <2>4, <2>5, <2>6, <2>7, <2>8, <2>9 DEF SentOk
<1>12. CASE SendPushMessages(r)
  <2>1. pc[r] = "sqs" /\ s = "emit" /\ v = got[r]
    BY <1>1, <1>12, StepMoves DEF SendPushMessages, Ends
  <2>2. ~Emit(r)
    BY <2>1 DEF Emit, Step
  <2>3. v.push \subseteq Pushable(r, v.rows, v.online)
    BY <2>1 DEF SentOk
  <2>4. v.push \subseteq Pushable(r, v.rows, v.online)'
    BY <1>6, <2>3 DEF Pushable
  <2>5. \A u \in UserIds' : Pushed(r, u)' => u \in v.push
    BY <1>1, <1>2, <2>1, TellsOwn
  <2>6. QED
    BY <1>3, <1>5, <2>1, <2>2, <2>4, <2>5 DEF SentOk
<1>13. CASE Emit(r)
  BY <1>13, SentEmit
<1>14. QED
  BY <1>7, <1>8, <1>9, <1>10, <1>11, <1>12, <1>13, HandlerOps

LEMMA PushOnceHandle ==
  ASSUME DataInv, SentInv, NEW r \in Req, Handle(r)
  PROVE  PushOnce'
<1>1. Req' = Req /\ plan' = plan /\ StageInv /\ StoreInv
  BY HandleMoves DEF DataInv
<1>2. \A q \in Req : Op(q)' = Op(q)
  BY <1>1 DEF Op
<1>3. PICK sent : sent = queued'
  OBVIOUS
<1>4. \A i \in DOMAIN queued : queued[i].user \in UserIds
  <2>1. PICK Row : Row = [by: Req, user: UserIds]
    OBVIOUS
  <2>2. queued \in Seq(Row)
    BY <1>1, <2>1 DEF StoreInv
  <2>3. \A i \in DOMAIN queued : queued[i] \in Row
    BY <2>2
  <2>4. QED
    BY <2>1, <2>3
<1>5. ASSUME NEW i \in DOMAIN sent, NEW j \in DOMAIN sent,
             sent[i].by \in Req, Op(sent[i].by) = "send",
             sent[i].by = sent[j].by, sent[i].user = sent[j].user
      PROVE  i = j
  <2>1. ASSUME NEW a \in DOMAIN sent, NEW b \in DOMAIN sent,
               a \in DOMAIN queued, b \notin DOMAIN queued,
               sent[a].by = sent[b].by, sent[a].user = sent[b].user,
               Op(sent[a].by) = "send"
        PROVE  FALSE
    <3>1. /\ sent[a] = queued[a] /\ sent[b].by = r
          /\ SendMessageBatch(r) \/ SendPushMessages(r)
      BY <1>3, <2>1, QueueKept
    <3>2. Pushed(r, sent[b].user) /\ sent[b].user \in UserIds
      BY <1>4, <2>1, <3>1 DEF Pushed
    <3>3. SendPushMessages(r)
      <4>1. SendMessageBatch(r) => pc[r] = "push"
        BY DEF SendMessageBatch
      <4>2. SendMessageBatch(r) => Op(r) = "edit"
        BY <1>1, <4>1 DEF StageInv, StageOps
      <4>3. QED
        BY <2>1, <3>1, <4>2
    <3>4. pc[r] = "sqs"
      BY <3>3 DEF SendPushMessages
    <3>5. SentOk(r, pc[r], got[r])
      BY <2>1, <3>1 DEF SentInv
    <3>6. QED
      BY <3>2, <3>4, <3>5 DEF SentOk
  <2>2. CASE i \in DOMAIN queued /\ j \in DOMAIN queued
    BY <1>3, <1>5, <2>2, QueueKept DEF SentInv, PushOnce
  <2>3. CASE i \notin DOMAIN queued /\ j \notin DOMAIN queued
    BY <1>3, <1>5, <2>3, QueueKept
  <2>4. QED
    BY <1>5, <2>1, <2>2, <2>3
<1>6. QED
  BY <1>1, <1>2, <1>3, <1>5 DEF PushOnce

LEMMA SentHandle ==
  ASSUME DataInv, SentInv, NEW h \in Req, Handle(h)
  PROVE  SentInv'
<1>1. RequestInv /\ Moves(h) /\ Req' = Req /\ plan' = plan
  BY HandleMoves DEF DataInv
<1>2. PartOnce' /\ PushOnce'
  BY PartOnceHandle, PushOnceHandle DEF SentInv
<1>3. ASSUME NEW r \in Req, Op(r) = "send", NEW s, s = pc'[r], NEW v, v = got'[r]
      PROVE  SentOk(r, s, v)'
  <2>1. \A t \in {pc[r]}, w \in {got[r]} : SentOk(r, t, w)
    BY <1>3 DEF SentInv
  <2>2. CASE h = r
    BY <1>3, <2>1, <2>2, SentMoves DEF SentInv
  <2>3. CASE h # r
    <3>1. pc[r] = s /\ got[r] = v
      BY <1>1, <1>3, <2>3, OthersStay
    <3>2. SentOk(r, s, v)
      BY <2>1, <3>1
    <3>3. QED
      BY <1>3, <2>3, <3>1, <3>2, SentStays
  <2>4. QED
    BY <2>2, <2>3
<1>4. \A r \in Req : Op(r)' = Op(r)
  BY <1>1 DEF Op
<1>5. QED
  BY <1>1, <1>2, <1>3, <1>4 DEF SentInv

LEMMA SentStill ==
  ASSUME DataInv, SentInv, Still
  PROVE  SentInv'
<1>1. /\ Req' = Req /\ plan' = plan /\ db' = db /\ queued' = queued /\ past' = past
      /\ emitted' = emitted /\ UserIds' = UserIds /\ ConversationIds' = ConversationIds
      /\ \A r \in Req : Op(r)' = Op(r)
  BY DEF Still, UserIds, ConversationIds, Op
<1>2. PartOnce' /\ PushOnce'
  BY <1>1 DEF SentInv, PartOnce, PushOnce, Op
<1>3. ASSUME NEW r \in Req, Op(r) = "send", NEW s, s = pc'[r], NEW v, v = got'[r]
      PROVE  SentOk(r, s, v)
  <2>1. CASE pc[r] = s /\ got[r] = v
    BY <1>3, <2>1 DEF SentInv
  <2>2. CASE s = "failed" /\ Running(r)
    <3>1. \A e \in emitted : e.by # r
      BY <1>3, <2>2 DEF SentInv, SentOk, Running, Ends
    <3>2. QED
      BY <2>2, <3>1 DEF SentOk
  <2>3. QED
    BY <1>3, <2>1, <2>2 DEF Still
<1>4. ASSUME NEW r \in Req, NEW s, NEW v, SentOk(r, s, v) PROVE SentOk(r, s, v)'
  <2>1. User(r)' = User(r) /\ Conv(r)' = Conv(r)
    BY <1>1 DEF User, Conv
  <2>2. Loads(r, v.rows) => Loads(r, v.rows)'
    BY <1>1, <2>1 DEF Loads
  <2>3. Pushable(r, v.rows, v.online)' = Pushable(r, v.rows, v.online)
    BY <2>1 DEF Pushable
  <2>4. \A u : /\ Pushed(r, u)' <=> Pushed(r, u)
               /\ FindParticipant(db, Conv(r), u)' = FindParticipant(db, Conv(r), u)
    BY <1>1, <2>1 DEF Pushed, FindParticipant
  <2>5. QED
    BY <1>1, <1>4, <2>1, <2>2, <2>3, <2>4 DEF SentOk
<1>5. QED
  BY <1>1, <1>2, <1>3, <1>4 DEF SentInv

\* Who sends a message tells each participant of it once, and pushes it to
\* whom the event goes as to one who is offline, at every step of the handler.
THEOREM SentInvariant == Spec => []SentInv
<1>1. Init => SentInv
  BY SentStart
<1>2. DataInv /\ SentInv /\ [Next]_marketVars => SentInv'
  BY StillStep, SentStill, SentHandle
<1>3. QED
  BY <1>1, <1>2, DataInvariant, PTL DEF Spec

-----------------------------------------------------------------------------
(* Who joins a room before they read its messages.                         *)

\* The steps of a sender whose message is stored.
Stored == {"online", "devices", "sqs", "emit", "done", "failed"}

\* Only who sends to a conversation stores a message there.
AuthorInv ==
  \A m \in DOMAIN db.messages : \A q \in Req : db.messages[m].by = q =>
    Op(q) = "send" /\ Conv(q) = db.messages[m].conv /\ pc[q] \in Stored

\* The user of r never asks to leave a room.
Stays(r) == \A l \in Req : Op(l) = "leave" => User(l) # User(r)

\* The event of the message of q comes to r, who is in the room.
Catches(r, q) ==
  /\ pc[q] \in {"devices", "sqs", "emit"} => User(r) \in got[q].online
  /\ pc[q] = "done" => \A i \in FindParticipant(db, Conv(r), User(r)) :
       /\ ~db.participants[i].blocking
       /\ db.conversations[Conv(r)].by \in past[q] \cup {0}
       => [by |-> q, user |-> User(r), event |-> "newMessage"] \in emitted

\* Who has entered, at the step s with v, is in the room, and catches what has
\* come since the first page was asked for.
JoinOk(r, s, v) ==
  /\ s \in {"joined", "done"} \cup PageStages => <<Conv(r), User(r)>> \in online
  /\ s \in {"done"} \cup PageStages => \A m \in DOMAIN db.messages :
       db.messages[m].conv = Conv(r) /\ db.messages[m].number > v.upTo =>
         /\ db.messages[m].by \in Req
         /\ \A q \in Req : db.messages[m].by = q => Catches(r, q)

JoinInv ==
  /\ AuthorInv
  /\ \A r \in Req : \A s \in {pc[r]}, v \in {got[r]} :
       Op(r) = "enter" /\ Stays(r) => JoinOk(r, s, v)

-----------------------------------------------------------------------------

LEMMA JoinStart ==
  ASSUME Init
  PROVE  JoinInv
<1>1. db = StartDb /\ plan \in Plans /\ \A r \in Req : pc[r] = "idle"
  BY DEF Init, RequestsInit
<1>2. ASSUME NEW m \in DOMAIN db.messages PROVE db.messages[m].by = 0
  <2>1. PICK Row : Row = MessageRow(UserIds, ConversationIds, {0})
    OBVIOUS
  <2>2. StartDb \in Tables(DOMAIN StartDb.users, DOMAIN StartDb.posts,
                           DOMAIN StartDb.conversations, {0})
    BY StartAssumption
  <2>3. db.messages \in Seq(Row)
    BY <1>1, <2>1, <2>2, TableTypes DEF UserIds, ConversationIds
  <2>4. db.messages[m] \in Row
    BY <2>3
  <2>5. QED
    BY <2>1, <2>4 DEF MessageRow
<1>3. AuthorInv
  BY <1>1, <1>2, RequestNumbers DEF AuthorInv
<1>4. \A r \in Req : \A v : JoinOk(r, "idle", v)
  BY DEF JoinOk, PageStages
<1>5. QED
  BY <1>1, <1>3, <1>4 DEF JoinInv

LEMMA AuthorHandle ==
  ASSUME DataInv, AuthorInv, NEW h \in Req, Handle(h)
  PROVE  AuthorInv'
<1>1. /\ RequestInv /\ StageInv /\ Moves(h) /\ ~Ended(h) /\ Req' = Req /\ plan' = plan
  BY HandleMoves DEF DataInv
<1>2. \A q \in Req : Op(q)' = Op(q) /\ Conv(q)' = Conv(q)
  BY <1>1 DEF Op, Conv
<1>3. PICK rows : rows = db'.messages
  OBVIOUS
<1>4. ASSUME NEW q \in Req, Op(q) = "send", pc[q] \in Stored
      PROVE  pc'[q] \in Stored
  <2>1. CASE q # h
    BY <1>1, <1>4, <2>1, OthersStay
  <2>2. CASE q = h
    <3>1. ~LoadParticipants(q) /\ ~SaveMessage(q) /\ ~MissConversation(q)
      <4>1. pc[q] \notin {"idle", "save"}
        BY <1>4 DEF Stored
      <4>2. LoadParticipants(q) => pc[q] = "idle"
        BY DEF LoadParticipants, Refuse, Step
      <4>3. QED
        BY <4>1, <4>2 DEF SaveMessage, MissConversation
    <3>2. CASE ReadOnlineUsers(q)
      BY <1>1, <2>2, <3>2, StepMoves DEF ReadOnlineUsers, Ends, Stored
    <3>3. CASE BuildPushMessages(q)
      BY <1>1, <2>2, <3>3, StepMoves DEF BuildPushMessages, Ends, Stored
    <3>4. CASE SendPushMessages(q)
      BY <1>1, <2>2, <3>4, StepMoves DEF SendPushMessages, Ends, Stored
    <3>5. CASE Emit(q)
      BY <1>1, <2>2, <3>5, StepMoves DEF Emit, Ends, Stored
    <3>6. QED
      BY <1>4, <2>2, <3>1, <3>2, <3>3, <3>4, <3>5, HandlerOps
  <2>3. QED
    BY <2>1, <2>2
<1>5. ASSUME NEW m \in DOMAIN rows, NEW q \in Req, rows[m].by = q
      PROVE  Op(q) = "send" /\ Conv(q) = rows[m].conv /\ pc'[q] \in Stored
  <2>1. CASE m \in DOMAIN db.messages
    BY <1>3, <1>4, <1>5, <2>1, MessagesKept DEF AuthorInv
  <2>2. CASE m \notin DOMAIN db.messages
    <3>1. SaveMessage(h) /\ rows[m].conv = Conv(h) /\ q = h
      BY <1>3, <1>5, <2>2, NewNumber
    <3>2. pc[h] = "save" /\ pc'[h] = "online"
      BY <1>1, <3>1, StepMoves DEF SaveMessage, Ends
    <3>3. QED
      BY <1>1, <3>1, <3>2 DEF StageInv, StageOps, Stored
  <2>3. QED
    BY <2>1, <2>2
<1>6. QED
  BY <1>1, <1>2, <1>3, <1>5 DEF AuthorInv

\* Who is in a room stays there until they leave.
LEMMA RoomStays ==
  ASSUME DataInv, NEW h \in Req, Handle(h), NEW c, NEW u, <<c, u>> \in online,
         Op(h) = "leave" => User(h) # u
  PROVE  <<c, u>> \in online'
<1>1. CASE online' = online
  BY <1>1
<1>2. CASE JoinRoom(h)
  BY <1>2 DEF JoinRoom
<1>3. CASE ReadLeaver(h)
  <2>1. Op(h) = "leave"
    BY <1>3 DEF ReadLeaver
  <2>2. online' = online \/ online' = online \ {<<Conv(h), User(h)>>}
    BY <1>3 DEF ReadLeaver
  <2>3. QED
    BY <2>1, <2>2
<1>4. QED
  BY <1>1, <1>2, <1>3, HandleWrites

\* What comes to somebody in the room does so at every step of the sender.
LEMMA CatchesStays ==
  ASSUME DataInv, SentInv, NEW h \in Req, Handle(h), NEW r \in Req, NEW q \in Req,
         Op(q) = "send", Conv(q) = Conv(r), pc[q] \in Stored,
         <<Conv(r), User(r)>> \in online, Catches(r, q)
  PROVE  Catches(r, q)'
<1>1. /\ RequestInv /\ StoreInv /\ Moves(h) /\ plan' = plan
  BY HandleMoves DEF DataInv
<1>2. PICK c, u : c = Conv(r) /\ u = User(r)
  OBVIOUS
<1>3. c \in ConversationIds /\ u \in UserIds
  BY <1>1, <1>2 DEF StoreInv
<1>4. Conv(r)' = c /\ User(r)' = u /\ past'[q] = past[q]
  <2>1. pc[q] # "idle"
    BY DEF Stored
  <2>2. QED
    BY <1>1, <1>2, <2>1, PastStays DEF Conv, User
<1>5. db'.conversations[c].by = db.conversations[c].by
  BY <1>3, ConversationsKept
<1>6. ASSUME NEW i \in FindParticipant(db', c, u)
      PROVE  /\ i \in FindParticipant(db, c, u)
             /\ db'.participants[i].blocking = db.participants[i].blocking
  BY <1>3, <1>6, TakingPart DEF FindParticipant
<1>7. FindParticipant(db, Conv(r), User(r))' = FindParticipant(db', c, u)
  BY <1>4 DEF FindParticipant
<1>8. emitted \subseteq emitted'
  BY EmittedKept
<1>9. ASSUME pc'[q] = pc[q], got'[q] = got[q] PROVE Catches(r, q)'
  BY <1>2, <1>4, <1>5, <1>6, <1>7, <1>8, <1>9 DEF Catches
<1>10. CASE q # h
  BY <1>1, <1>9, <1>10, OthersStay
<1>11. CASE q = h
  <2>1. ~LoadParticipants(q) /\ ~SaveMessage(q) /\ ~MissConversation(q)
    <3>1. pc[q] \notin {"idle", "save"}
      BY DEF Stored
    <3>2. LoadParticipants(q) => pc[q] = "idle"
      BY DEF LoadParticipants, Refuse, Step
    <3>3. QED
      BY <3>1, <3>2 DEF SaveMessage, MissConversation
  <2>2. CASE ReadOnlineUsers(q)
    <3>1. PICK w : w = [rows |-> got[q].rows, online |-> Watching(q), push |-> {}]
      OBVIOUS
    <3>2. pc'[q] = "devices" /\ got'[q] = w
      BY <1>1, <1>11, <2>2, <3>1, StepMoves DEF ReadOnlineUsers, Ends
    <3>3. u \in w.online
      BY <1>2, <1>3, <3>1 DEF Watching, OnlineIn
    <3>4. QED
      BY <1>4, <3>2, <3>3 DEF Catches
  <2>3. CASE BuildPushMessages(q)
    <3>1. PICK push : push = {x \in Pushable(q, got[q].rows, got[q].online) : db.users[x].devices}
      OBVIOUS
    <3>2. PICK w : w = [got[q] EXCEPT !.push = push]
      OBVIOUS
    <3>3. Step(q, "devices", "sqs", w)
      BY <2>3, <3>1, <3>2 DEF BuildPushMessages
    <3>4. pc[q] = "devices" /\ pc'[q] = "sqs" /\ got'[q] = w
      BY <1>1, <1>11, <3>3, StepMoves DEF Ends
    <3>5. w.online = got[q].online
      BY <3>2, <3>4, SenderGot
    <3>6. QED
      BY <1>2, <1>4, <3>4, <3>5 DEF Catches
  <2>4. CASE SendPushMessages(q)
    <3>1. pc[q] = "sqs" /\ pc'[q] = "emit" /\ got'[q] = got[q]
      BY <1>1, <1>11, <2>4, StepMoves DEF SendPushMessages, Ends
    <3>2. QED
      BY <1>2, <1>4, <3>1 DEF Catches
  <2>5. CASE Emit(q)
    <3>1. pc[q] = "emit" /\ pc'[q] = "done"
      BY <1>1, <1>11, <2>5, StepMoves DEF Emit, Ends
    <3>2. PICK rows, watching : rows = got[q].rows /\ watching = got[q].online
      OBVIOUS
    <3>3. Loads(q, rows)
      BY <3>1, <3>2 DEF SentInv, SentOk
    <3>4. u \in watching
      BY <1>2, <3>1, <3>2 DEF Catches
    <3>5. ASSUME NEW i \in FindParticipant(db, c, u), ~db.participants[i].blocking,
                 db.conversations[c].by \in past[q] \cup {0}
          PROVE  [by |-> q, user |-> u, event |-> "newMessage"] \in emitted'
      <4>1. /\ i \in LiveRows(db.participants) /\ db.participants[i].conv = c
            /\ db.participants[i].user = u
        BY <3>5 DEF FindParticipant
      <4>2. PICK x \in rows : x.user = u /\ ~x.blocking
        BY <1>2, <3>3, <3>5, <4>1 DEF Loads
      <4>3. [by |-> q, user |-> u, event |-> "newMessage"] \in Emissions(q, rows, watching)
        BY <3>4, <4>2 DEF Emissions, OnlineEmissions
      <4>4. QED
        BY <2>5, <3>2, <4>3 DEF Emit
    <3>6. QED
      BY <1>4, <1>5, <1>6, <1>7, <3>1, <3>5 DEF Catches
  <2>6. QED
    BY <1>11, <2>1, <2>2, <2>3, <2>4, <2>5, HandlerOps
<1>12. QED
  BY <1>10, <1>11

\* From the room on, a client only reads; the first page is asked for when
\* the last message is the newest.
LEMMA EnterMoves ==
  ASSUME DataInv, ReadInv, NEW r \in Req, Op(r) = "enter", Handle(r),
         NEW s, s = pc'[r], NEW v, v = got'[r]
  PROVE  /\ s = "joined" => <<Conv(r), User(r)>> \in online'
         /\ s \in {"done"} \cup PageStages =>
              /\ db' = db /\ online' = online
              /\ pc[r] \in {"joined"} \cup PageStages
              /\ \/ pc[r] \in PageStages /\ v.upTo = got[r].upTo
                 \/ /\ Conv(r) \in ConversationIds
                    /\ v.upTo = db.conversations[Conv(r)].last
<1>1. RequestInv /\ StageInv /\ Moves(r)
  BY HandleMoves DEF DataInv
<1>2. PICK w : w = got[r]
  OBVIOUS
<1>3. pc[r] \in PageStages => w \in ReaderState
  BY <1>2 DEF ReadInv, ReadOk, Paging
<1>4. CASE JoinRoom(r)
  <2>1. \/ s \in {"refused", "join"}
        \/ s = "joined" /\ online' = online \cup {<<Conv(r), User(r)>>}
    BY <1>1, <1>4, StepMoves DEF JoinRoom, Refuse, Ends
  <2>2. QED
    BY <2>1 DEF PageStages
<1>5. CASE ReadConversation(r)
  <2>1. db' = db /\ online' = online
    BY <1>5 DEF ReadConversation, OnlyReads, OnlyTables, NoWrite, NoEvents
  <2>2. PICK from : /\ from \in {"joined", "again"} /\ pc[r] = from
                    /\ IF Conv(r) \notin ConversationIds THEN Refuse(r, from)
                       ELSE LET room  == db.conversations[Conv(r)]
                                state == IF from = "again" THEN w
                                         ELSE [NothingSeen EXCEPT !.upTo = room.last]
                            IN Step(r, from, "reader", [state EXCEPT !.sentAt = room.sentAt])
    BY <1>2, <1>5 DEF ReadConversation
  <2>3. CASE Conv(r) \notin ConversationIds
    <3>1. s = "refused"
      BY <1>1, <2>2, <2>3, StepMoves DEF Refuse, Ends
    <3>2. QED
      BY <3>1 DEF PageStages
  <2>4. CASE Conv(r) \in ConversationIds
    <3>1. PICK room : room = db.conversations[Conv(r)]
      OBVIOUS
    <3>2. PICK state : state = IF from = "again" THEN w
                               ELSE [NothingSeen EXCEPT !.upTo = room.last]
      OBVIOUS
    <3>3. PICK x : x = [state EXCEPT !.sentAt = room.sentAt]
      OBVIOUS
    <3>4. Step(r, from, "reader", x)
      BY <2>2, <2>4, <3>1, <3>2, <3>3
    <3>5. s = "reader" /\ v = x
      BY <1>1, <2>2, <3>4, StepMoves DEF Ends
    <3>6. CASE from = "again"
      BY <1>2, <1>3, <2>1, <2>2, <3>2, <3>3, <3>5, <3>6 DEF PageStages, ReaderState
    <3>7. CASE from = "joined"
      <4>1. v.upTo = room.last
        BY <3>2, <3>3, <3>5, <3>7 DEF NothingSeen
      <4>2. QED
        BY <2>1, <2>2, <2>4, <3>1, <3>5, <3>7, <4>1
    <3>8. QED
      BY <2>2, <3>6, <3>7
  <2>5. QED
    BY <2>3, <2>4
<1>6. CASE ReadReader(r)
  <2>1. db' = db /\ online' = online /\ pc[r] = "reader"
    BY <1>6 DEF ReadReader, OnlyReads, OnlyTables, NoWrite, NoEvents
  <2>2. \/ Refuse(r, "reader")
        \/ \E leftAt : Step(r, "reader", "statuses", [w EXCEPT !.leftAt = leftAt])
    BY <1>2, <1>6 DEF ReadReader
  <2>3. CASE Refuse(r, "reader")
    <3>1. s = "refused"
      BY <1>1, <2>3, StepMoves DEF Refuse, Ends
    <3>2. QED
      BY <3>1 DEF PageStages
  <2>4. CASE \E leftAt : Step(r, "reader", "statuses", [w EXCEPT !.leftAt = leftAt])
    <3>1. PICK leftAt, x : /\ x = [w EXCEPT !.leftAt = leftAt]
                           /\ Step(r, "reader", "statuses", x)
      BY <2>4
    <3>2. s = "statuses" /\ v = x
      BY <1>1, <3>1, StepMoves DEF Ends
    <3>3. QED
      BY <1>2, <1>3, <2>1, <3>1, <3>2 DEF PageStages, ReaderState
  <2>5. QED
    BY <2>2, <2>3, <2>4
<1>7. CASE ReadStatuses(r)
  <2>1. /\ db' = db /\ online' = online
        /\ pc[r] = "statuses" /\ s = "messages" /\ v = w
    BY <1>1, <1>2, <1>7, StepMoves
       DEF ReadStatuses, OnlyReads, OnlyTables, NoWrite, NoEvents, Ends
  <2>2. QED
    BY <1>2, <2>1 DEF PageStages
<1>8. CASE ReadMessages(r)
  <2>1. db' = db /\ online' = online /\ pc[r] = "messages"
    BY <1>8 DEF ReadMessages, OnlyReads, OnlyTables, NoWrite, NoEvents
  <2>2. PICK page : page = CursorPage(Readable(Conv(r), w.leftAt), w.cursor, plan[r].size)
    OBVIOUS
  <2>3. PICK to, next, all : /\ to = (IF page.hasNext THEN "again" ELSE "done")
                             /\ next = page.nextCursor /\ all = w.seen \o page.contents
    OBVIOUS
  <2>4. PICK x : /\ x = [w EXCEPT !.cursor = next, !.seen = all]
                 /\ Step(r, "messages", to, x)
    <3>1. Step(r, "messages", IF page.hasNext THEN "again" ELSE "done",
               [w EXCEPT !.cursor = page.nextCursor, !.seen = @ \o page.contents])
      BY <1>2, <1>8, <2>2 DEF ReadMessages
    <3>2. [w EXCEPT !.cursor = page.nextCursor, !.seen = @ \o page.contents]
            = [w EXCEPT !.cursor = next, !.seen = all]
      BY <2>3
    <3>3. Step(r, "messages", to, [w EXCEPT !.cursor = next, !.seen = all])
      BY <2>3, <3>1, <3>2
    <3>4. QED
      BY <3>3
  <2>5. s = to /\ v = x
    BY <1>1, <2>3, <2>4, StepMoves DEF Ends
  <2>6. QED
    BY <1>2, <1>3, <2>1, <2>3, <2>4, <2>5 DEF PageStages, ReaderState
<1>9. QED
  BY <1>4, <1>5, <1>6, <1>7, <1>8, HandlerOps DEF Paging

LEMMA JoinHandle ==
  ASSUME DataInv, NumbersInv, ReadInv, SentInv, JoinInv, NEW h \in Req, Handle(h)
  PROVE  JoinInv'
<1>1. /\ RequestInv /\ Moves(h) /\ Req' = Req /\ plan' = plan /\ plan \in Plans
  BY HandleMoves DEF DataInv, StoreInv
<1>2. AuthorInv /\ AuthorInv'
  BY AuthorHandle DEF JoinInv
<1>3. \A r \in Req : /\ Op(r)' = Op(r) /\ Conv(r)' = Conv(r) /\ User(r)' = User(r)
                     /\ Stays(r)' = Stays(r)
  BY <1>1 DEF Op, Conv, User, Stays
<1>4. ASSUME NEW r \in Req, Op(r) = "enter", Stays(r),
             NEW s, s = pc'[r], NEW v, v = got'[r]
      PROVE  JoinOk(r, s, v)'
  <2>1. PICK c, u : c = Conv(r) /\ u = User(r)
    OBVIOUS
  <2>2. JoinOk(r, pc[r], got[r])
    BY <1>4 DEF JoinInv
  <2>3. <<c, u>> \in online => <<c, u>> \in online'
    BY <1>4, <2>1, RoomStays DEF Stays
  <2>4. PICK rows : rows = db'.messages
    OBVIOUS
  <2>5. ASSUME s \in {"joined", "done"} \cup PageStages
        PROVE  <<c, u>> \in online'
    <3>1. CASE h = r
      <4>1. \/ <<c, u>> \in online'
            \/ pc[r] \in {"joined"} \cup PageStages
        BY <1>4, <2>1, <2>5, <3>1, EnterMoves
      <4>2. QED
        BY <2>1, <2>2, <2>3, <4>1 DEF JoinOk
    <3>2. CASE h # r
      <4>1. s = pc[r]
        BY <1>1, <1>4, <3>2, OthersStay
      <4>2. QED
        BY <2>1, <2>2, <2>3, <2>5, <4>1 DEF JoinOk
    <3>3. QED
      BY <3>1, <3>2
  <2>6. ASSUME s \in {"done"} \cup PageStages, NEW m \in DOMAIN rows,
               rows[m].conv = c, rows[m].number > v.upTo,
               m \in DOMAIN db.messages
        PROVE  /\ rows[m].by \in Req
               /\ \A q \in Req : rows[m].by = q => Catches(r, q)'
    <3>1. rows[m] = db.messages[m]
      BY <2>4, <2>6, MessagesKept
    <3>2. /\ pc[r] \in {"joined", "done"} \cup PageStages
          /\ pc[r] \in {"done"} \cup PageStages /\ v.upTo = got[r].upTo
      <4>1. CASE h # r
        BY <1>1, <1>4, <2>6, <4>1, OthersStay
      <4>2. CASE h = r
        <5>1. \/ pc[r] \in PageStages /\ v.upTo = got[r].upTo
              \/ c \in ConversationIds /\ v.upTo = db.conversations[c].last
          <6>1. Op(r) = "enter" /\ Handle(r) /\ s = pc'[r] /\ v = got'[r]
            BY <1>4, <2>1, <4>2
          <6>2. \/ pc[r] \in PageStages /\ v.upTo = got[r].upTo
                \/ /\ Conv(r) \in ConversationIds
                   /\ v.upTo = db.conversations[Conv(r)].last
            BY <2>6, <6>1, EnterMoves
          <6>3. QED
            BY <2>1, <2>2, <6>2
        <5>2. CASE c \in ConversationIds /\ v.upTo = db.conversations[c].last
          <6>1. db.conversations[c].last \in Nat
            BY <5>2, Lasts
          <6>2. db.messages[m].number \in 1 .. db.conversations[c].last
            BY <2>6, <3>1 DEF NumbersInv
          <6>3. QED
            BY <2>6, <3>1, <5>2, <6>1, <6>2
        <5>3. QED
          BY <5>1, <5>2
      <4>3. QED
        BY <4>1, <4>2
    <3>3. /\ <<c, u>> \in online /\ rows[m].by \in Req
          /\ \A q \in Req : rows[m].by = q => Catches(r, q)
      BY <2>1, <2>2, <2>6, <3>1, <3>2 DEF JoinOk
    <3>4. ASSUME NEW q \in Req, rows[m].by = q PROVE Catches(r, q)'
      <4>1. Op(q) = "send" /\ Conv(q) = c /\ pc[q] \in Stored
        BY <1>2, <2>6, <3>1, <3>4 DEF AuthorInv
      <4>2. QED
        BY <2>1, <3>3, <3>4, <4>1, CatchesStays
    <3>5. QED
      BY <3>3, <3>4
  <2>7. ASSUME NEW m \in DOMAIN rows, m \notin DOMAIN db.messages
        PROVE  /\ rows[m].by \in Req
               /\ \A q \in Req : rows[m].by = q => Catches(r, q)'
    <3>1. SaveMessage(h) /\ rows[m].by = h
      BY <2>4, <2>7, NewNumber
    <3>2. pc'[h] = "online"
      BY <1>1, <3>1, StepMoves DEF SaveMessage, Ends
    <3>3. QED
      BY <3>1, <3>2 DEF Catches
  <2>8. QED
    BY <1>1, <1>3, <2>1, <2>4, <2>5, <2>6, <2>7 DEF JoinOk
<1>5. QED
  BY <1>1, <1>2, <1>3, <1>4 DEF JoinInv

LEMMA JoinStill ==
  ASSUME DataInv, JoinInv, Still
  PROVE  JoinInv'
<1>1. /\ Req' = Req /\ plan' = plan /\ db' = db /\ past' = past
      /\ emitted' = emitted /\ online' = online
  BY DEF Still
<1>2. \A r \in Req : /\ Op(r)' = Op(r) /\ Conv(r)' = Conv(r) /\ User(r)' = User(r)
                     /\ Stays(r)' = Stays(r)
  BY <1>1 DEF Op, Conv, User, Stays
<1>3. AuthorInv'
  <2>1. \A q \in Req : pc[q] \in Stored => pc'[q] \in Stored
    BY DEF Still, Stored
  <2>2. QED
    BY <1>1, <1>2, <2>1 DEF JoinInv, AuthorInv
<1>4. ASSUME NEW r \in Req, NEW q \in Req, Catches(r, q) PROVE Catches(r, q)'
  <2>1. FindParticipant(db, Conv(r), User(r))' = FindParticipant(db, Conv(r), User(r))
    BY <1>1, <1>2 DEF FindParticipant
  <2>2. CASE pc'[q] = pc[q] /\ got'[q] = got[q]
    BY <1>1, <1>2, <1>4, <2>1, <2>2 DEF Catches
  <2>3. CASE pc'[q] = "failed"
    BY <2>3 DEF Catches
  <2>4. QED
    BY <2>2, <2>3 DEF Still
<1>5. ASSUME NEW r \in Req, Op(r) = "enter", Stays(r),
             NEW s, s = pc'[r], NEW v, v = got'[r]
      PROVE  JoinOk(r, s, v)'
  <2>1. CASE s = pc[r] /\ v = got[r]
    <3>1. JoinOk(r, s, v)
      BY <1>5, <2>1 DEF JoinInv
    <3>2. QED
      BY <1>1, <1>2, <1>4, <3>1 DEF JoinOk
  <2>2. CASE s = "failed"
    BY <2>2 DEF JoinOk, PageStages
  <2>3. QED
    BY <1>5, <2>1, <2>2 DEF Still
<1>6. QED
  BY <1>1, <1>2, <1>3, <1>5 DEF JoinInv

\* Who joins a room before reading its messages catches every message that the
\* first page was too early for, at every step of the reader and the sender.
THEOREM JoinInvariant == Spec => []JoinInv
<1>1. Init => JoinInv
  BY JoinStart
<1>2. DataInv /\ NumbersInv /\ ReadInv /\ SentInv /\ JoinInv /\ [Next]_marketVars => JoinInv'
  BY StillStep, JoinStill, JoinHandle
<1>3. QED
  BY <1>1, <1>2, DataInvariant, NumbersInvariant, ReadInvariant, SentInvariant, PTL DEF Spec

\* Every message arrives: by paging back without a gap, over the socket for
\* who has joined before, and at every participant's as one event, with one
\* push at most, whatever is sent, joined, left or blocked meanwhile.
THEOREM MessagesArrive == Spec => []EveryMessageArrives
<1>1. ASSUME DataInv, ReadInv PROVE MessagesComplete
  <2>1. ASSUME NEW r \in Req, Op(r) \in {"messages", "enter"}, Done(r),
               NEW seen, seen = got[r].seen
        PROVE  /\ \A i \in 1 .. Len(seen) - 1 : seen[i + 1] = seen[i] - 1
               /\ \A n \in Readable(Conv(r), got[r].leftAt) :
                    n <= got[r].upTo => n \in ToSet(seen)
    BY <1>1, <2>1 DEF ReadInv, ReadOk, Done, Paging, Unbroken
  <2>2. QED
    BY <2>1 DEF MessagesComplete
<1>2. ASSUME DataInv, ReadInv, JoinInv PROVE JoinThenReadMissesNothing
  <2>1. ASSUME NEW r \in Req, Op(r) = "enter", Done(r), got[r].leftAt = None,
               NEW m \in DOMAIN db.messages, NEW q, q = db.messages[m].by,
               db.messages[m].conv = Conv(r), q \in Req, Done(q),
               \A l \in Req : Op(l) = "leave" => User(l) # User(r),
               \A i \in FindParticipant(db, Conv(r), User(r)) : ~db.participants[i].blocking,
               FindParticipant(db, Conv(r), User(r)) # {},
               db.conversations[Conv(r)].by \in past[q] \cup {0}
        PROVE  \/ db.messages[m].number \in ToSet(got[r].seen)
               \/ [by |-> q, user |-> User(r), event |-> "newMessage"] \in emitted
    <3>1. PICK n, v : n = db.messages[m].number /\ v = got[r]
      OBVIOUS
    <3>2. ReadOk(r, "done", v)
      BY <1>2, <2>1, <3>1 DEF ReadInv, Paging, Done
    <3>3. n \in Nat /\ v.upTo \in Nat
      BY <1>2, <3>1, <3>2, Lasts DEF ReadOk, ReaderState
    <3>4. CASE n <= v.upTo
      <4>1. n \in Readable(Conv(r), None)
        BY <2>1, <3>1 DEF Readable
      <4>2. QED
        BY <2>1, <3>1, <3>2, <3>4, <4>1 DEF ReadOk
    <3>5. CASE n > v.upTo
      <4>1. JoinOk(r, "done", v)
        BY <1>2, <2>1, <3>1 DEF JoinInv, Stays, Done
      <4>2. Catches(r, q)
        BY <2>1, <3>1, <3>5, <4>1 DEF JoinOk
      <4>3. QED
        BY <2>1, <4>2 DEF Catches, Done
    <3>6. QED
      BY <3>3, <3>4, <3>5
  <2>2. QED
    BY <2>1, Zenon DEF JoinThenReadMissesNothing
<1>3. ASSUME DataInv, SentInv PROVE MessageReachesEveryone
  <2>1. ASSUME NEW r \in Req, Op(r) = "send", Done(r)
        PROVE  SentOk(r, "done", got[r])
    BY <1>3, <2>1 DEF SentInv, Done
  <2>2. ASSUME NEW r \in Req, Op(r) = "send", Done(r), NEW u \in UserIds
        PROVE  LET told == {e \in emitted : e.by = r /\ e.user = u}
               IN /\ Cardinality(told) <= 1
                  /\ Cardinality(Pushes(r, u)) <= 1
                  /\ Pushes(r, u) # {} =>
                       /\ told = {[by |-> r, user |-> u, event |-> "chatRoomUpdated"]}
                       /\ \A i \in FindParticipant(db, Conv(r), u) : ~db.participants[i].muted
    <3>1. PICK told : told = {e \in emitted : e.by = r /\ e.user = u}
      OBVIOUS
    <3>2. \A e, f \in told : e = f
      BY <2>1, <2>2, <3>1 DEF SentOk
    <3>3. \A i \in Pushes(r, u) :
            i \in DOMAIN queued /\ queued[i].by = r /\ queued[i].user = u
      BY DEF Pushes
    <3>4. \A i, j \in Pushes(r, u) : i = j
      BY <1>3, <2>2, <3>3 DEF SentInv, PushOnce
    <3>5. Cardinality(told) <= 1 /\ Cardinality(Pushes(r, u)) <= 1
      BY <3>2, <3>4, AtMostOne
    <3>6. ASSUME Pushes(r, u) # {}
          PROVE  /\ told = {[by |-> r, user |-> u, event |-> "chatRoomUpdated"]}
                 /\ \A i \in FindParticipant(db, Conv(r), u) : ~db.participants[i].muted
      <4>1. Pushed(r, u)
        BY <3>3, <3>6 DEF Pushed
      <4>2. PICK e : e = [by |-> r, user |-> u, event |-> "chatRoomUpdated"]
        OBVIOUS
      <4>3. /\ e \in emitted
            /\ \A i \in FindParticipant(db, Conv(r), u) : ~db.participants[i].muted
        BY <2>1, <2>2, <4>1, <4>2 DEF SentOk
      <4>4. e \in told
        BY <3>1, <4>2, <4>3
      <4>5. QED
        BY <3>2, <4>2, <4>3, <4>4
    <3>7. QED
      BY <3>1, <3>5, <3>6
  <2>3. ASSUME NEW r \in Req, Op(r) = "send", Done(r), NEW i \in LiveRows(db.participants),
               db.participants[i].conv = Conv(r), ~db.participants[i].blocking,
               db.participants[i].user # User(r),
               db.conversations[Conv(r)].by \in past[r] \cup {0}
        PROVE  {e \in emitted : e.by = r /\ e.user = db.participants[i].user} # {}
    <3>1. PICK e \in emitted : e.by = r /\ e.user = db.participants[i].user
      BY <2>1, <2>3 DEF SentOk
    <3>2. QED
      BY <3>1
  <2>4. QED
    BY <2>2, <2>3 DEF MessageReachesEveryone
<1>4. DataInv /\ ReadInv /\ SentInv /\ JoinInv => EveryMessageArrives
  BY <1>1, <1>2, <1>3 DEF EveryMessageArrives
<1>5. QED
  BY <1>4, DataInvariant, ReadInvariant, SentInvariant, JoinInvariant, PTL

-----------------------------------------------------------------------------
(* Rows in order, ranks and pages by offset.                               *)

\* In a row without ties, a row has as many before it as stand ahead of it.
LEMMA SortedRanks ==
  ASSUME NEW r, NEW R, IsFiniteSet(R), NEW s \in Orders(r, R),
         \A a, b \in R : a # b => Before(r, a, b) \/ Before(r, b, a),
         \A a, b \in R : ~(Before(r, a, b) /\ Before(r, b, a))
  PROVE  /\ s \in Seq(R) /\ Len(s) = Cardinality(R) /\ Cardinality(R) \in Nat
         /\ \A j, k \in DOMAIN s : s[j] = s[k] => j = k
         /\ \A a \in R : \E k \in DOMAIN s : s[k] = a
         /\ \A j, k \in DOMAIN s : j < k <=> Before(r, s[j], s[k])
<1>1. PICK n : n = Cardinality(R)
  OBVIOUS
<1>2. n \in Nat
  BY <1>1, FS_CardinalityType
<1>3. /\ s \in [1 .. n -> R]
      /\ \A i, j \in 1 .. n : i # j => s[i] # s[j]
      /\ \A i, j \in 1 .. n : i < j => ~Before(r, s[j], s[i])
  BY <1>1 DEF Orders, SetToSeqs
<1>4. s \in Seq(R) /\ Len(s) = n /\ DOMAIN s = 1 .. n
  <2>1. s = [i \in 1 .. n |-> s[i]] /\ \A i \in 1 .. n : s[i] \in R
    BY <1>3
  <2>2. QED
    BY <1>2, <1>3, <2>1, FunctionIsSeq
<1>5. s \in Surjection(1 .. n, R)
  <2>1. IsFiniteSet(1 .. n) /\ Cardinality(1 .. n) = n
    BY <1>2, FS_Interval
  <2>2. s \in Injection(1 .. n, R)
    BY <1>3 DEF Injection, IsInjective
  <2>3. QED
    BY <1>1, <2>1, <2>2, FS_Injection
<1>6. \A a \in R : \E k \in DOMAIN s : s[k] = a
  BY <1>4, <1>5 DEF Surjection
<1>7. ASSUME NEW j \in 1 .. n, NEW k \in 1 .. n
      PROVE  j < k <=> Before(r, s[j], s[k])
  <2>1. s[j] \in R /\ s[k] \in R
    BY <1>3
  <2>2. CASE j < k
    BY <1>3, <2>1, <2>2
  <2>3. CASE k <= j
    BY <1>3, <2>1, <2>3
  <2>4. QED
    BY <2>2, <2>3
<1>8. QED
  BY <1>1, <1>2, <1>3, <1>4, <1>6, <1>7

\* The page that a query with an offset gives.
PageOf(rows, offset, size) == Slice(Window(rows, offset, size + 1), size)

\* A page by offset: the rows from offset + 1 on, as many as there are.
LEMMA PageSlice ==
  ASSUME NEW R, NEW s \in Seq(R), NEW offset \in Nat, NEW size \in Nat \ {0},
         NEW slice, slice = PageOf(s, offset, size)
  PROVE  /\ slice.contents \in Seq(R)
         /\ \A i \in DOMAIN slice.contents :
              /\ i \in 1 .. size /\ offset + i \in 1 .. Len(s)
              /\ slice.contents[i] = s[offset + i]
         /\ \A k \in 1 .. Len(s) : offset < k /\ k <= offset + size =>
              k - offset \in DOMAIN slice.contents
         /\ ~slice.hasNext => Len(s) <= offset + size
<1>1. offset \in Nat /\ size \in Nat
  OBVIOUS
<1>2. PICK m : m = Min({offset + (size + 1), Len(s)})
  OBVIOUS
<1>3. m = (IF offset + (size + 1) <= Len(s) THEN offset + (size + 1) ELSE Len(s))
      /\ m \in Nat /\ Len(s) \in Nat
  <2>1. offset + (size + 1) \in Nat /\ Len(s) \in Nat
    BY <1>1
  <2>2. QED
    BY <1>2, <2>1, MinOfTwo
<1>4. PICK w : w = SubSeq(s, offset + 1, m)
  OBVIOUS
<1>5. /\ w \in Seq(R) /\ Len(w) = (IF offset + 1 <= m THEN m - offset ELSE 0)
      /\ \A i \in 1 .. Len(w) : w[i] = s[offset + i]
  <2>1. \A i \in offset + 1 .. m : s[i] \in R
    BY <1>1, <1>3
  <2>2. w \in Seq(R) /\ Len(w) = (IF offset + 1 <= m THEN m - (offset + 1) + 1 ELSE 0)
    BY <1>1, <1>3, <1>4, <2>1, SubSeqProperties
  <2>3. \A i \in 1 .. m - (offset + 1) + 1 : w[i] = s[(offset + 1) + i - 1]
    BY <1>1, <1>3, <1>4, <2>1, SubSeqProperties
  <2>4. Len(w) = (IF offset + 1 <= m THEN m - offset ELSE 0)
    BY <1>1, <1>3, <2>2
  <2>5. ASSUME NEW i \in 1 .. Len(w) PROVE w[i] = s[offset + i]
    <3>1. offset + 1 <= m
      BY <1>1, <1>3, <2>4
    <3>2. i \in 1 .. m - (offset + 1) + 1 /\ i \in Nat
      BY <1>1, <1>3, <2>2, <3>1
    <3>3. (offset + 1) + i - 1 = offset + i
      BY <1>1, <3>2
    <3>4. QED
      BY <2>3, <3>2, <3>3
  <2>6. QED
    BY <2>2, <2>4, <2>5
<1>6. PICK z : z = Min({size, Len(w)})
  OBVIOUS
<1>7. z = (IF size <= Len(w) THEN size ELSE Len(w)) /\ z \in Nat /\ z <= Len(w)
  <2>1. Len(w) \in Nat
    BY <1>5
  <2>2. QED
    BY <1>6, <2>1, MinOfTwo
<1>8. PICK c : c = SubSeq(w, 1, z)
  OBVIOUS
<1>9. c \in Seq(R) /\ Len(c) = z /\ \A i \in 1 .. z : c[i] = w[i]
  BY <1>5, <1>7, <1>8, PrefixRows
<1>10. slice = [contents |-> c, hasNext |-> Len(w) > size]
  BY <1>2, <1>4, <1>6, <1>8 DEF PageOf, Slice, Window
<1>11. slice.contents = c /\ slice.hasNext = (Len(w) > size) /\ DOMAIN c = 1 .. z
  BY <1>9, <1>10
<1>12. PICK lw, ls : lw = Len(w) /\ ls = Len(s)
  OBVIOUS
<1>13. /\ lw \in Nat /\ ls \in Nat /\ m \in Nat /\ z \in Nat
       /\ m = (IF offset + (size + 1) <= ls THEN offset + (size + 1) ELSE ls)
       /\ lw = (IF offset + 1 <= m THEN m - offset ELSE 0)
       /\ z = (IF size <= lw THEN size ELSE lw)
  BY <1>3, <1>5, <1>7, <1>12
<1>14. /\ offset + 1 <= ls => m = offset + lw /\ lw <= size + 1 /\ m <= ls
       /\ offset + 1 > ls => lw = 0
  <2>1. CASE offset + (size + 1) <= ls
    BY <1>1, <1>13, <2>1
  <2>2. CASE offset + (size + 1) > ls /\ offset + 1 <= ls
    BY <1>1, <1>13, <2>2
  <2>3. CASE offset + 1 > ls
    BY <1>1, <1>13, <2>3
  <2>4. QED
    BY <1>1, <1>13, <2>1, <2>2, <2>3
<1>15. z <= size /\ z <= lw
  BY <1>13
<1>16. ASSUME NEW i \in 1 .. z
       PROVE  i \in 1 .. size /\ offset + i \in 1 .. ls /\ c[i] = s[offset + i]
  <2>1. i \in Nat /\ i >= 1 /\ i <= lw /\ i <= size /\ i \in 1 .. lw
    BY <1>13, <1>15
  <2>2. offset + 1 <= ls
    BY <1>1, <1>13, <1>14, <2>1
  <2>3. offset + i \in 1 .. ls
    BY <1>1, <1>13, <1>14, <2>1, <2>2
  <2>4. c[i] = w[i] /\ w[i] = s[offset + i]
    BY <1>5, <1>9, <1>12, <2>1
  <2>5. QED
    BY <2>1, <2>3, <2>4
<1>17. ASSUME NEW k \in 1 .. ls, offset < k, k <= offset + size
       PROVE  k - offset \in 1 .. z
  <2>1. k \in Nat /\ k - offset \in Nat /\ k - offset >= 1 /\ k - offset <= size
    BY <1>1, <1>17
  <2>2. offset + 1 <= ls
    BY <1>1, <1>13, <1>17
  <2>3. k - offset <= lw
    <3>1. CASE offset + (size + 1) <= ls
      BY <1>1, <1>13, <1>17, <3>1
    <3>2. CASE offset + (size + 1) > ls
      BY <1>1, <1>13, <1>17, <2>2, <3>2
    <3>3. QED
      BY <1>1, <1>13, <3>1, <3>2
  <2>4. k - offset <= z
    BY <1>13, <2>1, <2>3
  <2>5. QED
    BY <1>13, <2>1, <2>4
<1>18. ~(lw > size) => ls <= offset + size
  <2>1. CASE offset + (size + 1) <= ls
    BY <1>1, <1>13, <2>1
  <2>2. CASE offset + (size + 1) > ls
    BY <1>1, <1>13, <2>2
  <2>3. QED
    BY <1>1, <1>13, <2>1, <2>2
<1>19. QED
  BY <1>1, <1>9, <1>11, <1>12, <1>16, <1>17, <1>18

\* No query is asked twice.
Once(todo) == \A y : \A j, k \in DOMAIN todo : y \in todo[j] /\ y \in todo[k] => j = k

\* Taking a query from the head of what is left repeats none.
LEMMA NextOnce ==
  ASSUME NEW todo \in Seq(SUBSET QueryNames), todo # << >>, Once(todo),
         NEW query \in Head(todo)
  PROVE  /\ Once(NextTodo(todo, query)) /\ ~Ahead(NextTodo(todo, query), query)
         /\ Head(todo) = {query} => NextTodo(todo, query) = Tail(todo)
<1>1. PICK S : S = SUBSET QueryNames
  OBVIOUS
<1>2. PICK rest, tail, next :
        /\ rest = Head(todo) \ {query} /\ tail = Tail(todo)
        /\ next = NextTodo(todo, query)
  OBVIOUS
<1>3. /\ todo \in Seq(S) /\ Len(todo) \in Nat /\ Len(todo) >= 1
      /\ DOMAIN todo = 1 .. Len(todo) /\ Head(todo) = todo[1]
  BY <1>1
<1>4. /\ tail \in Seq(S) /\ Len(tail) = Len(todo) - 1
      /\ \A k \in 1 .. Len(tail) : tail[k] = todo[k + 1]
  BY <1>2, <1>3
<1>5. rest \in S
  BY <1>1, <1>2, <1>3
<1>6. CASE rest = {}
  <2>1. next = << >> \o tail
    BY <1>2, <1>6 DEF NextTodo
  <2>2. next = tail /\ DOMAIN next = 1 .. Len(tail)
    BY <1>4, <2>1
  <2>3. ASSUME NEW y, NEW j \in DOMAIN next, NEW k \in DOMAIN next,
               y \in next[j], y \in next[k]
        PROVE  j = k /\ y # query
    <3>1. /\ j \in 1 .. Len(tail) /\ j + 1 \in 1 .. Len(todo)
          /\ k \in 1 .. Len(tail) /\ k + 1 \in 1 .. Len(todo)
      BY <1>3, <1>4, <2>2
    <3>2. y \in todo[j + 1] /\ y \in todo[k + 1] /\ query \in todo[1]
      BY <1>3, <1>4, <2>2, <2>3, <3>1
    <3>3. j + 1 = k + 1
      BY <1>3, <3>1, <3>2 DEF Once
    <3>4. y = query => j + 1 = 1
      BY <1>3, <3>1, <3>2 DEF Once
    <3>5. QED
      BY <3>1, <3>3, <3>4
  <2>4. QED
    BY <1>2, <2>2, <2>3 DEF Once, Ahead
<1>7. CASE rest # {}
  <2>1. next = <<rest>> \o tail
    BY <1>2, <1>7 DEF NextTodo
  <2>2. /\ next \in Seq(S) /\ Len(next) = Len(tail) + 1 /\ next[1] = rest
        /\ \A k \in 2 .. Len(next) : next[k] = tail[k - 1]
    BY <1>4, <1>5, <2>1, PushedFront
  <2>3. ASSUME NEW k \in 2 .. Len(todo) PROVE next[k] = todo[k]
    <3>1. k \in 2 .. Len(next) /\ k - 1 \in 1 .. Len(tail) /\ (k - 1) + 1 = k
      BY <1>3, <1>4, <2>2, <2>3
    <3>2. QED
      BY <1>4, <2>2, <3>1
  <2>4. /\ DOMAIN next = DOMAIN todo /\ next[1] = todo[1] \ {query}
        /\ \A k \in DOMAIN todo : k # 1 => next[k] = todo[k]
    BY <1>2, <1>3, <1>4, <2>2, <2>3
  <2>5. \A k \in DOMAIN todo : next[k] \subseteq todo[k]
    BY <2>4
  <2>6. ASSUME NEW k \in DOMAIN todo, query \in next[k] PROVE FALSE
    <3>1. k = 1
      BY <1>3, <2>5, <2>6 DEF Once
    <3>2. QED
      BY <2>4, <2>6, <3>1
  <2>7. Head(todo) # {query}
    BY <1>2, <1>7
  <2>8. QED
    BY <1>2, <2>4, <2>5, <2>6, <2>7 DEF Once, Ahead
<1>8. QED
  BY <1>2, <1>6, <1>7

\* How many numbers there are up to n.
LEMMA CountUpTo ==
  ASSUME NEW n \in Nat
  PROVE  IsFiniteSet(1 .. n) /\ Cardinality(1 .. n) = n
<1>1. 1 \in Int /\ n \in Int
  OBVIOUS
<1>2. IsFiniteSet(1 .. n) /\ Cardinality(1 .. n) = IF 1 > n THEN 0 ELSE n - 1 + 1
  BY <1>1, FS_Interval
<1>3. QED
  BY <1>2

\* What is collected without repetition.
LEMMA OnceEach ==
  ASSUME NEW R, NEW s \in Seq(R), \A j, k \in DOMAIN s : s[j] = s[k] => j = k
  PROVE  NoRepeats(s)
<1>1. PICK n, T : n = Len(s) /\ T = ToSet(s)
  OBVIOUS
<1>2. n \in Nat /\ DOMAIN s = 1 .. n
  BY <1>1
<1>3. T = {s[k] : k \in 1 .. n}
  BY <1>1, <1>2 DEF ToSet
<1>4. IsFiniteSet(1 .. n) /\ Cardinality(1 .. n) = n
  BY <1>2, CountUpTo
<1>5. PICK f : f = [k \in 1 .. n |-> s[k]]
  OBVIOUS
<1>6. f \in Surjection(1 .. n, T)
  BY <1>3, <1>5 DEF Surjection
<1>7. f \in Injection(1 .. n, T)
  BY <1>2, <1>3, <1>5 DEF Injection, IsInjective
<1>8. Cardinality(T) = n
  BY <1>4, <1>6, <1>7, FS_Surjection
<1>9. QED
  BY <1>1, <1>8 DEF NoRepeats

\* Nothing is left out of what is found.
LEMMA AllFound ==
  ASSUME NEW R, NEW ids \in Seq(R), NEW found, \A k \in DOMAIN ids : ids[k] \in found
  PROVE  Found(ids, found) = ids
<1>1. PICK kept : kept = {k \in DOMAIN ids : ids[k] \in found}
  OBVIOUS
<1>2. kept = 1 .. Len(ids) /\ Len(ids) \in Nat /\ DOMAIN ids = 1 .. Len(ids)
  BY <1>1
<1>3. Cardinality(kept) = Len(ids)
  <2>1. Cardinality(1 .. Len(ids)) = Len(ids)
    BY <1>2, CountUpTo
  <2>2. QED
    BY <1>2, <2>1
<1>4. ASSUME NEW k \in kept PROVE Cardinality({j \in kept : j <= k}) = k
  <2>1. {j \in kept : j <= k} = 1 .. k /\ k \in Nat
    BY <1>2
  <2>2. Cardinality(1 .. k) = k
    BY <2>1, CountUpTo
  <2>3. QED
    BY <2>1, <2>2
<1>5. ASSUME NEW n \in 1 .. Len(ids)
      PROVE  (CHOOSE k \in kept : Cardinality({j \in kept : j <= k}) = n) = n
  BY <1>2, <1>4
<1>6. Found(ids, found)
        = [n \in 1 .. Len(ids) |->
             ids[CHOOSE k \in kept : Cardinality({j \in kept : j <= k}) = n]]
  BY <1>1, <1>3 DEF Found
<1>7. Found(ids, found) = [n \in 1 .. Len(ids) |-> ids[n]]
  BY <1>5, <1>6
<1>8. ids = [n \in 1 .. Len(ids) |-> ids[n]]
  BY <1>2
<1>9. QED
  BY <1>7, <1>8

-----------------------------------------------------------------------------
(* The lists.                                                              *)

\* What orders the entry i of the list that r reads ...
At(r, i) == CASE Op(r) \in OfPosts       -> db.posts[i].at
              [] Op(r) = "purchases"     -> db.progress[i].at
              [] Op(r) = "notifications" -> db.notifications[i].at
              [] Op(r) = "conversations" -> db.conversations[i].sentAt
              [] OTHER                   -> i

\* ... so that i stands before j ...
InFront(r, i, j) == Before(r, [id |-> i, at |-> At(r, i)], [id |-> j, at |-> At(r, j)])

\* ... and so many before i, among those in the set ids.
Rank(r, ids, i) == Cardinality({j \in ids : InFront(r, j, i)})

\* Rows that agree on all this.
Ordered(r, R) ==
  /\ \A a, b \in R : a.id = b.id => a = b
  /\ \A a, b \in R : Before(r, a, b) <=> InFront(r, a.id, b.id)
  /\ \A a, b \in R : a # b => InFront(r, a.id, b.id) \/ InFront(r, b.id, a.id)
  /\ \A a, b \in R : ~(InFront(r, a.id, b.id) /\ InFront(r, b.id, a.id))

\* The ids of the rows of a page.
LEMMA IdsOfPage ==
  ASSUME NEW R, NEW c \in Seq(R), NEW I, \A a \in R : a.id \in I,
         NEW ids, ids = [k \in DOMAIN c |-> c[k].id]
  PROVE  ids \in Seq(I) /\ DOMAIN ids = DOMAIN c /\ \A k \in DOMAIN c : ids[k] = c[k].id
<1>1. PICK n \in Nat : n = Len(c) /\ DOMAIN c = 1 .. n /\ \A k \in 1 .. n : c[k] \in R
  OBVIOUS
<1>2. DOMAIN ids = 1 .. n /\ \A k \in 1 .. n : ids[k] = c[k].id /\ ids[k] \in I
  BY <1>1
<1>3. ids \in [1 .. n -> I]
  BY <1>1, <1>2
<1>4. QED
  BY <1>1, <1>2, <1>3

IdsOf(R)   == {a.id : a \in R}

\* The ids of the rows of a page, in its order.
PageIds(c) == [k \in DOMAIN c |-> c[k].id]

\* The page holds the entries of those ranks, each once.
OnPage(r, I, ids, hasNext, offset, size) ==
  /\ ids \in Seq(I)
  /\ \A j, k \in DOMAIN ids : ids[j] = ids[k] => j = k
  /\ \A i \in I : Rank(r, I, i) \in Nat
  /\ \A k \in DOMAIN ids : /\ Rank(r, I, ids[k]) >= offset
                           /\ Rank(r, I, ids[k]) < offset + size
  /\ \A i \in I : Rank(r, I, i) >= offset /\ Rank(r, I, i) < offset + size =>
       \E k \in DOMAIN ids : ids[k] = i
  /\ ~hasNext => \A i \in I : Rank(r, I, i) < offset + size

\* A page by offset is such a page.
LEMMA PageRanks ==
  ASSUME NEW r, NEW R, Ordered(r, R), NEW I, I = IdsOf(R), IsFiniteSet(I),
         NEW s \in Orders(r, R), NEW offset \in Nat, NEW size \in Nat \ {0},
         NEW slice, slice = PageOf(s, offset, size),
         NEW ids, ids = PageIds(slice.contents)
  PROVE  OnPage(r, I, ids, slice.hasNext, offset, size)
<1>1. IsFiniteSet(R)
  <2>1. PICK f : f = [a \in R |-> a.id]
    OBVIOUS
  <2>2. f \in Injection(R, I)
    BY <2>1 DEF Injection, IsInjective, Ordered, IdsOf
  <2>3. QED
    BY <2>2, FS_Injection
<1>2. /\ s \in Seq(R)
      /\ \A j, k \in DOMAIN s : s[j] = s[k] => j = k
      /\ \A a \in R : \E k \in DOMAIN s : s[k] = a
      /\ \A j, k \in DOMAIN s : j < k <=> Before(r, s[j], s[k])
  <2>1. \A a, b \in R : a # b => Before(r, a, b) \/ Before(r, b, a)
    BY DEF Ordered
  <2>2. \A a, b \in R : ~(Before(r, a, b) /\ Before(r, b, a))
    BY DEF Ordered
  <2>3. QED
    BY <1>1, <2>1, <2>2, SortedRanks
<1>3. DOMAIN s = 1 .. Len(s) /\ Len(s) \in Nat /\ \A k \in DOMAIN s : s[k] \in R
  BY <1>2
<1>4. ASSUME NEW k \in DOMAIN s PROVE Rank(r, I, s[k].id) = k - 1
  <2>1. PICK F : F = {j \in I : InFront(r, j, s[k].id)}
    OBVIOUS
  <2>2. PICK f : f = [j \in 1 .. k - 1 |-> s[j].id]
    OBVIOUS
  <2>3. k \in Nat /\ k - 1 \in Nat /\ \A j \in 1 .. k - 1 : j \in DOMAIN s /\ j < k
    BY <1>3
  <2>4. ASSUME NEW j \in 1 .. k - 1 PROVE f[j] \in F
    BY <1>2, <1>3, <2>1, <2>2, <2>3 DEF Ordered, IdsOf
  <2>5. ASSUME NEW i \in F PROVE \E j \in 1 .. k - 1 : f[j] = i
    <3>1. PICK a \in R : a.id = i
      BY <2>1 DEF IdsOf
    <3>2. PICK j \in DOMAIN s : s[j] = a
      BY <1>2
    <3>3. Before(r, s[j], s[k])
      BY <1>3, <2>1, <3>1, <3>2 DEF Ordered
    <3>4. j < k
      BY <1>2, <3>3
    <3>5. j \in 1 .. k - 1
      BY <1>3, <3>4
    <3>6. QED
      BY <2>2, <3>1, <3>2, <3>5
  <2>6. f \in [1 .. k - 1 -> F]
    BY <2>2, <2>4
  <2>7. f \in Surjection(1 .. k - 1, F)
    BY <2>5, <2>6 DEF Surjection
  <2>8. ASSUME NEW i \in 1 .. k - 1, NEW j \in 1 .. k - 1, f[i] = f[j] PROVE i = j
    <3>1. s[i].id = s[j].id /\ s[i] \in R /\ s[j] \in R
      BY <1>3, <2>2, <2>3, <2>8
    <3>2. s[i] = s[j]
      BY <3>1 DEF Ordered
    <3>3. QED
      BY <1>2, <2>3, <3>2
  <2>9. f \in Injection(1 .. k - 1, F)
    BY <2>6, <2>8 DEF Injection, IsInjective
  <2>10. IsFiniteSet(1 .. k - 1) /\ Cardinality(1 .. k - 1) = k - 1
    BY <2>3, CountUpTo
  <2>11. Cardinality(F) = k - 1
    BY <2>7, <2>9, <2>10, FS_Surjection
  <2>12. QED
    BY <2>1, <2>11 DEF Rank
<1>5. PICK c : c = slice.contents
  OBVIOUS
<1>6. /\ offset \in Nat /\ c \in Seq(R)
      /\ \A i \in DOMAIN c :
           /\ i \in 1 .. size /\ offset + i \in 1 .. Len(s)
           /\ c[i] = s[offset + i]
      /\ \A k \in 1 .. Len(s) : offset < k /\ k <= offset + size =>
           k - offset \in DOMAIN c
      /\ ~slice.hasNext => Len(s) <= offset + size
  <2>1. s \in Seq(R)
    BY <1>2
  <2>2. /\ slice.contents \in Seq(R)
        /\ \A i \in DOMAIN slice.contents :
             /\ i \in 1 .. size /\ offset + i \in 1 .. Len(s)
             /\ slice.contents[i] = s[offset + i]
        /\ \A k \in 1 .. Len(s) : offset < k /\ k <= offset + size =>
             k - offset \in DOMAIN slice.contents
        /\ ~slice.hasNext => Len(s) <= offset + size
    BY <2>1, PageSlice
  <2>3. QED
    BY <1>5, <2>2
<1>7. ids \in Seq(I) /\ DOMAIN ids = DOMAIN c /\ \A k \in DOMAIN c : ids[k] = c[k].id
  <2>1. ids = [k \in DOMAIN c |-> c[k].id]
    BY <1>5 DEF PageIds
  <2>2. \A a \in R : a.id \in I
    BY DEF IdsOf
  <2>3. QED
    BY <1>6, <2>1, <2>2, IdsOfPage
<1>8. ASSUME NEW k \in DOMAIN c
      PROVE  /\ k \in 1 .. size /\ offset + k \in DOMAIN s
             /\ ids[k] = s[offset + k].id /\ Rank(r, I, ids[k]) = (offset + k) - 1
  BY <1>3, <1>4, <1>6, <1>7
<1>9. ASSUME NEW j \in DOMAIN ids, NEW k \in DOMAIN ids, ids[j] = ids[k] PROVE j = k
  <2>1. (offset + j) - 1 = (offset + k) - 1 /\ j \in Nat /\ k \in Nat
    <3>1. j \in DOMAIN c /\ k \in DOMAIN c
      BY <1>7
    <3>2. /\ Rank(r, I, ids[j]) = (offset + j) - 1 /\ j \in 1 .. size
          /\ Rank(r, I, ids[k]) = (offset + k) - 1 /\ k \in 1 .. size
      BY <1>8, <3>1
    <3>3. QED
      BY <1>9, <3>2
  <2>2. QED
    BY <1>6, <2>1
<1>10. ASSUME NEW i \in I
       PROVE  \E k \in DOMAIN s : s[k].id = i /\ Rank(r, I, i) = k - 1
  <2>1. PICK a \in R : a.id = i
    BY DEF IdsOf
  <2>2. PICK k \in DOMAIN s : s[k] = a
    BY <1>2
  <2>3. Rank(r, I, s[k].id) = k - 1
    BY <1>4
  <2>4. QED
    BY <2>1, <2>2, <2>3
<1>11. ASSUME NEW i \in I PROVE Rank(r, I, i) \in Nat
  BY <1>3, <1>10
<1>12. ASSUME NEW k \in DOMAIN ids
       PROVE  Rank(r, I, ids[k]) >= offset /\ Rank(r, I, ids[k]) < offset + size
  <2>1. k \in 1 .. size /\ Rank(r, I, ids[k]) = (offset + k) - 1
    BY <1>7, <1>8
  <2>2. QED
    BY <1>6, <2>1
<1>13. ASSUME NEW i \in I, Rank(r, I, i) >= offset, Rank(r, I, i) < offset + size
       PROVE  \E k \in DOMAIN ids : ids[k] = i
  <2>1. PICK k \in DOMAIN s : s[k].id = i /\ Rank(r, I, i) = k - 1
    BY <1>10
  <2>2. k \in 1 .. Len(s) /\ offset < k /\ k <= offset + size
    BY <1>3, <1>6, <1>13, <2>1
  <2>3. k - offset \in DOMAIN c /\ offset + (k - offset) = k
    BY <1>3, <1>6, <2>2
  <2>4. ids[k - offset] = s[offset + (k - offset)].id
    BY <1>8, <2>3
  <2>5. QED
    BY <1>7, <2>1, <2>3, <2>4
<1>14. ASSUME ~slice.hasNext, NEW i \in I PROVE Rank(r, I, i) < offset + size
  <2>1. PICK k \in DOMAIN s : s[k].id = i /\ Rank(r, I, i) = k - 1
    BY <1>10
  <2>2. k \in Nat /\ k <= Len(s) /\ Len(s) <= offset + size
    BY <1>3, <1>6, <1>14, <2>1
  <2>3. QED
    BY <1>3, <1>6, <2>1, <2>2
<1>15. QED
  BY <1>6, <1>7, <1>9, <1>11, <1>12, <1>13, <1>14 DEF OnPage

\* The entry i is in the list of r, if the filter is kept.
InList(r, kept, i) ==
  CASE Op(r) = "list" ->
         /\ i \in PostIds /\ Shown(i) /\ db.posts[i].region = plan[r].region
         /\ db.posts[i].user \notin kept
    [] Op(r) = "search" ->
         /\ i \in PostIds /\ Shown(i) /\ db.posts[i].region = plan[r].region
         /\ db.posts[i].user \notin kept /\ Matches(r, db.posts[i])
    [] Op(r) = "mySales" ->
         /\ FindPost(db, i) /\ db.posts[i].user = User(r)
         /\ db.posts[i].status \in Statuses(plan[r].filter)
         /\ plan[r].filter = "HIDDEN" => db.posts[i].hidden
    [] Op(r) = "userSales" ->
         /\ Shown(i) /\ db.posts[i].user = plan[r].seller
         /\ db.posts[i].status \in Statuses(plan[r].filter)
    [] Op(r) = "myLikes" ->
         i \in PostIds /\ Shown(i) /\ FindLike(db, i, User(r)) # {}
    [] Op(r) = "purchases" ->
         /\ i \in LiveRows(db.progress) /\ db.progress[i].buyer = User(r)
         /\ db.progress[i].status = "COMPLETED"
    [] Op(r) = "universities" ->
         /\ i \in plan[r].among
         /\ \E p \in PostIds : /\ Shown(p) /\ db.posts[p].region = kept
                               /\ db.users[db.posts[p].user].university = i
    [] Op(r) = "conversations" ->
         \E k \in ActiveParticipants(db) :
           /\ db.participants[k].user = User(r) /\ db.participants[k].conv = i
           /\ plan[r].post \in {None, db.conversations[i].post}
    [] Op(r) = "notifications" -> i \in Owned(User(r))

\* Every post of S has a row of the list, and every row is of a post of S.
LEMMA ThumbnailRows ==
  ASSUME NEW S
  PROVE  /\ \A w \in WithThumbnails(S) :
              /\ w.id \in S /\ w.at = db.posts[w.id].at
              /\ w.join \in OrNone(Thumbnails(db, w.id))
              /\ w = [id |-> w.id, at |-> w.at, join |-> w.join]
         /\ \A p \in S : \E w \in WithThumbnails(S) : w.id = p
<1>1. ASSUME NEW w \in WithThumbnails(S)
      PROVE  /\ w.id \in S /\ w.at = db.posts[w.id].at
             /\ w.join \in OrNone(Thumbnails(db, w.id))
             /\ w = [id |-> w.id, at |-> w.at, join |-> w.join]
  <2>1. PICK p \in S : \E i \in OrNone(Thumbnails(db, p)) :
          w = [id |-> p, at |-> db.posts[p].at, join |-> i]
    BY DEF WithThumbnails
  <2>2. PICK i \in OrNone(Thumbnails(db, p)) :
          w = [id |-> p, at |-> db.posts[p].at, join |-> i]
    BY <2>1
  <2>3. w.id = p /\ w.at = db.posts[p].at /\ w.join = i
    BY <2>2
  <2>4. QED
    BY <2>2, <2>3
<1>2. ASSUME NEW p \in S PROVE \E w \in WithThumbnails(S) : w.id = p
  <2>1. PICK i : i \in OrNone(Thumbnails(db, p))
    BY DEF OrNone
  <2>2. PICK w : w = [id |-> p, at |-> db.posts[p].at, join |-> i]
    OBVIOUS
  <2>3. w \in WithThumbnails(S) /\ w.id = p
    BY <2>1, <2>2 DEF WithThumbnails
  <2>4. QED
    BY <2>3
<1>3. QED
  BY <1>1, <1>2

\* The conversations that r lists, and the rows of one of them.
Talks(r) ==
  {db.participants[i].conv : i \in {k \in ActiveParticipants(db) :
                  /\ db.participants[k].user = User(r)
                  /\ plan[r].post \in
                       {None, db.conversations[db.participants[k].conv].post}}}

\* The rows of the conversation's other participants, and those it has in the list.
Partners(r, c) == {k \in LiveRows(db.participants) :
                    db.participants[k].conv = c /\ db.participants[k].user # User(r)}

TalkRows(r, c) ==
  {[id |-> c, at |-> db.conversations[c].sentAt, join |-> <<i, j>>] :
     i \in OrNone(Thumbnails(db, db.conversations[c].post)), j \in OrNone(Partners(r, c))}

\* What a join of two tables holds.
LEMMA JoinedRows ==
  ASSUME NEW A, NEW B, NEW c, NEW at, NEW x
  PROVE  x \in {[id |-> c, at |-> at, join |-> <<t, j>>] : t \in A, j \in B}
           <=> \E t \in A, j \in B : x = [id |-> c, at |-> at, join |-> <<t, j>>]
OBVIOUS

\* Every conversation of the caller has a row, and every row is of one.
LEMMA ConversationRows ==
  ASSUME NEW r
  PROVE  /\ \A row \in MyConversations(r) : \E c \in Talks(r) : row \in TalkRows(r, c)
         /\ \A c \in Talks(r) :
              /\ \A row : row \in TalkRows(r, c) <=>
                   \E t \in OrNone(Thumbnails(db, db.conversations[c].post)),
                      j \in OrNone(Partners(r, c)) :
                     row = [id |-> c, at |-> db.conversations[c].sentAt, join |-> <<t, j>>]
              /\ \E row \in MyConversations(r) : row.id = c
<1>1. MyConversations(r) = UNION {TalkRows(r, c) : c \in Talks(r)}
  BY DEF MyConversations, TalkRows, Talks, Partners
<1>2. ASSUME NEW c \in Talks(r), NEW row
      PROVE  row \in TalkRows(r, c) <=>
         \E t \in OrNone(Thumbnails(db, db.conversations[c].post)),
            j \in OrNone(Partners(r, c)) :
           row = [id |-> c, at |-> db.conversations[c].sentAt, join |-> <<t, j>>]
  <2>1. PICK A, B, at : 
            /\ A = OrNone(Thumbnails(db, db.conversations[c].post))
            /\ B = OrNone(Partners(r, c)) /\ at = db.conversations[c].sentAt
    OBVIOUS
  <2>2. TalkRows(r, c) = {[id |-> c, at |-> at, join |-> <<t, j>>] : t \in A, j \in B}
    BY <2>1 DEF TalkRows
  <2>3. QED
    BY <2>1, <2>2, JoinedRows
<1>3. ASSUME NEW row \in MyConversations(r)
      PROVE  \E c \in Talks(r) : row \in TalkRows(r, c)
  BY <1>1
<1>4. ASSUME NEW c \in Talks(r) PROVE \E row \in MyConversations(r) : row.id = c
  <2>1. PICK t, k : /\ t \in OrNone(Thumbnails(db, db.conversations[c].post))
                    /\ k \in OrNone(Partners(r, c))
    BY DEF OrNone
  <2>2. PICK row : row = [id |-> c, at |-> db.conversations[c].sentAt, join |-> <<t, k>>]
    OBVIOUS
  <2>3. row \in TalkRows(r, c)
    BY <1>2, <2>1, <2>2
  <2>4. row.id = c
    BY <2>2
  <2>5. QED
    BY <1>1, <2>3, <2>4
<1>5. QED
  BY <1>2, <1>3, <1>4

\* An entry is among the rows' ids where InList says so.
LEMMA IdsAre ==
  ASSUME NEW r \in Req, Op(r) \in Lists, NEW kept, NEW i
  PROVE  i \in Ids(r, kept) <=> InList(r, kept, i)
<1>1. i \in Ids(r, kept) <=> \E row \in Rows(r, kept) : row.id = i
  BY DEF Ids
<1>0. ASSUME NEW S PROVE i \in S <=> \E w \in WithThumbnails(S) : w.id = i
  BY ThumbnailRows
<1>2. CASE Op(r) = "list"
  <2>1. Rows(r, kept) = PagedPosts(r, kept)
    BY <1>2 DEF Rows
  <2>2. InList(r, kept, i) <=>
          /\ i \in PostIds /\ Shown(i) /\ db.posts[i].region = plan[r].region
          /\ db.posts[i].user \notin kept
    BY <1>2 DEF InList
  <2>3. PICK S : S = {p \in PostIds : /\ Shown(p)
                                    /\ db.posts[p].region = plan[r].region
                                    /\ db.posts[p].user \notin kept}
    OBVIOUS
  <2>4. PagedPosts(r, kept) = WithThumbnails(S)
    BY <2>3 DEF PagedPosts
  <2>5. i \in S <=> InList(r, kept, i)
    BY <2>2, <2>3
  <2>6. QED
    BY <1>0, <1>1, <2>1, <2>4, <2>5
<1>3. CASE Op(r) = "search"
  <2>1. Rows(r, kept) = FoundPosts(r, kept)
    BY <1>3 DEF Rows
  <2>2. InList(r, kept, i) <=>
          /\ i \in PostIds /\ Shown(i) /\ db.posts[i].region = plan[r].region
          /\ db.posts[i].user \notin kept /\ Matches(r, db.posts[i])
    BY <1>3 DEF InList
  <2>3. PICK S : S = {p \in PostIds : /\ Shown(p)
                                    /\ db.posts[p].region = plan[r].region
                                    /\ db.posts[p].user \notin kept}
    OBVIOUS
  <2>4. PagedPosts(r, kept) = WithThumbnails(S)
    BY <2>3 DEF PagedPosts
  <2>5. \A row : row \in FoundPosts(r, kept) <=>
          row \in WithThumbnails(S) /\ Matches(r, db.posts[row.id])
    BY <2>4 DEF FoundPosts
  <2>6. i \in S /\ Matches(r, db.posts[i]) <=> InList(r, kept, i)
    BY <2>2, <2>3
  <2>7. (\E row \in FoundPosts(r, kept) : row.id = i)
          <=> i \in S /\ Matches(r, db.posts[i])
    BY <1>0, <2>5
  <2>8. QED
    BY <1>1, <2>1, <2>6, <2>7
<1>4. CASE Op(r) = "mySales"
  <2>1. Rows(r, kept) = MySales(r)
    BY <1>4 DEF Rows
  <2>2. InList(r, kept, i) <=>
          /\ FindPost(db, i) /\ db.posts[i].user = User(r)
          /\ db.posts[i].status \in Statuses(plan[r].filter)
          /\ plan[r].filter = "HIDDEN" => db.posts[i].hidden
    BY <1>4 DEF InList
  <2>3. PICK S : S = {p \in LiveRows(db.posts) :
                        /\ db.posts[p].user = User(r)
                        /\ db.posts[p].status \in Statuses(plan[r].filter)
                        /\ plan[r].filter = "HIDDEN" => db.posts[p].hidden}
    OBVIOUS
  <2>4. MySales(r) = WithThumbnails(S)
    BY <2>3 DEF MySales
  <2>5. i \in S <=> InList(r, kept, i)
    BY <2>2, <2>3 DEF FindPost
  <2>6. QED
    BY <1>0, <1>1, <2>1, <2>4, <2>5
<1>5. CASE Op(r) = "userSales"
  <2>1. Rows(r, kept) = UserSales(r)
    BY <1>5 DEF Rows
  <2>2. InList(r, kept, i) <=>
          /\ Shown(i) /\ db.posts[i].user = plan[r].seller
          /\ db.posts[i].status \in Statuses(plan[r].filter)
    BY <1>5 DEF InList
  <2>3. PICK S : S = {p \in LiveRows(db.posts) :
                        /\ db.posts[p].user = plan[r].seller
                        /\ db.posts[p].status \in Statuses(plan[r].filter)
                        /\ ~db.posts[p].hidden}
    OBVIOUS
  <2>4. UserSales(r) = WithThumbnails(S)
    BY <2>3 DEF UserSales
  <2>5. i \in S <=> InList(r, kept, i)
    BY <2>2, <2>3 DEF Shown, FindPost
  <2>6. QED
    BY <1>0, <1>1, <2>1, <2>4, <2>5
<1>6. CASE Op(r) = "myLikes"
  <2>1. Rows(r, kept) = MyLikes(r)
    BY <1>6 DEF Rows
  <2>2. PICK S : S = {p \in PostIds : Shown(p)}
    OBVIOUS
  <2>3. MyLikes(r) = UNION {{[id |-> row.id, at |-> row.at, join |-> <<row.join, k>>] :
            k \in FindLike(db, row.id, User(r))} : row \in WithThumbnails(S)}
    BY <2>2 DEF MyLikes
  <2>4. ASSUME NEW row \in MyLikes(r)
        PROVE  \E w \in WithThumbnails(S) :
                 w.id = row.id /\ FindLike(db, w.id, User(r)) # {}
    <3>1. PICK w \in WithThumbnails(S) : \E k \in FindLike(db, w.id, User(r)) :
            row = [id |-> w.id, at |-> w.at, join |-> <<w.join, k>>]
      BY <2>3
    <3>2. row.id = w.id
      BY <3>1
    <3>3. QED
      BY <3>1, <3>2
  <2>5. ASSUME NEW w \in WithThumbnails(S), NEW k \in FindLike(db, w.id, User(r))
        PROVE  \E row \in MyLikes(r) : row.id = w.id
    <3>1. PICK row : row = [id |-> w.id, at |-> w.at, join |-> <<w.join, k>>]
      OBVIOUS
    <3>2. row \in {[id |-> w.id, at |-> w.at, join |-> <<w.join, j>>] :
                     j \in FindLike(db, w.id, User(r))}
      BY <3>1
    <3>4. row \in MyLikes(r)
      BY <2>3, <3>2
    <3>3. QED
      BY <3>1, <3>4
  <2>6. InList(r, kept, i) <=>
          i \in PostIds /\ Shown(i) /\ FindLike(db, i, User(r)) # {}
    BY <1>6 DEF InList
  <2>7. InList(r, kept, i) <=> i \in S /\ FindLike(db, i, User(r)) # {}
    BY <2>2, <2>6
  <2>8. (\E row \in MyLikes(r) : row.id = i) <=> i \in S /\ FindLike(db, i, User(r)) # {}
    BY <1>0, <2>4, <2>5
  <2>9. QED
    BY <1>1, <2>1, <2>7, <2>8
<1>7. CASE Op(r) = "purchases"
  <2>1. Rows(r, kept) = Purchases(r)
    BY <1>7 DEF Rows
  <2>2. InList(r, kept, i) <=>
          /\ i \in LiveRows(db.progress) /\ db.progress[i].buyer = User(r)
          /\ db.progress[i].status = "COMPLETED"
    BY <1>7 DEF InList
  <2>3. (\E row \in Purchases(r) : row.id = i) <=>
          /\ i \in LiveRows(db.progress) /\ db.progress[i].buyer = User(r)
          /\ db.progress[i].status = "COMPLETED"
    <3>1. PICK S : S = {j \in LiveRows(db.progress) :
                          /\ db.progress[j].buyer = User(r)
                          /\ db.progress[j].status = "COMPLETED"}
      OBVIOUS
    <3>2. PICK x : x = db.progress
      OBVIOUS
    <3>3. Purchases(r) = {[id |-> j, at |-> x[j].at] : j \in S}
      BY <3>1, <3>2 DEF Purchases
    <3>4. ASSUME NEW row \in Purchases(r) PROVE row.id \in S
      BY <3>3
    <3>5. ASSUME NEW j \in S PROVE \E row \in Purchases(r) : row.id = j
      <4>1. PICK row : row = [id |-> j, at |-> x[j].at]
        OBVIOUS
      <4>2. row \in Purchases(r) /\ row.id = j
        BY <3>3, <4>1
      <4>3. QED
        BY <4>2
    <3>6. (\E row \in Purchases(r) : row.id = i) <=> i \in S
      BY <3>4, <3>5
    <3>7. QED
      BY <3>1, <3>6
  <2>4. QED
    BY <1>1, <2>1, <2>2, <2>3
<1>8. CASE Op(r) = "universities"
  <2>1. Rows(r, kept) = UniversitiesIn(r, kept)
    BY <1>8 DEF Rows
  <2>2. InList(r, kept, i) <=>
          /\ i \in plan[r].among
          /\ \E p \in PostIds : /\ Shown(p) /\ db.posts[p].region = kept
                                /\ db.users[db.posts[p].user].university = i
    BY <1>8 DEF InList
  <2>3. (\E row \in UniversitiesIn(r, kept) : row.id = i) <=>
          /\ i \in plan[r].among
          /\ \E p \in PostIds : /\ Shown(p) /\ db.posts[p].region = kept
                                /\ db.users[db.posts[p].user].university = i
    <3>1. PICK S : S = plan[r].among \cap {db.users[db.posts[p].user].university :
                     p \in {x \in PostIds : Shown(x) /\ db.posts[x].region = kept}}
      OBVIOUS
    <3>2. UniversitiesIn(r, kept) = {[id |-> u, at |-> u] : u \in S}
      BY <3>1 DEF UniversitiesIn
    <3>3. ASSUME NEW row \in UniversitiesIn(r, kept) PROVE row.id \in S
      BY <3>2
    <3>4. ASSUME NEW u \in S PROVE \E row \in UniversitiesIn(r, kept) : row.id = u
      <4>1. PICK row : row = [id |-> u, at |-> u]
        OBVIOUS
      <4>2. row \in UniversitiesIn(r, kept) /\ row.id = u
        BY <3>2, <4>1
      <4>3. QED
        BY <4>2
    <3>5. (\E row \in UniversitiesIn(r, kept) : row.id = i) <=> i \in S
      BY <3>3, <3>4
    <3>6. QED
      BY <3>1, <3>5
  <2>4. QED
    BY <1>1, <2>1, <2>2, <2>3
<1>9. CASE Op(r) = "conversations"
  <2>1. Rows(r, kept) = MyConversations(r)
    BY <1>9 DEF Rows
  <2>2. InList(r, kept, i) <=> \E k \in ActiveParticipants(db) :
           /\ db.participants[k].user = User(r) /\ db.participants[k].conv = i
           /\ plan[r].post \in {None, db.conversations[i].post}
    BY <1>9 DEF InList
  <2>3. i \in Talks(r) <=> InList(r, kept, i)
    BY <2>2 DEF Talks
  <2>4. ASSUME NEW row \in MyConversations(r) PROVE row.id \in Talks(r)
    <3>1. PICK c \in Talks(r) : row \in TalkRows(r, c)
      BY ConversationRows
    <3>2. PICK t, k : row = [id |-> c, at |-> db.conversations[c].sentAt, join |-> <<t, k>>]
      BY <3>1, ConversationRows
    <3>3. row.id = c
      BY <3>2
    <3>4. QED
      BY <3>3
  <2>5. \A c \in Talks(r) : \E row \in MyConversations(r) : row.id = c
    BY ConversationRows
  <2>6. QED
    BY <1>1, <2>1, <2>3, <2>4, <2>5
<1>10. CASE Op(r) = "notifications"
  <2>1. Rows(r, kept) = Notifications(r)
    BY <1>10 DEF Rows
  <2>2. InList(r, kept, i) <=> i \in Owned(User(r))
    BY <1>10 DEF InList
  <2>3. (\E row \in Notifications(r) : row.id = i) <=> i \in Owned(User(r))
    <3>1. PICK x : x = db.notifications
      OBVIOUS
    <3>2. Notifications(r) = {[id |-> j, at |-> x[j].at] : j \in Owned(User(r))}
      BY <3>1 DEF Notifications
    <3>3. ASSUME NEW row \in Notifications(r) PROVE row.id \in Owned(User(r))
      BY <3>2
    <3>4. ASSUME NEW j \in Owned(User(r)) PROVE \E row \in Notifications(r) : row.id = j
      <4>1. PICK row : row = [id |-> j, at |-> x[j].at]
        OBVIOUS
      <4>2. row \in Notifications(r) /\ row.id = j
        BY <3>2, <4>1
      <4>3. QED
        BY <4>2
    <3>5. QED
      BY <3>3, <3>4
  <2>4. QED
    BY <1>1, <2>1, <2>2, <2>3
<1>11. QED
  BY <1>2, <1>3, <1>4, <1>5, <1>6, <1>7, <1>8, <1>9, <1>10 DEF Lists, OfPosts

\* The operations behind the writes.
LEMMA WriterOps ==
  ASSUME StageInv, NEW h \in Req
  PROVE  /\ InsertPost(h) => Op(h) = "create"
         /\ FlushEdit(h) \/ CommitEdit(h) => Op(h) = "edit"
         /\ HideProductPost(h) => Op(h) \in {"hide", "unhide"}
         /\ DeleteProductPost(h) => Op(h) = "delete"
         /\ Withdraw(h) => Op(h) = "withdraw"
         /\ InsertLike(h) => Op(h) = "like"
         /\ DeleteLike(h) => Op(h) = "unlike"
         /\ InsertConversation(h) => Op(h) = "createConversation"
         /\ LeaveConversation(h) => Op(h) = "leave"
         /\ SaveMessage(h) => Op(h) = "send"
         /\ DeleteNotifications(h) =>
              Op(h) \in {"deleteNotifications", "deleteAllNotifications"}
<1>1. InsertPost(h) => Op(h) = "create"
  BY DEF InsertPost, Step, StageInv, StageOps
<1>2. FlushEdit(h) => Op(h) = "edit"
  BY DEF FlushEdit, Step, StageInv, StageOps
<1>3. CommitEdit(h) => Op(h) = "edit"
  BY DEF CommitEdit, Step, StageInv, StageOps
<1>4. HideProductPost(h) => Op(h) \in {"hide", "unhide"}
  BY DEF HideProductPost, Step, StageInv, StageOps
<1>5. DeleteProductPost(h) => Op(h) = "delete"
  BY DEF DeleteProductPost, Step, StageInv, StageOps
<1>6. Withdraw(h) => Op(h) = "withdraw"
  BY DEF Withdraw, Step, StageInv, StageOps
<1>7. InsertLike(h) => Op(h) = "like"
  BY DEF InsertLike, Step, StageInv, StageOps
<1>8. DeleteLike(h) => Op(h) = "unlike"
  BY DEF DeleteLike, Step, StageInv, StageOps
<1>9. InsertConversation(h) => Op(h) = "createConversation"
  BY DEF InsertConversation, Step, StageInv, StageOps
<1>10. LeaveConversation(h) => Op(h) = "leave"
  BY DEF LeaveConversation, Step, StageInv, StageOps
<1>11. SaveMessage(h) => Op(h) = "send"
  BY DEF SaveMessage, Step, StageInv, StageOps
<1>12. DeleteNotifications(h) => Op(h) \in {"deleteNotifications", "deleteAllNotifications"}
  BY DEF DeleteNotifications, Step, StageInv, StageOps
<1>13. QED
  BY <1>1, <1>2, <1>3, <1>4, <1>5, <1>6, <1>7, <1>8, <1>9, <1>10, <1>11, <1>12

\* What no request writes of a post, and who writes the price.
LEMMA PostColumns ==
  ASSUME DataInv, NEW h \in Req, Handle(h), NEW p \in PostIds
  PROVE  /\ p \in PostIds'
         /\ db'.posts[p].region = db.posts[p].region
         /\ db'.posts[p].title = db.posts[p].title
         /\ db'.posts[p].category = db.posts[p].category
         /\ db'.posts[p].currency = db.posts[p].currency
         /\ db'.posts[p].at = db.posts[p].at
         /\ db'.posts[p].price = db.posts[p].price \/ Op(h) = "edit"
<1>1. StoreInv /\ StageInv
  BY DEF DataInv
<1>2. PICK old, new : old = db.posts[p] /\ new = db'.posts[p]
  OBVIOUS
<1>3. /\ db.posts \in Seq(PostRow(UserIds, Writers)) /\ p \in DOMAIN db.posts
      /\ old \in PostRow(UserIds, Writers)
  BY <1>2, RowTypes DEF PostIds
<1>4. CASE InsertPost(h)
  <2>1. db'.posts = Append(db.posts, NewPost(h))
    BY <1>1, <1>4, InsertPostEffect
  <2>2. new = old
    BY <1>2, <1>3, <2>1, AppendRows
  <2>3. QED
    BY <1>2, <2>2, PostsKept
<1>5. CASE FlushEdit(h) \/ CommitEdit(h)
  <2>1. db'.posts = db.posts \/ db'.posts = NewPrice(h)
    BY <1>1, <1>5, FlushEditEffect, CommitEditEffect
  <2>2. PICK row : row = [db.posts[Post(h)] EXCEPT !["price"] = plan[h].price]
    OBVIOUS
  <2>3. p = Post(h) => /\ row.region = old.region /\ row.title = old.title
                       /\ row.category = old.category /\ row.at = old.at
                       /\ row.currency = old.currency
    BY <1>2, <1>3, <2>2 DEF PostRow
  <2>4. NewPrice(h)[p] = IF p = Post(h) THEN row ELSE old
    BY <1>2, <1>3, <2>2 DEF NewPrice
  <2>5. QED
    BY <1>1, <1>2, <1>5, <2>1, <2>3, <2>4, WriterOps, PostsKept
<1>6. CASE HideProductPost(h)
  <2>1. PICK b : b = (Op(h) = "hide")
    OBVIOUS
  <2>2. PICK row : row = [db.posts[Post(h)] EXCEPT !["hidden"] = b]
    OBVIOUS
  <2>3. p = Post(h) => /\ row.region = old.region /\ row.title = old.title
                       /\ row.category = old.category /\ row.at = old.at
                       /\ row.currency = old.currency /\ row.price = old.price
    BY <1>2, <1>3, <2>2 DEF PostRow
  <2>4. new = IF p = Post(h) THEN row ELSE old
    BY <1>1, <1>2, <1>3, <1>6, <2>1, <2>2, HideEffect
  <2>5. QED
    BY <1>2, <2>3, <2>4, PostsKept
<1>7. ASSUME NEW S, db'.posts = SoftDelete(db.posts, S)
      PROVE  /\ new.region = old.region /\ new.title = old.title
             /\ new.category = old.category /\ new.at = old.at
             /\ new.currency = old.currency /\ new.price = old.price
  BY <1>2, <1>3, <1>7 DEF SoftDelete, Write, PostRow
<1>8. CASE DeleteProductPost(h) \/ Withdraw(h)
  <2>1. \E S : db'.posts = SoftDelete(db.posts, S)
    BY <1>1, <1>8, DeletePostEffect, WithdrawEffect
  <2>2. QED
    BY <1>2, <1>7, <2>1, PostsKept
<1>9. QED
  BY <1>2, <1>4, <1>5, <1>6, <1>8, TableWriters, PostsKept

\* When a notification was made stays, and who deletes it.
LEMMA NotificationColumns ==
  ASSUME DataInv, NEW h \in Req, Handle(h), NEW i \in DOMAIN db.notifications
  PROVE  /\ db'.notifications[i].at = db.notifications[i].at
         /\ db'.notifications[i].live => db.notifications[i].live
         /\ db.notifications[i].live /\ ~db'.notifications[i].live =>
              DeleteNotifications(h) \/ Withdraw(h)
<1>1. StoreInv /\ StageInv
  BY DEF DataInv
<1>2. PICK Row : Row = NotificationRow(UserIds, PostIds, Writers)
  OBVIOUS
<1>3. PICK row, new : row = db.notifications[i] /\ new = db'.notifications[i]
  OBVIOUS
<1>4. db.notifications \in Seq(Row) /\ row \in Row
  BY <1>2, <1>3, RowTypes
<1>5. ASSUME NEW S, db'.notifications = SoftDelete(db.notifications, S)
      PROVE  new.at = row.at /\ (new.live => row.live)
  BY <1>2, <1>3, <1>4, <1>5 DEF SoftDelete, Write, NotificationRow
<1>6. CASE CommitEdit(h)
  <2>1. pc[h] = "commit"
    BY <1>6 DEF CommitEdit
  <2>2. PICK targets, rows : /\ targets = got[h].targets
                             /\ rows = Notified(h, targets, got[h].likers)
    OBVIOUS
  <2>3. targets \subseteq UserIds /\ Post(h) \in PostIds /\ now \in Seconds
    BY <1>1, <2>1, <2>2, MarketAssumption
       DEF DataInv, GotInv, GotOk, StoreInv, Seconds
  <2>4. db'.notifications = db.notifications \o rows
    BY <1>1, <1>6, <2>2, CommitEditEffect
  <2>5. rows \in Seq(Row)
    BY <1>1, <1>2, <2>2, <2>3, NotifiedType
  <2>6. new = row
    BY <1>3, <1>4, <2>4, <2>5, Concatenation
  <2>7. QED
    BY <1>3, <2>6
<1>7. CASE MarkNotificationAsRead(h)
  <2>1. PICK S : S = {plan[h].id}
    OBVIOUS
  <2>2. ~DeleteNotifications(h)
    BY <1>7 DEF MarkNotificationAsRead, DeleteNotifications, Step
  <2>3. db'.notifications = Write(db.notifications, S, "read", TRUE)
    BY <1>1, <1>7, <2>1, <2>2, NotificationsEffect
  <2>4. new.at = row.at /\ new.live = row.live
    BY <1>2, <1>3, <1>4, <2>3 DEF Write, NotificationRow
  <2>5. QED
    BY <1>3, <2>4
<1>8. CASE DeleteNotifications(h)
  <2>1. ~MarkNotificationAsRead(h)
    BY <1>8 DEF MarkNotificationAsRead, DeleteNotifications, Step
  <2>2. \E S : db'.notifications = SoftDelete(db.notifications, S)
    BY <1>1, <1>8, <2>1, NotificationsEffect
  <2>3. QED
    BY <1>3, <1>5, <1>8, <2>2
<1>9. CASE Withdraw(h)
  <2>1. \E S : db'.notifications = SoftDelete(db.notifications, S)
    BY <1>1, <1>9, WithdrawEffect
  <2>2. QED
    BY <1>3, <1>5, <1>9, <2>1
<1>10. QED
  BY <1>6, <1>7, <1>8, <1>9, TableWriters

\* A user's university stays, the primary region until they withdraw.
LEMMA UserColumns ==
  ASSUME DataInv, NEW h \in Req, Handle(h), NEW u \in UserIds
  PROVE  /\ db'.users[u].university = db.users[u].university
         /\ db'.users[u].primary \in {db.users[u].primary, None}
<1>1. StoreInv /\ StageInv
  BY DEF DataInv
<1>2. PICK row, new : row = db.users[u] /\ new = db'.users[u]
  OBVIOUS
<1>3. db.users \in Seq(UserRow) /\ row \in UserRow /\ u \in DOMAIN db.users
  BY <1>2, RowTypes DEF UserIds
<1>4. CASE Withdraw(h)
  <2>1. PICK left : left = Left(db.users[User(h)])
    OBVIOUS
  <2>2. db'.users = [db.users EXCEPT ![User(h)] = left]
    BY <1>1, <1>4, <2>1, WithdrawEffect
  <2>3. new = IF u = User(h) THEN left ELSE row
    BY <1>2, <1>3, <2>2
  <2>4. u = User(h) => left.university = row.university /\ left.primary = None
    BY <1>2, <1>3, <2>1 DEF Left, UserRow
  <2>5. QED
    BY <1>2, <2>3, <2>4
<1>5. CASE UpdateSettings(h)
  <2>1. PICK S, on : S = {User(h)} /\ on = plan[h].on
    OBVIOUS
  <2>2. db'.users = db.users \/ db'.users = Write(db.users, S, "priceOn", on)
    BY <1>1, <1>5, <2>1, SettingsEffect
  <2>3. new = row \/ new = [row EXCEPT !["priceOn"] = on]
    BY <1>2, <1>3, <2>2 DEF Write
  <2>4. new.university = row.university /\ new.primary = row.primary
    BY <1>3, <2>3 DEF UserRow
  <2>5. QED
    BY <1>2, <2>4
<1>6. QED
  BY <1>4, <1>5, TableWriters

\* Two likes of a post by one user are of requests that met.
LikersInv ==
  /\ \A i \in DOMAIN db.likes, q \in Req : db.likes[i].by = q =>
       Op(q) = "like" /\ User(q) = db.likes[i].user /\ Post(q) = db.likes[i].post
  /\ \A p \in PostIds, u \in UserIds : \A i, j \in FindLike(db, p, u) : i # j =>
       \E q, x \in Req : /\ Op(q) = "like" /\ User(q) = u /\ Post(q) = p
                         /\ Op(x) = "like" /\ User(x) = u /\ Post(x) = p
                         /\ Met(q, x)

\* A conversation is between two.
PairsInv ==
  \A i, j, k \in DOMAIN db.participants :
    /\ db.participants[i].conv = db.participants[j].conv
    /\ db.participants[j].conv = db.participants[k].conv
    => i = j \/ j = k \/ k = i

\* What no request writes of users, or only a withdrawal.
ProfileInv ==
  /\ db.blocks = StartDb.blocks
  /\ \A u \in UserIds :
       /\ db.users[u].university = StartDb.users[u].university
       /\ db.users[u].primary \in {StartDb.users[u].primary, None}

\* What the lists need of the rows.
RowsInv == LikersInv /\ PairsInv /\ ProfileInv

\* The start has no like by a request, and each pair of users of its own.
LEMMA RowsStart ==
  ASSUME Init
  PROVE  RowsInv
<1>1. db = StartDb /\ plan \in Plans
  BY DEF Init, RequestsInit
<1>2. StartDb \in Tables(DOMAIN StartDb.users, DOMAIN StartDb.posts,
                         DOMAIN StartDb.conversations, {0})
  BY StartAssumption
<1>3. ASSUME NEW i \in DOMAIN db.likes PROVE db.likes[i].by \notin Req
  <2>1. PICK us, ps : StartDb.likes \in Seq(LikeRow(us, ps, {0}))
    BY <1>2, TableTypes
  <2>2. db.likes[i] \in LikeRow(us, ps, {0})
    BY <1>1, <2>1
  <2>3. db.likes[i].by = 0
    BY <2>2 DEF LikeRow
  <2>4. QED
    BY <1>1, <2>3, RequestNumbers
<1>4. ASSUME NEW p \in PostIds, NEW u \in UserIds, NEW i \in FindLike(db, p, u),
             NEW j \in FindLike(db, p, u)
      PROVE  i = j
  BY <1>1, <1>4, StartAssumption DEF PostIds, UserIds
<1>5. LikersInv
  BY <1>3, <1>4 DEF LikersInv
<1>6. PairsInv
  BY <1>1, StartAssumption DEF PairsInv
<1>7. ProfileInv
  BY <1>1 DEF ProfileInv
<1>8. QED
  BY <1>5, <1>6, <1>7 DEF RowsInv

\* A step that leaves the rows leaves what the lists need of them.
LEMMA RowsStill ==
  ASSUME RowsInv, Still
  PROVE  RowsInv'
<1>1. \A q \in Req : Op(q)' = Op(q) /\ Post(q)' = Post(q) /\ User(q)' = User(q)
  BY DEF Still, Op, Post, User
<1>2. /\ db' = db /\ Req' = Req /\ PostIds' = PostIds /\ UserIds' = UserIds
      /\ \A p, q \in Req : Met(p, q) => Met(p, q)'
  BY DEF Still, PostIds, UserIds
<1>3. \A i \in DOMAIN db.likes, q \in Req : db.likes[i].by = q =>
       Op(q)' = "like" /\ User(q)' = db.likes[i].user /\ Post(q)' = db.likes[i].post
  BY <1>1 DEF RowsInv, LikersInv
<1>4. ASSUME NEW p \in PostIds, NEW u \in UserIds, NEW i \in FindLike(db, p, u),
             NEW j \in FindLike(db, p, u), i # j
      PROVE  \E q, x \in Req : /\ Op(q)' = "like" /\ User(q)' = u /\ Post(q)' = p
                               /\ Op(x)' = "like" /\ User(x)' = u /\ Post(x)' = p
                               /\ Met(q, x)'
  BY <1>1, <1>2, <1>4 DEF RowsInv, LikersInv
<1>5. LikersInv'
  BY <1>2, <1>3, <1>4 DEF LikersInv
<1>6. PairsInv' /\ ProfileInv'
  BY <1>2 DEF RowsInv, PairsInv, ProfileInv
<1>7. QED
  BY <1>5, <1>6 DEF RowsInv

\* A like is inserted where none was found, or by requests that met.
LEMMA LikersHandle ==
  ASSUME DataInv, LikeInv, LikersInv, NEW h \in Req, Handle(h)
  PROVE  LikersInv'
<1>1. /\ StageInv /\ Moves(h) /\ plan' = plan /\ Req' = Req
  BY HandleMoves DEF DataInv
<1>2. \A q \in Req : Op(q)' = Op(q) /\ Post(q)' = Post(q) /\ User(q)' = User(q)
  BY <1>1 DEF Op, Post, User
<1>3. \A p, q \in Req : Met(p, q) => Met(p, q)'
  BY <1>1, MetKept
<1>4. ASSUME NEW i \in DOMAIN db'.likes, NEW q \in Req, db'.likes[i].by = q
      PROVE  Op(q) = "like" /\ User(q) = db'.likes[i].user /\ Post(q) = db'.likes[i].post
  <2>1. CASE i \in DOMAIN db.likes
    BY <1>4, <2>1, LikesKept DEF LikersInv
  <2>2. CASE i \notin DOMAIN db.likes
    <3>1. InsertLike(h) /\ db'.likes[i] = NewLike(h)
      BY <2>2, LikesKept
    <3>2. q = h /\ db'.likes[i].user = User(h) /\ db'.likes[i].post = Post(h)
      BY <1>4, <3>1 DEF NewLike
    <3>3. QED
      BY <1>1, <3>1, <3>2, WriterOps
  <2>3. QED
    BY <2>1, <2>2
<1>5. ASSUME NEW p, NEW u, NEW i \in FindLike(db', p, u),
             NEW j \in FindLike(db', p, u), i # j
      PROVE  \E q, x \in Req : /\ Op(q) = "like" /\ User(q) = u /\ Post(q) = p
                               /\ Op(x) = "like" /\ User(x) = u /\ Post(x) = p
                               /\ Met(q, x)'
  <2>1. CASE i \in FindLike(db, p, u) /\ j \in FindLike(db, p, u)
    <3>1. p \in PostIds /\ u \in UserIds
      BY <2>1, RowTypes DEF FindLike, FindLikes, LikeRow
    <3>2. QED
      BY <1>3, <1>5, <2>1, <3>1 DEF LikersInv
  <2>2. ASSUME NEW k \in FindLike(db, p, u), InsertLike(h), p = Post(h), u = User(h)
        PROVE  \E q, x \in Req : /\ Op(q) = "like" /\ User(q) = u /\ Post(q) = p
                                 /\ Op(x) = "like" /\ User(x) = u /\ Post(x) = p
                                 /\ Met(q, x)'
    <3>1. pc[h] = "like" /\ Op(h) = "like"
      BY <1>1, <2>2 DEF InsertLike, Step, StageInv, StageOps
    <3>2. PICK q \in Req : db.likes[k].by = q /\ Op(q) = "like" /\ Met(q, h)
      BY <2>2, <3>1 DEF LikeInv
    <3>3. k \in DOMAIN db.likes /\ db.likes[k].user = u /\ db.likes[k].post = p
      BY DEF FindLike, FindLikes
    <3>4. User(q) = u /\ Post(q) = p
      BY <3>2, <3>3 DEF LikersInv
    <3>5. QED
      BY <1>3, <2>2, <3>1, <3>2, <3>4
  <2>3. QED
    BY <1>5, <2>1, <2>2, FoundLikes
<1>6. QED
  BY <1>1, <1>2, <1>4, <1>5 DEF LikersInv

\* A conversation gets its two participants with it, and no other.
LEMMA PairsHandle ==
  ASSUME DataInv, PairsInv, NEW h \in Req, Handle(h)
  PROVE  PairsInv'
<1>1. PICK old, new, n : /\ old = db.participants /\ new = db'.participants
                         /\ n = Len(db.conversations) + 1
  OBVIOUS
<1>2. \A i \in DOMAIN old : i \in DOMAIN new /\ new[i].conv = old[i].conv
  BY <1>1, ParticipantsKept
<1>3. \A i \in DOMAIN old : old[i].conv # n
  <2>1. \A i \in DOMAIN old : old[i].conv \in ConversationIds
    BY <1>1, RowTypes DEF ParticipantRow
  <2>2. n \notin ConversationIds
    <3>1. PICK S : db.conversations \in Seq(S)
      BY RowTypes
    <3>2. QED
      BY <1>1, <3>1 DEF ConversationIds
  <2>3. QED
    BY <2>1, <2>2
<1>4. PICK u, v : u = User(h) /\ v = db.posts[Post(h)].user
  OBVIOUS
<1>5. \A i \in DOMAIN new : i \notin DOMAIN old =>
        /\ new[i].conv = n /\ new[i].user \in {u, v}
        /\ \A j \in DOMAIN new : j \notin DOMAIN old =>
             (new[i].user = new[j].user => i = j)
  BY <1>1, <1>4, ParticipantsKept
<1>6. ASSUME NEW i \in DOMAIN new, NEW j \in DOMAIN new, NEW k \in DOMAIN new,
             new[i].conv = new[j].conv, new[j].conv = new[k].conv
      PROVE  i = j \/ j = k \/ k = i
  <2>1. CASE i \in DOMAIN old
    <3>1. j \in DOMAIN old /\ k \in DOMAIN old
      BY <1>2, <1>3, <1>5, <1>6, <2>1
    <3>2. QED
      BY <1>1, <1>2, <1>6, <2>1, <3>1 DEF PairsInv
  <2>2. CASE i \notin DOMAIN old
    <3>1. j \notin DOMAIN old /\ k \notin DOMAIN old
      BY <1>2, <1>3, <1>5, <1>6, <2>2
    <3>2. QED
      BY <1>5, <2>2, <3>1
  <2>3. QED
    BY <2>1, <2>2
<1>7. QED
  BY <1>1, <1>6 DEF PairsInv

\* Universities change by withdrawing alone, and blocks by nothing.
LEMMA ProfileHandle ==
  ASSUME DataInv, ProfileInv, NEW h \in Req, Handle(h)
  PROVE  ProfileInv'
<1>1. UserIds' = UserIds /\ db'.blocks = db.blocks
  BY UsersKept, TableWriters
<1>2. ASSUME NEW u \in UserIds
      PROVE  /\ db'.users[u].university = StartDb.users[u].university
             /\ db'.users[u].primary \in {StartDb.users[u].primary, None}
  BY UserColumns DEF ProfileInv
<1>3. QED
  BY <1>1, <1>2 DEF ProfileInv

\* The inductive invariant about the rows.
LEMMA RowsInvariant == Spec => []RowsInv
<1>1. Init => RowsInv
  BY RowsStart
<1>2. ASSUME DataInv, LikeInv, RowsInv, NEW h \in Req, Handle(h) PROVE RowsInv'
  BY <1>2, LikersHandle, PairsHandle, ProfileHandle DEF RowsInv
<1>3. DataInv /\ LikeInv /\ RowsInv /\ [Next]_marketVars => RowsInv'
  BY <1>2, StillStep, RowsStill
<1>4. QED
  BY <1>1, <1>3, DataInvariant, LikesInvariant, PTL DEF Spec

\* What the list that r reads is filtered by, until r's user withdraws.
FirstFilter(r) == CASE Op(r) = "universities"       -> StartDb.users[User(r)].primary
                    [] Op(r) \in {"list", "search"} -> FindBlocked(StartDb, User(r))
                    [] OTHER                        -> {}

\* A filter that is read is the first one, or that of who has withdrawn.
LEMMA FilterIs ==
  ASSUME DataInv, RowsInv, NEW r \in Req, Op(r) \in Lists
  PROVE  /\ Filter(r) = FirstFilter(r) \/ (Op(r) = "universities" /\ Filter(r) = None)
         /\ User(r) \in UserIds
<1>1. User(r) \in UserIds
  BY RequestTypes DEF DataInv, StoreInv, UserIds, UserIdsAtStart, Lists, OfPosts
<1>2. FindBlocked(db, User(r)) = FindBlocked(StartDb, User(r))
  BY DEF RowsInv, ProfileInv, FindBlocked
<1>3. db.users[User(r)].primary \in {StartDb.users[User(r)].primary, None}
  BY <1>1 DEF RowsInv, ProfileInv
<1>4. CASE Op(r) = "universities"
  BY <1>1, <1>3, <1>4 DEF Filter, FirstFilter
<1>5. CASE Op(r) \in {"list", "search"}
  BY <1>1, <1>2, <1>5 DEF Filter, FirstFilter
<1>6. CASE Op(r) \notin {"list", "search", "universities"}
  BY <1>1, <1>6 DEF Filter, FirstFilter
<1>7. QED
  BY <1>4, <1>5, <1>6

\* Nothing is in the list of the universities of no region.
LEMMA NoRegion ==
  ASSUME DataInv, NEW r \in Req, Op(r) = "universities"
  PROVE  Ids(r, None) = {}
<1>1. ASSUME NEW i \in Ids(r, None) PROVE FALSE
  <2>1. InList(r, None, i)
    BY IdsAre DEF Lists
  <2>2. PICK p \in PostIds : db.posts[p].region = None
    BY <2>1 DEF InList
  <2>3. db.posts[p].region \in Regions
    BY RowTypes DEF PostRow
  <2>4. QED
    BY <2>2, <2>3, NoneAssumption
<1>2. QED
  BY <1>1

\* A post has one row of the list: it has one thumbnail at most.
LEMMA ThumbUnique ==
  ASSUME ImageInv, NEW S \in SUBSET PostIds, NEW a \in WithThumbnails(S),
         NEW b \in WithThumbnails(S)
  PROVE  /\ a.at = db.posts[a.id].at /\ a.id \in PostIds
         /\ a.id = b.id => a = b
<1>1. /\ a.id \in S /\ a.at = db.posts[a.id].at
      /\ a.join \in OrNone(Thumbnails(db, a.id))
      /\ a = [id |-> a.id, at |-> a.at, join |-> a.join]
  BY ThumbnailRows
<1>2. /\ b.id \in S /\ b.at = db.posts[b.id].at
      /\ b.join \in OrNone(Thumbnails(db, b.id))
      /\ b = [id |-> b.id, at |-> b.at, join |-> b.join]
  BY ThumbnailRows
<1>3. a.id \in PostIds
  BY <1>1
<1>4. \A i, j \in Thumbnails(db, a.id) : i = j
  BY <1>3 DEF ImageInv, PostInv
<1>5. ASSUME a.id = b.id PROVE a = b
  <2>1. a.join = b.join
    BY <1>1, <1>2, <1>4, <1>5 DEF OrNone
  <2>2. QED
    BY <1>1, <1>2, <1>5, <2>1
<1>6. QED
  BY <1>1, <1>3, <1>5

\* The rows of a list: one of each id, unless likes met.
LEMMA RowsOfIds ==
  ASSUME DataInv, ImageInv, RowsInv, NEW r \in Req, Op(r) \in Lists, ~Tied(r),
         NEW kept, NEW a \in Rows(r, kept), NEW b \in Rows(r, kept)
  PROVE  a.at = At(r, a.id) /\ (a.id = b.id => a = b)
<1>1. CASE Op(r) \in {"list", "search"}
  <2>1. PICK S \in SUBSET PostIds : PagedPosts(r, kept) = WithThumbnails(S)
    BY DEF PagedPosts
  <2>2. a \in PagedPosts(r, kept) /\ b \in PagedPosts(r, kept)
    BY <1>1 DEF Rows, FoundPosts
  <2>3. QED
    BY <1>1, <2>1, <2>2, ThumbUnique DEF At, OfPosts
<1>2. CASE Op(r) \in {"mySales", "userSales"}
  <2>1. LiveRows(db.posts) \subseteq PostIds
    BY DEF LiveRows, PostIds
  <2>2. /\ \E S \in SUBSET PostIds : MySales(r) = WithThumbnails(S)
        /\ \E S \in SUBSET PostIds : UserSales(r) = WithThumbnails(S)
    BY <2>1 DEF MySales, UserSales
  <2>3. Rows(r, kept) \in {MySales(r), UserSales(r)}
    BY <1>2 DEF Rows
  <2>4. PICK S \in SUBSET PostIds : Rows(r, kept) = WithThumbnails(S)
    BY <2>2, <2>3
  <2>5. QED
    BY <1>2, <2>4, ThumbUnique DEF At, OfPosts
<1>3. CASE Op(r) = "myLikes"
  <2>1. PICK S \in SUBSET PostIds : S = {p \in PostIds : Shown(p)}
    OBVIOUS
  <2>2. Rows(r, kept) = UNION {{[id |-> row.id, at |-> row.at, join |-> <<row.join, k>>] :
            k \in FindLike(db, row.id, User(r))} : row \in WithThumbnails(S)}
    BY <1>3, <2>1 DEF Rows, MyLikes
  <2>3. PICK v \in WithThumbnails(S) : \E i \in FindLike(db, v.id, User(r)) :
          a = [id |-> v.id, at |-> v.at, join |-> <<v.join, i>>]
    BY <2>2
  <2>3a. PICK i \in FindLike(db, v.id, User(r)) :
          a = [id |-> v.id, at |-> v.at, join |-> <<v.join, i>>]
    BY <2>3
  <2>4. PICK w \in WithThumbnails(S) : \E j \in FindLike(db, w.id, User(r)) :
          b = [id |-> w.id, at |-> w.at, join |-> <<w.join, j>>]
    BY <2>2
  <2>4a. PICK j \in FindLike(db, w.id, User(r)) :
          b = [id |-> w.id, at |-> w.at, join |-> <<w.join, j>>]
    BY <2>4
  <2>5. /\ v.at = db.posts[v.id].at /\ v.id \in PostIds
        /\ v.id = w.id => v = w
    BY ThumbUnique
  <2>6. a.id = v.id /\ a.at = v.at /\ b.id = w.id
    BY <2>3a, <2>4a
  <2>7. ASSUME a.id = b.id PROVE a = b
    <3>1. v = w
      BY <2>5, <2>6, <2>7
    <3>2. i = j
      <4>1. ASSUME i # j
            PROVE \E p, q \in {x \in Req : Op(x) = "like" /\ User(x) = User(r)} :
                    Post(p) = Post(q) /\ Met(p, q)
        <5>1. j \in FindLike(db, v.id, User(r)) /\ User(r) \in UserIds
          BY <3>1, FilterIs
        <5>2. QED
          BY <2>5, <4>1, <5>1 DEF RowsInv, LikersInv
      <4>2. QED
        BY <1>3, <4>1 DEF Tied
    <3>3. QED
      BY <2>3a, <2>4a, <3>1, <3>2
  <2>8. QED
    BY <1>3, <2>5, <2>6, <2>7 DEF At, OfPosts
<1>4. CASE Op(r) = "purchases"
  <2>1. PICK x, S : x = db.progress /\ Rows(r, kept) = {[id |-> i, at |-> x[i].at] : i \in S}
    BY <1>4 DEF Rows, Purchases
  <2>2. /\ a.at = x[a.id].at /\ a = [id |-> a.id, at |-> a.at]
        /\ b.at = x[b.id].at /\ b = [id |-> b.id, at |-> b.at]
    BY <2>1
  <2>3. At(r, a.id) = x[a.id].at
    BY <1>4, <2>1 DEF At, OfPosts
  <2>4. QED
    BY <2>2, <2>3
<1>5. CASE Op(r) = "universities"
  <2>1. PICK S : Rows(r, kept) = {[id |-> i, at |-> i] : i \in S}
    BY <1>5 DEF Rows, UniversitiesIn
  <2>2. /\ a.at = a.id /\ a = [id |-> a.id, at |-> a.at]
        /\ b.at = b.id /\ b = [id |-> b.id, at |-> b.at]
    BY <2>1
  <2>3. At(r, a.id) = a.id
    BY <1>5 DEF At, OfPosts
  <2>4. QED
    BY <2>2, <2>3
<1>6. CASE Op(r) = "conversations"
  <2>1. a \in MyConversations(r) /\ b \in MyConversations(r)
    BY <1>6 DEF Rows
  <2>2. PICK c \in Talks(r), e \in Talks(r) : a \in TalkRows(r, c) /\ b \in TalkRows(r, e)
    BY <2>1, ConversationRows
  <2>3. PICK t \in OrNone(Thumbnails(db, db.conversations[c].post)),
             j \in OrNone(Partners(r, c)) :
          a = [id |-> c, at |-> db.conversations[c].sentAt, join |-> <<t, j>>]
    BY <2>2, ConversationRows
  <2>4. PICK s \in OrNone(Thumbnails(db, db.conversations[e].post)),
             k \in OrNone(Partners(r, e)) :
          b = [id |-> e, at |-> db.conversations[e].sentAt, join |-> <<s, k>>]
    BY <2>2, ConversationRows
  <2>5. a.id = c /\ a.at = db.conversations[c].sentAt /\ b.id = e
    BY <2>3, <2>4
  <2>6. PICK m \in DOMAIN db.participants :
          db.participants[m].conv = c /\ db.participants[m].user = User(r)
    BY DEF Talks, ActiveParticipants, LiveRows
  <2>7. ASSUME c = e PROVE t = s /\ j = k
    <3>1. db.conversations[c].post \in PostIds
      <4>1. c \in ConversationIds
        BY <2>6, RowTypes DEF ParticipantRow
      <4>2. QED
        BY <4>1, RowTypes DEF ConversationRow
    <3>2. t = s
      BY <2>7, <3>1 DEF OrNone, ImageInv, PostInv
    <3>3. \A x, y \in Partners(r, c) : x = y
      BY <2>6 DEF RowsInv, PairsInv, LiveRows, Partners
    <3>4. QED
      BY <2>7, <3>2, <3>3 DEF OrNone
  <2>8. At(r, a.id) = db.conversations[c].sentAt
    BY <1>6, <2>5 DEF At, OfPosts
  <2>9. QED
    BY <2>3, <2>4, <2>5, <2>7, <2>8
<1>7. CASE Op(r) = "notifications"
  <2>1. PICK x, S : /\ x = db.notifications
                    /\ Rows(r, kept) = {[id |-> i, at |-> x[i].at] : i \in S}
    BY <1>7 DEF Rows, Notifications
  <2>2. /\ a.at = x[a.id].at /\ a = [id |-> a.id, at |-> a.at]
        /\ b.at = x[b.id].at /\ b = [id |-> b.id, at |-> b.at]
    BY <2>1
  <2>3. At(r, a.id) = x[a.id].at
    BY <1>7, <2>1 DEF At, OfPosts
  <2>4. QED
    BY <2>2, <2>3
<1>8. QED
  BY <1>1, <1>2, <1>3, <1>4, <1>5, <1>6, <1>7 DEF Lists, OfPosts

\* The orders of the lists.
LEMMA FrontIs ==
  ASSUME NEW r, Op(r) \in Lists, NEW i, NEW j
  PROVE  /\ Op(r) = "conversations" =>
              (InFront(r, i, j) <=>
                 \/ At(r, i) # None /\ (At(r, j) = None \/ At(r, i) > At(r, j))
                 \/ At(r, i) = At(r, j) /\ i > j)
         /\ Op(r) # "conversations" =>
              \/ (InFront(r, i, j) <=> At(r, i) < At(r, j))
                   /\ (InFront(r, j, i) <=> At(r, j) < At(r, i))
              \/ (InFront(r, i, j) <=> At(r, i) > At(r, j))
                   /\ (InFront(r, j, i) <=> At(r, j) > At(r, i))
<1>1. PICK a, b : a = [id |-> i, at |-> At(r, i)] /\ b = [id |-> j, at |-> At(r, j)]
  OBVIOUS
<1>2. a.id = i /\ a.at = At(r, i) /\ b.id = j /\ b.at = At(r, j)
  BY <1>1
<1>3. (InFront(r, i, j) <=> Before(r, a, b)) /\ (InFront(r, j, i) <=> Before(r, b, a))
  BY <1>1 DEF InFront
<1>4. CASE Op(r) = "conversations"
  <2>1. Before(r, a, b) <=> \/ a.at # None /\ (b.at = None \/ a.at > b.at)
                            \/ a.at = b.at /\ a.id > b.id
    BY <1>4 DEF Before
  <2>2. QED
    BY <1>2, <1>3, <1>4, <2>1
<1>5. CASE Op(r) = "universities" \/ (Op(r) = "search" /\ plan[r].sort = "ASC")
  <2>1. (Before(r, a, b) <=> a.at < b.at) /\ (Before(r, b, a) <=> b.at < a.at)
    BY <1>5 DEF Before
  <2>2. QED
    BY <1>2, <1>3, <1>5, <2>1
<1>6. CASE Op(r) # "conversations" /\ Op(r) # "universities"
           /\ ~(Op(r) = "search" /\ plan[r].sort = "ASC")
  <2>1. (Before(r, a, b) <=> a.at > b.at) /\ (Before(r, b, a) <=> b.at > a.at)
    BY <1>6 DEF Before
  <2>2. QED
    BY <1>2, <1>3, <1>6, <2>1
<1>7. QED
  BY <1>4, <1>5, <1>6

\* Where the ids of a list are from.
LEMMA IdsFrom ==
  ASSUME DataInv, NEW r \in Req, Op(r) \in Lists, NEW kept, NEW i \in Ids(r, kept)
  PROVE  /\ Op(r) \in OfPosts => i \in PostIds
         /\ Op(r) = "purchases" => i \in DOMAIN db.progress
         /\ Op(r) = "universities" =>
              /\ i \in Nat
              /\ \E p \in PostIds : db.users[db.posts[p].user].university = i
         /\ Op(r) = "conversations" => i \in ConversationIds
         /\ Op(r) = "notifications" => i \in DOMAIN db.notifications
<1>1. InList(r, kept, i)
  BY IdsAre
<1>2. LiveRows(db.posts) \subseteq PostIds
  BY DEF LiveRows, PostIds
<1>3. CASE Op(r) \in {"list", "search"}
  <2>1. i \in PostIds
    BY <1>1, <1>3 DEF InList
  <2>2. QED
    BY <1>3, <2>1 DEF OfPosts
<1>4. CASE Op(r) \in {"mySales", "userSales"}
  <2>1. FindPost(db, i)
    BY <1>1, <1>4 DEF InList, Shown
  <2>2. i \in PostIds
    BY <1>2, <2>1 DEF FindPost
  <2>3. QED
    BY <1>4, <2>2 DEF OfPosts
<1>5. CASE Op(r) = "myLikes"
  <2>1. i \in PostIds
    BY <1>1, <1>5 DEF InList
  <2>2. QED
    BY <1>5, <2>1 DEF OfPosts
<1>6. CASE Op(r) = "purchases"
  <2>1. i \in DOMAIN db.progress
    BY <1>1, <1>6 DEF InList, LiveRows
  <2>2. QED
    BY <1>6, <2>1 DEF OfPosts
<1>7. CASE Op(r) = "universities"
  <2>1. /\ i \in plan[r].among
        /\ \E p \in PostIds : db.users[db.posts[p].user].university = i
    BY <1>1, <1>7 DEF InList
  <2>2. plan[r] \in MarketRequests
    BY MarketAssumption DEF DataInv, StoreInv, Req
  <2>3. plan[r] \in UniversityRequests
    BY <1>7, <2>2 DEF Op, MarketRequests, CreateRequests, EditRequests,
       HideRequests, DeleteRequests, LikeRequests, DetailRequests,
       WithdrawRequests, ListRequests, SearchRequests, SalesRequests,
       UserListRequests, NotificationListRequests, UniversityRequests,
       ConversationListRequests, CategoryRequests, RangeRequests,
       ProductRequests, NotificationRequests, SettingsRequests,
       ConversationRequests, MessagesRequests, LeaveRequests, SendRequests
  <2>4. plan[r].among \subseteq Nat
    BY <2>3, MarketAssumption DEF UniversityRequests
  <2>5. QED
    BY <1>7, <2>1, <2>4 DEF OfPosts
<1>8. CASE Op(r) = "conversations"
  <2>1. PICK k \in ActiveParticipants(db) : db.participants[k].conv = i
    BY <1>1, <1>8 DEF InList
  <2>2. i \in ConversationIds
    BY <2>1, RowTypes DEF ActiveParticipants, LiveRows, ParticipantRow
  <2>3. QED
    BY <1>8, <2>2 DEF OfPosts
<1>9. CASE Op(r) = "notifications"
  <2>1. i \in DOMAIN db.notifications
    BY <1>1, <1>9 DEF InList, Owned, LiveRows
  <2>2. QED
    BY <1>9, <2>1 DEF OfPosts
<1>10. QED
  BY <1>3, <1>4, <1>5, <1>6, <1>7, <1>8, <1>9 DEF Lists, OfPosts

\* Without ties, one entry of two stands before the other.
LEMMA FrontTotal ==
  ASSUME DataInv, NEW r \in Req, Op(r) \in Lists, ~Tied(r), NEW kept,
         NEW i \in Ids(r, kept), NEW j \in Ids(r, kept)
  PROVE  /\ i # j => InFront(r, i, j) \/ InFront(r, j, i)
         /\ ~(InFront(r, i, j) /\ InFront(r, j, i))
<1>1. Seconds \subseteq Nat
  BY MarketAssumption DEF Seconds
<1>2. CASE Op(r) = "conversations"
  <2>1. i \in ConversationIds /\ j \in ConversationIds
    BY <1>2, IdsFrom
  <2>2. i \in Nat /\ j \in Nat
    <3>1. PICK S : db.conversations \in Seq(S)
      BY RowTypes
    <3>2. QED
      BY <2>1, <3>1 DEF ConversationIds
  <2>3. \A c \in ConversationIds : db.conversations[c].sentAt \in Nat \cup {None}
    BY <1>1, RowTypes DEF ConversationRow
  <2>4. At(r, i) = db.conversations[i].sentAt /\ At(r, j) = db.conversations[j].sentAt
    BY <1>2 DEF At, OfPosts
  <2>5. At(r, i) \in Nat \cup {None} /\ At(r, j) \in Nat \cup {None} /\ None \notin Nat
    BY <2>1, <2>3, <2>4, NoneAssumption
  <2>6. PICK x, y : x = At(r, i) /\ y = At(r, j)
    OBVIOUS
  <2>7. /\ InFront(r, i, j) <=> (x # None /\ (y = None \/ x > y)) \/ (x = y /\ i > j)
        /\ InFront(r, j, i) <=> (y # None /\ (x = None \/ y > x)) \/ (y = x /\ j > i)
    BY <1>2, <2>6, FrontIs
  <2>8. QED
    BY <2>2, <2>5, <2>6, <2>7
<1>3. ASSUME At(r, i) \in Nat, At(r, j) \in Nat, Op(r) # "conversations",
             i # j => At(r, i) # At(r, j)
      PROVE  /\ i # j => InFront(r, i, j) \/ InFront(r, j, i)
             /\ ~(InFront(r, i, j) /\ InFront(r, j, i))
  <2>1. \/ (InFront(r, i, j) <=> At(r, i) < At(r, j)) /\ (InFront(r, j, i) <=> At(r, j) < At(r, i))
        \/ (InFront(r, i, j) <=> At(r, i) > At(r, j)) /\ (InFront(r, j, i) <=> At(r, j) > At(r, i))
    BY <1>3, FrontIs
  <2>2. QED
    BY <1>3, <2>1
<1>4. CASE Op(r) \in OfPosts
  <2>1. i \in PostIds /\ j \in PostIds
    BY <1>4, IdsFrom
  <2>2. At(r, i) = db.posts[i].at /\ At(r, j) = db.posts[j].at
    BY <1>4 DEF At, OfPosts
  <2>3. db.posts[i].at \in Seconds /\ db.posts[j].at \in Seconds
    BY <2>1, RowTypes DEF PostRow
  <2>4. i # j => db.posts[i].at # db.posts[j].at
    BY <1>4, <2>1 DEF Tied, PostIds
  <2>5. Op(r) # "conversations"
    BY <1>4 DEF OfPosts
  <2>6. QED
    BY <1>1, <1>3, <2>2, <2>3, <2>4, <2>5
<1>5. CASE Op(r) = "purchases"
  <2>1. i \in DOMAIN db.progress /\ j \in DOMAIN db.progress
    BY <1>5, IdsFrom
  <2>2. At(r, i) = db.progress[i].at /\ At(r, j) = db.progress[j].at
    BY <1>5 DEF At, OfPosts
  <2>3. db.progress[i].at \in Seconds /\ db.progress[j].at \in Seconds
    BY <2>1, RowTypes DEF ProgressRow
  <2>4. i # j => db.progress[i].at # db.progress[j].at
    BY <1>5, <2>1 DEF Tied, OfPosts
  <2>5. QED
    BY <1>1, <1>3, <1>5, <2>2, <2>3, <2>4
<1>6. CASE Op(r) = "notifications"
  <2>1. i \in DOMAIN db.notifications /\ j \in DOMAIN db.notifications
    BY <1>6, IdsFrom
  <2>2. At(r, i) = db.notifications[i].at /\ At(r, j) = db.notifications[j].at
    BY <1>6 DEF At, OfPosts
  <2>3. db.notifications[i].at \in Seconds /\ db.notifications[j].at \in Seconds
    BY <2>1, RowTypes DEF NotificationRow
  <2>4. i # j => db.notifications[i].at # db.notifications[j].at
    BY <1>6, <2>1 DEF Tied, OfPosts
  <2>5. QED
    BY <1>1, <1>3, <1>6, <2>2, <2>3, <2>4
<1>7. CASE Op(r) = "universities"
  <2>1. i \in Nat /\ j \in Nat
    BY <1>7, IdsFrom
  <2>2. At(r, i) = i /\ At(r, j) = j
    BY <1>7 DEF At, OfPosts
  <2>3. QED
    BY <1>3, <1>7, <2>1, <2>2
<1>8. QED
  BY <1>2, <1>4, <1>5, <1>6, <1>7 DEF Lists

\* A list has so many entries ...
LEMMA FiniteIds ==
  ASSUME DataInv, NEW r \in Req, Op(r) \in Lists, NEW kept
  PROVE  IsFiniteSet(Ids(r, kept))
<1>1. ASSUME NEW R, NEW s \in Seq(R) PROVE IsFiniteSet(DOMAIN s)
  <2>1. DOMAIN s = 1 .. Len(s) /\ Len(s) \in Nat
    OBVIOUS
  <2>2. QED
    BY <2>1, CountUpTo
<1>2. /\ IsFiniteSet(PostIds) /\ IsFiniteSet(DOMAIN db.progress)
      /\ IsFiniteSet(ConversationIds) /\ IsFiniteSet(DOMAIN db.notifications)
  BY <1>1, RowTypes DEF PostIds, ConversationIds
<1>3. PICK f : f = [p \in PostIds |-> db.users[db.posts[p].user].university]
  OBVIOUS
<1>4. PICK U : U = {f[p] : p \in PostIds}
  OBVIOUS
<1>5. IsFiniteSet(U)
  BY <1>2, <1>4, FiniteImage
<1>6. CASE Op(r) = "universities"
  <2>1. Ids(r, kept) \subseteq U
    BY <1>3, <1>4, <1>6, IdsFrom
  <2>2. QED
    BY <1>5, <2>1, FS_Subset
<1>7. CASE Op(r) \in OfPosts
  <2>1. Ids(r, kept) \subseteq PostIds
    BY <1>7, IdsFrom
  <2>2. QED
    BY <1>2, <2>1, FS_Subset
<1>8. CASE Op(r) = "purchases"
  <2>1. Ids(r, kept) \subseteq DOMAIN db.progress
    BY <1>8, IdsFrom
  <2>2. QED
    BY <1>2, <2>1, FS_Subset
<1>9. CASE Op(r) = "conversations"
  <2>1. Ids(r, kept) \subseteq ConversationIds
    BY <1>9, IdsFrom
  <2>2. QED
    BY <1>2, <2>1, FS_Subset
<1>10. CASE Op(r) = "notifications"
  <2>1. Ids(r, kept) \subseteq DOMAIN db.notifications
    BY <1>10, IdsFrom
  <2>2. QED
    BY <1>2, <2>1, FS_Subset
<1>11. QED
  BY <1>6, <1>7, <1>8, <1>9, <1>10 DEF Lists

\* ... each with a place of its own.
LEMMA ListOrdered ==
  ASSUME DataInv, ImageInv, RowsInv, NEW r \in Req, Op(r) \in Lists, ~Tied(r), NEW kept
  PROVE  Ordered(r, Rows(r, kept))
<1>1. \A a, b \in Rows(r, kept) : a.at = At(r, a.id) /\ (a.id = b.id => a = b)
  BY RowsOfIds
<1>2. \A a \in Rows(r, kept) : a.id \in Ids(r, kept)
  BY DEF Ids
<1>3. \A a, b \in Rows(r, kept) :
        /\ a.id # b.id => InFront(r, a.id, b.id) \/ InFront(r, b.id, a.id)
        /\ ~(InFront(r, a.id, b.id) /\ InFront(r, b.id, a.id))
  BY <1>2, FrontTotal
<1>4. ASSUME NEW a \in Rows(r, kept), NEW b \in Rows(r, kept)
      PROVE  Before(r, a, b) <=> InFront(r, a.id, b.id)
  <2>1. PICK c, d : c = [id |-> a.id, at |-> At(r, a.id)] /\ d = [id |-> b.id, at |-> At(r, b.id)]
    OBVIOUS
  <2>2. c.id = a.id /\ c.at = a.at /\ d.id = b.id /\ d.at = b.at
    BY <1>1, <2>1
  <2>3. Before(r, a, b) <=> Before(r, c, d)
    BY <2>2 DEF Before
  <2>4. QED
    BY <2>1, <2>3 DEF InFront
<1>5. QED
  BY <1>1, <1>3, <1>4 DEF Ordered

\* The entries of a list and their number, after a step.
LEMMA IdsAfter ==
  /\ (\A r \in Req : Op(r) \in Lists =>
        \A kept, i : i \in Ids(r, kept) <=> InList(r, kept, i))'
  /\ (DataInv => \A r \in Req : Op(r) \in Lists =>
        \A kept : IsFiniteSet(Ids(r, kept)))'
<1>1. \A r \in Req : Op(r) \in Lists =>
        \A kept, i : i \in Ids(r, kept) <=> InList(r, kept, i)
  BY IdsAre
<1>2. DataInv => \A r \in Req : Op(r) \in Lists => \A kept : IsFiniteSet(Ids(r, kept))
  BY FiniteIds
<1>3. QED
  BY <1>1, <1>2, PTL

\* What a step that is not among the appearing leaves out, it did before, ...
LEMMA PostListsMove ==
  ASSUME DataInv, NEW h \in Req, Handle(h), NEW r \in Req,
         Op(r) \in {"list", "search", "universities"}, NEW kept, NEW i
  PROVE  /\ Op(h) \notin Appearing(Op(r)) /\ InList(r, kept, i)' => InList(r, kept, i)
         /\ Op(h) \notin Vanishing(Op(r)) /\ InList(r, kept, i) => InList(r, kept, i)'
<1>1. StageInv /\ plan' = plan /\ Req' = Req
  BY HandleMoves DEF DataInv
<1>2. /\ Op(r)' = Op(r) /\ User(r)' = User(r) /\ plan'[r] = plan[r]
  BY <1>1 DEF Op, User
<1>3. ASSUME NEW p \in PostIds'
      PROVE  p \in PostIds \/ Op(h) = "create"
  BY <1>1, PostsKept, WriterOps
<1>4. ASSUME NEW p \in PostIds
      PROVE  /\ p \in PostIds'
             /\ Shown(p)' => Shown(p) \/ Op(h) = "unhide"
             /\ Shown(p) => Shown(p)' \/ Op(h) \in {"hide", "delete", "withdraw"}
             /\ db'.posts[p].region = db.posts[p].region
             /\ db'.posts[p].user = db.posts[p].user
             /\ db'.users[db.posts[p].user].university
                  = db.users[db.posts[p].user].university
             /\ Op(h) # "edit" => (Matches(r, db.posts[p])' <=> Matches(r, db.posts[p]))
  <2>1. /\ p \in PostIds'
        /\ db'.posts[p].region = db.posts[p].region
        /\ db'.posts[p].user = db.posts[p].user
        /\ db'.posts[p].title = db.posts[p].title
        /\ db'.posts[p].category = db.posts[p].category
        /\ db'.posts[p].currency = db.posts[p].currency
        /\ db'.posts[p].status = db.posts[p].status
        /\ db'.posts[p].price = db.posts[p].price \/ Op(h) = "edit"
    BY PostColumns, PostsKept
  <2>2. /\ db'.posts[p].live => db.posts[p].live
        /\ db.posts[p].live /\ ~db'.posts[p].live => Op(h) \in {"delete", "withdraw"}
        /\ \/ db'.posts[p].hidden = db.posts[p].hidden
           \/ Op(h) = "hide" /\ db'.posts[p].hidden
           \/ Op(h) = "unhide" /\ ~db'.posts[p].hidden
    <3>1. /\ DeleteProductPost(h) => Op(h) = "delete"
          /\ Withdraw(h) => Op(h) = "withdraw"
          /\ HideProductPost(h) => Op(h) \in {"hide", "unhide"}
      BY <1>1, WriterOps
    <3>2. QED
      BY <3>1, PostsKept
  <2>3. /\ Shown(p) <=> db.posts[p].live /\ ~db.posts[p].hidden
        /\ Shown(p)' <=> db'.posts[p].live /\ ~db'.posts[p].hidden
    BY <2>1 DEF Shown, FindPost, LiveRows, PostIds
  <2>4. db.posts[p].user \in UserIds
    BY RowTypes DEF PostRow
  <2>5. db'.users[db.posts[p].user].university = db.users[db.posts[p].user].university
    BY <2>4, UserColumns
  <2>6. ASSUME Op(h) # "edit"
        PROVE  Matches(r, db.posts[p])' <=> Matches(r, db.posts[p])
    BY <1>2, <2>1, <2>5, <2>6 DEF Matches
  <2>7. QED
    BY <2>1, <2>2, <2>3, <2>5, <2>6
<1>5. CASE Op(r) = "list"
  <2>1. /\ InList(r, kept, i) <=>
             /\ i \in PostIds /\ Shown(i) /\ db.posts[i].region = plan[r].region
             /\ db.posts[i].user \notin kept
        /\ InList(r, kept, i)' <=>
             /\ i \in PostIds' /\ Shown(i)' /\ db'.posts[i].region = plan[r].region
             /\ db'.posts[i].user \notin kept
    BY <1>2, <1>5 DEF InList
  <2>2. /\ Appearing(Op(r)) = {"create", "unhide", "edit"}
        /\ Vanishing(Op(r)) = {"hide", "delete", "withdraw"}
    BY <1>5 DEF Appearing, Vanishing
  <2>3. QED
    BY <1>3, <1>4, <2>1, <2>2
<1>6. CASE Op(r) = "search"
  <2>1. /\ InList(r, kept, i) <=>
             /\ i \in PostIds /\ Shown(i) /\ db.posts[i].region = plan[r].region
             /\ db.posts[i].user \notin kept /\ Matches(r, db.posts[i])
        /\ InList(r, kept, i)' <=>
             /\ i \in PostIds' /\ Shown(i)' /\ db'.posts[i].region = plan[r].region
             /\ db'.posts[i].user \notin kept /\ Matches(r, db.posts[i])'
    BY <1>2, <1>6 DEF InList
  <2>2. /\ Appearing(Op(r)) = {"create", "unhide", "edit"}
        /\ Vanishing(Op(r)) = {"hide", "delete", "withdraw", "edit"}
    BY <1>6 DEF Appearing, Vanishing
  <2>3. QED
    BY <1>3, <1>4, <2>1, <2>2
<1>7. CASE Op(r) = "universities"
  <2>1. /\ InList(r, kept, i) <=> i \in plan[r].among /\ \E p \in PostIds :
             /\ Shown(p) /\ db.posts[p].region = kept
             /\ db.users[db.posts[p].user].university = i
        /\ InList(r, kept, i)' <=> i \in plan[r].among /\ \E p \in PostIds' :
             /\ Shown(p)' /\ db'.posts[p].region = kept
             /\ db'.users[db'.posts[p].user].university = i
    BY <1>2, <1>7 DEF InList
  <2>2. /\ Appearing(Op(r)) = {"create", "unhide", "edit"}
        /\ Vanishing(Op(r)) = {"hide", "delete", "withdraw"}
    BY <1>7 DEF Appearing, Vanishing
  <2>3. ASSUME Op(h) \notin Appearing(Op(r)), InList(r, kept, i)' PROVE InList(r, kept, i)
    <3>1. PICK p \in PostIds' : /\ Shown(p)' /\ db'.posts[p].region = kept
                                /\ db'.users[db'.posts[p].user].university = i
      BY <2>1, <2>3
    <3>2. p \in PostIds
      BY <1>3, <2>2, <2>3
    <3>3. /\ Shown(p) /\ db.posts[p].region = kept
          /\ db.users[db.posts[p].user].university = i
      BY <1>4, <2>2, <2>3, <3>1, <3>2
    <3>4. QED
      BY <2>1, <2>3, <3>2, <3>3
  <2>4. ASSUME Op(h) \notin Vanishing(Op(r)), InList(r, kept, i) PROVE InList(r, kept, i)'
    <3>1. PICK p \in PostIds : /\ Shown(p) /\ db.posts[p].region = kept
                               /\ db.users[db.posts[p].user].university = i
      BY <2>1, <2>4
    <3>2. /\ p \in PostIds' /\ Shown(p)' /\ db'.posts[p].region = kept
          /\ db'.users[db'.posts[p].user].university = i
      BY <1>4, <2>2, <2>4, <3>1
    <3>3. QED
      BY <2>1, <2>4, <3>2
  <2>5. QED
    BY <2>3, <2>4
<1>8. QED
  BY <1>5, <1>6, <1>7

\* No request outside Appearing brings in a sale or a like of one's own,
\* and none outside Vanishing takes one out.
LEMMA SalesMove ==
  ASSUME DataInv, NEW h \in Req, Handle(h), NEW r \in Req,
         Op(r) \in {"mySales", "userSales", "myLikes"}, NEW kept, NEW i
  PROVE  /\ Op(h) \notin Appearing(Op(r)) /\ InList(r, kept, i)' => InList(r, kept, i)
         /\ Op(h) \notin Vanishing(Op(r)) /\ InList(r, kept, i) => InList(r, kept, i)'
<1>1. StageInv /\ plan' = plan /\ Req' = Req
  BY HandleMoves DEF DataInv
<1>2. /\ Op(r)' = Op(r) /\ User(r)' = User(r) /\ plan'[r] = plan[r]
  BY <1>1 DEF Op, User
<1>3. i \in PostIds' => i \in PostIds \/ Op(h) = "create"
  BY <1>1, PostsKept, WriterOps
<1>4. i \in PostIds => i \in PostIds'
  BY PostsKept
<1>5. /\ FindPost(db, i) <=> i \in PostIds /\ db.posts[i].live
      /\ FindPost(db', i) <=> i \in PostIds' /\ db'.posts[i].live
  BY DEF FindPost, LiveRows, PostIds
<1>6. ASSUME i \in PostIds
      PROVE  /\ db'.posts[i].user = db.posts[i].user
             /\ db'.posts[i].status = db.posts[i].status
             /\ db'.posts[i].live => db.posts[i].live
             /\ db.posts[i].live /\ ~db'.posts[i].live => Op(h) \in {"delete", "withdraw"}
             /\ \/ db'.posts[i].hidden = db.posts[i].hidden
                \/ Op(h) = "hide" /\ db'.posts[i].hidden
                \/ Op(h) = "unhide" /\ ~db'.posts[i].hidden
  <2>1. /\ DeleteProductPost(h) => Op(h) = "delete"
        /\ Withdraw(h) => Op(h) = "withdraw"
        /\ HideProductPost(h) => Op(h) \in {"hide", "unhide"}
    BY <1>1, WriterOps
  <2>2. QED
    BY <1>6, <2>1, PostsKept
<1>7. CASE Op(r) = "mySales"
  <2>1. /\ InList(r, kept, i) <=>
             /\ FindPost(db, i) /\ db.posts[i].user = User(r)
             /\ db.posts[i].status \in Statuses(plan[r].filter)
             /\ plan[r].filter = "HIDDEN" => db.posts[i].hidden
        /\ InList(r, kept, i)' <=>
             /\ FindPost(db', i) /\ db'.posts[i].user = User(r)
             /\ db'.posts[i].status \in Statuses(plan[r].filter)
             /\ plan[r].filter = "HIDDEN" => db'.posts[i].hidden
    BY <1>2, <1>7 DEF InList
  <2>2. /\ Appearing(Op(r)) = {"create", "hide", "unhide"}
        /\ Vanishing(Op(r)) = {"hide", "unhide", "delete", "withdraw"}
    BY <1>7 DEF Appearing, Vanishing
  <2>3. QED
    BY <1>3, <1>4, <1>5, <1>6, <2>1, <2>2
<1>8. CASE Op(r) = "userSales"
  <2>1. /\ InList(r, kept, i) <=>
             /\ FindPost(db, i) /\ ~db.posts[i].hidden
             /\ db.posts[i].user = plan[r].seller
             /\ db.posts[i].status \in Statuses(plan[r].filter)
        /\ InList(r, kept, i)' <=>
             /\ FindPost(db', i) /\ ~db'.posts[i].hidden
             /\ db'.posts[i].user = plan[r].seller
             /\ db'.posts[i].status \in Statuses(plan[r].filter)
    BY <1>2, <1>8 DEF InList, Shown
  <2>2. /\ Appearing(Op(r)) = {"create", "unhide"}
        /\ Vanishing(Op(r)) = {"hide", "delete", "withdraw"}
    BY <1>8 DEF Appearing, Vanishing
  <2>3. QED
    BY <1>3, <1>4, <1>5, <1>6, <2>1, <2>2
<1>9. CASE Op(r) = "myLikes"
  <2>1. /\ InList(r, kept, i) <=>
             /\ i \in PostIds /\ FindPost(db, i) /\ ~db.posts[i].hidden
             /\ FindLike(db, i, User(r)) # {}
        /\ InList(r, kept, i)' <=>
             /\ i \in PostIds' /\ FindPost(db', i) /\ ~db'.posts[i].hidden
             /\ FindLike(db', i, User(r)) # {}
    BY <1>2, <1>9 DEF InList, Shown
  <2>2. /\ Appearing(Op(r)) = {"create", "unhide", "like"}
        /\ Vanishing(Op(r)) = {"hide", "delete", "withdraw", "unlike"}
    BY <1>9 DEF Appearing, Vanishing
  <2>3. FindLike(db', i, User(r)) # {} => FindLike(db, i, User(r)) # {} \/ Op(h) = "like"
    <3>1. ASSUME NEW k \in FindLike(db', i, User(r))
          PROVE  k \in FindLike(db, i, User(r)) \/ Op(h) = "like"
      BY <1>1, FoundLikes, WriterOps
    <3>2. QED
      BY <3>1
  <2>4. FindLike(db, i, User(r)) # {} => FindLike(db', i, User(r)) # {} \/ Op(h) = "unlike"
    <3>1. ASSUME NEW k \in FindLike(db, i, User(r))
          PROVE  k \in FindLike(db', i, User(r)) \/ Op(h) = "unlike"
      <4>1. /\ k \in DOMAIN db.likes /\ db.likes[k].stored
            /\ db.likes[k].post = i /\ db.likes[k].user = User(r)
        BY DEF FindLike, FindLikes
      <4>2. /\ k \in DOMAIN db'.likes
            /\ db'.likes[k].stored \/ DeleteLike(h)
            /\ db'.likes[k].post = i /\ db'.likes[k].user = User(r)
        BY <4>1, LikesKept
      <4>3. k \in DOMAIN db'.likes
        BY <4>1, LikesKept
      <4>4. QED
        BY <1>1, <4>2, <4>3, WriterOps DEF FindLike, FindLikes
    <3>2. QED
      BY <3>1
  <2>5. QED
    BY <1>3, <1>4, <1>5, <1>6, <2>1, <2>2, <2>3, <2>4
<1>10. QED
  BY <1>7, <1>8, <1>9

\* The same of purchases, conversations and notifications.
LEMMA OtherListsMove ==
  ASSUME DataInv, NEW h \in Req, Handle(h), NEW r \in Req,
         Op(r) \in {"purchases", "conversations", "notifications"}, NEW kept, NEW i
  PROVE  /\ Op(h) \notin Appearing(Op(r)) /\ InList(r, kept, i)' => InList(r, kept, i)
         /\ Op(h) \notin Vanishing(Op(r)) /\ InList(r, kept, i) => InList(r, kept, i)'
<1>1. StageInv /\ plan' = plan /\ Req' = Req
  BY HandleMoves DEF DataInv
<1>2. /\ Op(r)' = Op(r) /\ User(r)' = User(r) /\ plan'[r] = plan[r]
  BY <1>1 DEF Op, User
<1>3. CASE Op(r) = "purchases"
  <2>1. db'.progress = db.progress
    BY TableWriters
  <2>2. /\ InList(r, kept, i) <=>
             /\ i \in LiveRows(db.progress) /\ db.progress[i].buyer = User(r)
             /\ db.progress[i].status = "COMPLETED"
        /\ InList(r, kept, i)' <=>
             /\ i \in LiveRows(db'.progress) /\ db'.progress[i].buyer = User(r)
             /\ db'.progress[i].status = "COMPLETED"
    BY <1>2, <1>3 DEF InList, LiveRows
  <2>3. QED
    BY <2>1, <2>2
<1>4. CASE Op(r) = "notifications"
  <2>1. /\ InList(r, kept, i) <=>
             /\ i \in DOMAIN db.notifications /\ db.notifications[i].live
             /\ db.notifications[i].user = User(r)
        /\ InList(r, kept, i)' <=>
             /\ i \in DOMAIN db'.notifications /\ db'.notifications[i].live
             /\ db'.notifications[i].user = User(r)
    BY <1>2, <1>4 DEF InList, Owned, LiveRows
  <2>2. /\ Appearing(Op(r)) = {"edit"}
        /\ Vanishing(Op(r)) = {"deleteNotifications", "deleteAllNotifications", "withdraw"}
    BY <1>4 DEF Appearing, Vanishing
  <2>3. /\ CommitEdit(h) => Op(h) = "edit"
        /\ Withdraw(h) => Op(h) = "withdraw"
        /\ DeleteNotifications(h) => Op(h) \in {"deleteNotifications", "deleteAllNotifications"}
    BY <1>1, WriterOps
  <2>4. ASSUME i \in DOMAIN db.notifications
        PROVE  /\ i \in DOMAIN db'.notifications
               /\ db'.notifications[i].user = db.notifications[i].user
               /\ db'.notifications[i].live => db.notifications[i].live
               /\ db.notifications[i].live /\ ~db'.notifications[i].live =>
                    DeleteNotifications(h) \/ Withdraw(h)
    BY <2>4, NotificationsKept, NotificationColumns
  <2>5. i \in DOMAIN db'.notifications => i \in DOMAIN db.notifications \/ CommitEdit(h)
    BY NotificationsKept
  <2>6. QED
    BY <2>1, <2>2, <2>3, <2>4, <2>5
<1>5. CASE Op(r) = "conversations"
  <2>1. /\ InList(r, kept, i) <=> \E k \in ActiveParticipants(db) :
             /\ db.participants[k].user = User(r) /\ db.participants[k].conv = i
             /\ plan[r].post \in {None, db.conversations[i].post}
        /\ InList(r, kept, i)' <=> \E k \in ActiveParticipants(db') :
             /\ db'.participants[k].user = User(r) /\ db'.participants[k].conv = i
             /\ plan[r].post \in {None, db'.conversations[i].post}
    BY <1>2, <1>5 DEF InList
  <2>2. /\ Appearing(Op(r)) = {"createConversation", "send", "leave"}
        /\ Vanishing(Op(r)) = {"leave", "withdraw", "send"}
    BY <1>5 DEF Appearing, Vanishing
  <2>3. /\ InsertConversation(h) => Op(h) = "createConversation"
        /\ LeaveConversation(h) => Op(h) = "leave"
        /\ SaveMessage(h) => Op(h) = "send"
        /\ Withdraw(h) => Op(h) = "withdraw"
    BY <1>1, WriterOps
  <2>4. ASSUME NEW k \in DOMAIN db.participants, Op(h) \notin {"send", "leave"}
        PROVE  /\ k \in DOMAIN db'.participants
               /\ db'.participants[k].conv = db.participants[k].conv
               /\ db'.participants[k].user = db.participants[k].user
               /\ db'.participants[k].leftAt = db.participants[k].leftAt
               /\ db'.participants[k].live => db.participants[k].live
               /\ db.participants[k].live /\ ~db'.participants[k].live => Op(h) = "withdraw"
               /\ LET c == db.participants[k].conv
                  IN db'.conversations[c] = db.conversations[c]
               /\ Reappeared(db', k) <=> Reappeared(db, k)
    <3>1. /\ k \in DOMAIN db'.participants
          /\ db'.participants[k].conv = db.participants[k].conv
          /\ db'.participants[k].user = db.participants[k].user
          /\ db'.participants[k].leftAt = db.participants[k].leftAt
          /\ db'.participants[k].live => db.participants[k].live
          /\ db.participants[k].live /\ ~db'.participants[k].live => Op(h) = "withdraw"
      BY <2>3, <2>4, ParticipantsKept
    <3>2. PICK c : c = db.participants[k].conv
      OBVIOUS
    <3>3. c \in ConversationIds
      BY <2>4, <3>2, RowTypes DEF ParticipantRow
    <3>4. db'.conversations[c] = db.conversations[c]
      BY <2>3, <2>4, <3>3, ConversationsKept
    <3>5. Reappeared(db', k) <=> Reappeared(db, k)
      BY <3>1, <3>2, <3>4 DEF Reappeared
    <3>6. QED
      BY <3>1, <3>2, <3>4, <3>5
  <2>5. ASSUME Op(h) \notin Appearing(Op(r)), InList(r, kept, i)'
        PROVE  InList(r, kept, i)
    <3>1. PICK k \in ActiveParticipants(db') :
             /\ db'.participants[k].user = User(r) /\ db'.participants[k].conv = i
             /\ plan[r].post \in {None, db'.conversations[i].post}
      BY <2>1, <2>5
    <3>2. /\ k \in DOMAIN db'.participants /\ db'.participants[k].live
          /\ db'.participants[k].leftAt = None \/ Reappeared(db', k)
      BY <3>1 DEF ActiveParticipants, LiveRows
    <3>3. k \in DOMAIN db.participants
      BY <2>2, <2>3, <2>5, <3>2, ParticipantsKept
    <3>4. k \in ActiveParticipants(db) /\ db.conversations[i].post = db'.conversations[i].post
          /\ db.participants[k].user = User(r) /\ db.participants[k].conv = i
      BY <2>2, <2>4, <2>5, <3>1, <3>2, <3>3 DEF ActiveParticipants, LiveRows
    <3>5. QED
      BY <2>1, <3>1, <3>4
  <2>6. ASSUME Op(h) \notin Vanishing(Op(r)), InList(r, kept, i)
        PROVE  InList(r, kept, i)'
    <3>1. PICK k \in ActiveParticipants(db) :
             /\ db.participants[k].user = User(r) /\ db.participants[k].conv = i
             /\ plan[r].post \in {None, db.conversations[i].post}
      BY <2>1, <2>6
    <3>2. /\ k \in DOMAIN db.participants /\ db.participants[k].live
          /\ db.participants[k].leftAt = None \/ Reappeared(db, k)
      BY <3>1 DEF ActiveParticipants, LiveRows
    <3>3. k \in ActiveParticipants(db') /\ db.conversations[i].post = db'.conversations[i].post
          /\ db'.participants[k].user = User(r) /\ db'.participants[k].conv = i
      BY <2>2, <2>4, <2>6, <3>1, <3>2 DEF ActiveParticipants, LiveRows
    <3>4. QED
      BY <2>1, <3>1, <3>3
  <2>7. QED
    BY <2>5, <2>6
<1>6. QED
  BY <1>3, <1>4, <1>5

\* ... and a step that is not among the vanishing leaves in what was there.
LEMMA ListMoves ==
  ASSUME DataInv, NEW h \in Req, Handle(h), NEW r \in Req, Op(r) \in Lists, NEW kept
  PROVE  /\ Op(h) \notin Appearing(Op(r)) => Ids(r, kept)' \subseteq Ids(r, kept)
         /\ Op(h) \notin Vanishing(Op(r)) => Ids(r, kept) \subseteq Ids(r, kept)'
         /\ IsFiniteSet(Ids(r, kept)) /\ IsFiniteSet(Ids(r, kept)')
<1>1. plan' = plan /\ Req' = Req /\ DataInv'
  BY HandleMoves
<1>2. Op(r)' = Op(r)
  BY <1>1 DEF Op
<1>3. \A i : i \in Ids(r, kept) <=> InList(r, kept, i)
  BY IdsAre
<1>4. \A i : i \in Ids(r, kept)' <=> InList(r, kept, i)'
  BY <1>1, <1>2, IdsAfter
<1>5. IsFiniteSet(Ids(r, kept)) /\ IsFiniteSet(Ids(r, kept)')
  BY <1>1, <1>2, IdsAfter, FiniteIds
<1>6. \A i : /\ Op(h) \notin Appearing(Op(r)) /\ InList(r, kept, i)' => InList(r, kept, i)
             /\ Op(h) \notin Vanishing(Op(r)) /\ InList(r, kept, i) => InList(r, kept, i)'
  <2>1. ASSUME NEW i
        PROVE  /\ Op(h) \notin Appearing(Op(r)) /\ InList(r, kept, i)' => InList(r, kept, i)
               /\ Op(h) \notin Vanishing(Op(r)) /\ InList(r, kept, i) => InList(r, kept, i)'
    <3>1. CASE Op(r) \in {"list", "search", "universities"}
      BY <3>1, PostListsMove
    <3>2. CASE Op(r) \in {"mySales", "userSales", "myLikes"}
      BY <3>2, SalesMove
    <3>3. CASE Op(r) \in {"purchases", "conversations", "notifications"}
      BY <3>3, OtherListsMove
    <3>4. QED
      BY <3>1, <3>2, <3>3 DEF Lists, OfPosts
  <2>2. QED
    BY <2>1
<1>7. QED
  BY <1>3, <1>4, <1>5, <1>6

\* Of two entries, the same one stays in front, but for a message that is sent.
LEMMA FrontKept ==
  ASSUME DataInv, NEW h \in Req, Handle(h), NEW r \in Req, Op(r) \in Lists,
         Op(r) = "conversations" => Op(h) # "send",
         NEW kept, NEW i \in Ids(r, kept), NEW j \in Ids(r, kept)
  PROVE  InFront(r, i, j)' <=> InFront(r, i, j)
<1>1. StageInv /\ plan' = plan /\ Req' = Req
  BY HandleMoves DEF DataInv
<1>2. Op(r)' = Op(r) /\ plan'[r] = plan[r]
  BY <1>1 DEF Op
<1>3. ASSUME NEW k \in Ids(r, kept) PROVE At(r, k)' = At(r, k)
  <2>1. CASE Op(r) \in OfPosts
    <3>1. k \in PostIds
      BY <2>1, IdsFrom
    <3>2. At(r, k) = db.posts[k].at /\ At(r, k)' = db'.posts[k].at
      BY <1>2, <2>1 DEF At, OfPosts
    <3>3. QED
      BY <3>1, <3>2, PostColumns
  <2>2. CASE Op(r) = "purchases"
    <3>1. At(r, k) = db.progress[k].at /\ At(r, k)' = db'.progress[k].at
      BY <1>2, <2>2 DEF At, OfPosts
    <3>2. QED
      BY <3>1, TableWriters
  <2>3. CASE Op(r) = "notifications"
    <3>1. k \in DOMAIN db.notifications
      BY <2>3, IdsFrom
    <3>2. At(r, k) = db.notifications[k].at /\ At(r, k)' = db'.notifications[k].at
      BY <1>2, <2>3 DEF At, OfPosts
    <3>3. QED
      BY <3>1, <3>2, NotificationColumns
  <2>4. CASE Op(r) = "conversations"
    <3>1. k \in ConversationIds
      BY <2>4, IdsFrom
    <3>2. At(r, k) = db.conversations[k].sentAt /\ At(r, k)' = db'.conversations[k].sentAt
      BY <1>2, <2>4 DEF At, OfPosts
    <3>3. ~SaveMessage(h)
      BY <1>1, <2>4, WriterOps
    <3>4. QED
      BY <3>1, <3>2, <3>3, ConversationsKept
  <2>5. CASE Op(r) = "universities"
    BY <1>2, <2>5 DEF At, OfPosts
  <2>6. QED
    BY <2>1, <2>2, <2>3, <2>4, <2>5 DEF Lists, OfPosts
<1>4. At(r, i)' = At(r, i) /\ At(r, j)' = At(r, j)
  BY <1>3
<1>5. PICK a, b : a = [id |-> i, at |-> At(r, i)] /\ b = [id |-> j, at |-> At(r, j)]
  OBVIOUS
<1>6. InFront(r, i, j) <=> Before(r, a, b)
  BY <1>5 DEF InFront
<1>7. InFront(r, i, j)' <=> Before(r, a, b)'
  BY <1>4, <1>5 DEF InFront
<1>8. Before(r, a, b)' <=> Before(r, a, b)
  BY <1>2 DEF Before
<1>9. QED
  BY <1>6, <1>7, <1>8

\* The list that r reads, and how many entries stand before i.
Listed(r)   == Ids(r, FirstFilter(r))

\* Where an entry stands in the list, counted from 0.
Place(r, i) == Rank(r, Listed(r), i)

\* A step outside Appearing brings nothing in and moves no entry back; one
\* outside Vanishing takes nothing out and moves no entry forward.
LEMMA ListedMoves ==
  ASSUME DataInv, NEW h \in Req, Handle(h), NEW r \in Req, Op(r) \in Lists
  PROVE  /\ Op(h) \notin Appearing(Op(r)) =>
              /\ Listed(r)' \subseteq Listed(r)
              /\ \A i \in Listed(r)' : Place(r, i) \in Nat /\ Place(r, i)' \in Nat
                                       /\ Place(r, i)' <= Place(r, i)
         /\ Op(h) \notin Vanishing(Op(r)) =>
              /\ Listed(r) \subseteq Listed(r)'
              /\ \A i \in Listed(r) : Place(r, i) \in Nat /\ Place(r, i)' \in Nat
                                      /\ Place(r, i) <= Place(r, i)'
<1>1. plan' = plan /\ Req' = Req
  BY HandleMoves
<1>2. PICK kept : kept = FirstFilter(r)
  OBVIOUS
<1>3. FirstFilter(r)' = FirstFilter(r)
  BY <1>1 DEF FirstFilter, Op, User
<1>4. Listed(r) = Ids(r, kept) /\ Listed(r)' = Ids(r, kept)'
  BY <1>2, <1>3 DEF Listed
<1>5. /\ Op(h) \notin Appearing(Op(r)) => Listed(r)' \subseteq Listed(r)
      /\ Op(h) \notin Vanishing(Op(r)) => Listed(r) \subseteq Listed(r)'
      /\ IsFiniteSet(Listed(r)) /\ IsFiniteSet(Listed(r)')
  BY <1>4, ListMoves
<1>6. ASSUME Op(r) = "conversations" => Op(h) # "send",
             NEW i \in Listed(r), NEW j \in Listed(r)
      PROVE  InFront(r, i, j)' <=> InFront(r, i, j)
  BY <1>4, <1>6, FrontKept
<1>7. Op(h) \notin Appearing(Op(r)) \/ Op(h) \notin Vanishing(Op(r)) =>
        (Op(r) = "conversations" => Op(h) # "send")
  BY DEF Appearing, Vanishing
<1>8. ASSUME NEW i
      PROVE  /\ Place(r, i) = Cardinality({j \in Listed(r) : InFront(r, j, i)})
             /\ Place(r, i)' = Cardinality({j \in Listed(r)' : InFront(r, j, i)'})
  BY DEF Place, Rank
<1>9. ASSUME Op(h) \notin Appearing(Op(r)), NEW i \in Listed(r)'
      PROVE  Place(r, i) \in Nat /\ Place(r, i)' \in Nat /\ Place(r, i)' <= Place(r, i)
  <2>1. PICK A, B : /\ A = {j \in Listed(r) : InFront(r, j, i)}
                    /\ B = {j \in Listed(r)' : InFront(r, j, i)'}
    OBVIOUS
  <2>2. B \subseteq A
    BY <1>5, <1>6, <1>7, <1>9, <2>1
  <2>3. A \subseteq Listed(r)
    BY <2>1
  <2>4. IsFiniteSet(A)
    BY <1>5, <2>3, FS_Subset
  <2>5. IsFiniteSet(B) /\ Cardinality(B) <= Cardinality(A)
    BY <2>2, <2>4, FS_Subset
  <2>6. QED
    BY <1>8, <2>1, <2>4, <2>5, FS_CardinalityType
<1>10. ASSUME Op(h) \notin Vanishing(Op(r)), NEW i \in Listed(r)
       PROVE  Place(r, i) \in Nat /\ Place(r, i)' \in Nat /\ Place(r, i) <= Place(r, i)'
  <2>1. PICK A, B : /\ A = {j \in Listed(r) : InFront(r, j, i)}
                    /\ B = {j \in Listed(r)' : InFront(r, j, i)'}
    OBVIOUS
  <2>2. A \subseteq B
    BY <1>5, <1>6, <1>7, <1>10, <2>1
  <2>3. B \subseteq Listed(r)'
    BY <2>1
  <2>4. IsFiniteSet(B)
    BY <1>5, <2>3, FS_Subset
  <2>5. IsFiniteSet(A) /\ Cardinality(A) <= Cardinality(B)
    BY <2>2, <2>4, FS_Subset
  <2>6. QED
    BY <1>8, <2>1, <2>4, <2>5, FS_CardinalityType
<1>11. QED
  BY <1>5, <1>9, <1>10

\* Rows that tie stay.
LEMMA TiedKept ==
  ASSUME DataInv, NEW h \in Req, Handle(h), NEW r \in Req, Op(r) \in Lists, Tied(r)
  PROVE  Tied(r)'
<1>1. plan' = plan /\ Req' = Req /\ Moves(h)
  BY HandleMoves
<1>2. \A q \in Req : Op(q)' = Op(q) /\ User(q)' = User(q) /\ Post(q)' = Post(q)
  BY <1>1 DEF Op, User, Post
<1>3. CASE Op(r) \in OfPosts /\ \E i, j \in DOMAIN db.posts : i # j /\ db.posts[i].at = db.posts[j].at
  <2>1. PICK i, j \in DOMAIN db.posts : i # j /\ db.posts[i].at = db.posts[j].at
    BY <1>3
  <2>2. i \in DOMAIN db'.posts /\ j \in DOMAIN db'.posts /\ db'.posts[i].at = db'.posts[j].at
    BY <2>1, PostColumns DEF PostIds
  <2>3. QED
    BY <1>2, <1>3, <2>1, <2>2 DEF Tied
<1>4. CASE /\ Op(r) = "notifications"
           /\ \E i, j \in DOMAIN db.notifications :
                i # j /\ db.notifications[i].at = db.notifications[j].at
  <2>1. PICK i, j \in DOMAIN db.notifications :
          i # j /\ db.notifications[i].at = db.notifications[j].at
    BY <1>4
  <2>2. /\ i \in DOMAIN db'.notifications /\ j \in DOMAIN db'.notifications
        /\ db'.notifications[i].at = db'.notifications[j].at
    BY <2>1, NotificationsKept, NotificationColumns
  <2>3. QED
    BY <1>2, <1>4, <2>1, <2>2 DEF Tied, OfPosts
<1>5. CASE /\ Op(r) = "purchases"
           /\ \E i, j \in DOMAIN db.progress : i # j /\ db.progress[i].at = db.progress[j].at
  <2>1. db'.progress = db.progress
    BY TableWriters
  <2>2. QED
    BY <1>2, <1>5, <2>1 DEF Tied, OfPosts
<1>6. CASE /\ Op(r) = "myLikes"
           /\ \E p, q \in {x \in Req : Op(x) = "like" /\ User(x) = User(r)} :
                Post(p) = Post(q) /\ Met(p, q)
  <2>1. PICK p \in Req, q \in Req :
          /\ Op(p) = "like" /\ User(p) = User(r) /\ Op(q) = "like" /\ User(q) = User(r)
          /\ Post(p) = Post(q) /\ Met(p, q)
    BY <1>6
  <2>2. Met(p, q)'
    BY <1>1, <2>1, MetKept
  <2>3. QED
    BY <1>1, <1>2, <1>6, <2>1, <2>2 DEF Tied
<1>7. QED
  <2>1. PICK table : table = IF Op(r) \in OfPosts THEN db.posts
               ELSE IF Op(r) = "notifications" THEN db.notifications
               ELSE IF Op(r) = "purchases" THEN db.progress ELSE << >>
    OBVIOUS
  <2>2. \/ \E i, j \in DOMAIN table : i # j /\ table[i].at = table[j].at
        \/ /\ Op(r) = "myLikes"
           /\ \E p, q \in {x \in Req : Op(x) = "like" /\ User(x) = User(r)} :
                Post(p) = Post(q) /\ Met(p, q)
    BY <2>1 DEF Tied
  <2>3. QED
    BY <1>3, <1>4, <1>5, <1>6, <2>1, <2>2

-----------------------------------------------------------------------------
(* Page by page.                                                           *)

\* No request among ops was in flight with r.
Undisturbed(r, ops) == ~Tied(r) /\ ~MetAny(r, {q \in Req : Op(q) \in ops})

\* i is among what the client has seen, or in the page that is put together.
Has(v, i) == \/ \E k \in DOMAIN v.seen : v.seen[k].id = i
             \/ \E k \in DOMAIN v.ids : v.ids[k] = i

\* No entry is given out twice.
NoneTwice(v) ==
  /\ \A j, k \in DOMAIN v.seen : v.seen[j].id = v.seen[k].id => j = k
  /\ \A j, k \in DOMAIN v.ids : v.ids[j] = v.ids[k] => j = k
  /\ \A j \in DOMAIN v.seen, k \in DOMAIN v.ids : v.seen[j].id # v.ids[k]

\* Of what the list still holds, the first n entries at most were given out ...
Within(r, v, n) == \A i \in Listed(r) : Has(v, i) => Place(r, i) < n

\* ... and of what it held at the start, the first n entries are not missing.
Covers(r, v, n) == \A i \in v.start : i \in Listed(r) /\ (Place(r, i) < n => Has(v, i))

\* The fields of what a reader has.
Fields(r, v) ==
  /\ DOMAIN v = PageFields /\ v.page \in Nat \ {0}
  /\ ~Tied(r) => /\ \E R : v.seen \in Seq(R)
                 /\ \E R : v.ids \in Seq(R)
                 /\ Op(r) = "purchases" => \A k \in DOMAIN v.ids : v.ids[k] \in DOMAIN db.progress

\* The pages up to n entries have been read.
Collected(r, v, n) ==
  /\ Fields(r, v)
  /\ Undisturbed(r, Appearing(Op(r))) => NoneTwice(v) /\ Within(r, v, n)
  /\ Undisturbed(r, Vanishing(Op(r))) => Covers(r, v, n)

\* Nothing that the list held at the start is missing.
Complete(r, v) ==
  Undisturbed(r, Vanishing(Op(r))) => \A i \in v.start : Has(v, i)

\* The queries left, and the filter.
TodoOk(r, todo, kept) ==
  /\ todo \in Seq(SUBSET QueryNames) /\ Once(todo)
  /\ Ahead(todo, "filter") => Head(todo) = {"filter"} /\ Ahead(todo, "page")
  /\ ~Ahead(todo, "filter") => kept = FirstFilter(r)
  /\ Ahead(todo, "posts") => Op(r) = "purchases"

\* As many entries come before the page that is to be read next.
Passed(r, v) ==
  GetOffset(IF Ahead(v.todo, "page") THEN v.page ELSE v.page + 1, plan[r].size)

\* What a reader has got, at each stage of reading.
PagesOk(r, s, v) ==
  /\ s = "query" =>
       /\ TodoOk(r, v.todo, v.kept) /\ v.todo # << >>
       /\ Collected(r, v, Passed(r, v))
       /\ Ahead(v.todo, "page") => v.ids = << >>
       /\ ~Ahead(v.todo, "page") /\ ~v.hasNext => Complete(r, v)
  /\ s = "again" =>
       /\ v.ids = << >> /\ v.kept = FirstFilter(r)
       /\ Collected(r, v, GetOffset(v.page, plan[r].size))
  /\ s = "done" =>
       /\ v.ids = << >> /\ Fields(r, v)
       /\ Undisturbed(r, Appearing(Op(r))) => NoneTwice(v)
       /\ v.kept # None => Complete(r, v)

\* The inductive invariant of ListsComplete.
PagesInv ==
  \A r \in Req : Op(r) \in Lists =>
    \A s \in {pc[r]}, v \in {got[r]} : PagesOk(r, s, v)

-----------------------------------------------------------------------------

\* The offset of the next page is one size further.
LEMMA OffsetNat ==
  ASSUME NEW n \in Nat \ {0}, NEW size \in Nat \ {0}
  PROVE  /\ GetOffset(n, size) \in Nat
         /\ GetOffset(n + 1, size) = GetOffset(n, size) + size
         /\ GetOffset(1, size) = 0
<1>1. PICK m : m = n - 1
  OBVIOUS
<1>2. m \in Nat /\ (n + 1) - 1 = m + 1 /\ 1 - 1 = 0
  BY <1>1
<1>3. \A a, b \in Nat : a * b \in Nat /\ (a + 1) * b = a * b + b /\ 0 * b = 0
  OBVIOUS
<1>4. m * size \in Nat /\ (m + 1) * size = m * size + size /\ 0 * size = 0
  BY <1>2, <1>3
<1>5. /\ GetOffset(n, size) = m * size /\ GetOffset(n + 1, size) = (m + 1) * size
      /\ GetOffset(1, size) = 0 * size
  BY <1>1, <1>2 DEF GetOffset
<1>6. QED
  BY <1>4, <1>5

\* What holds of the pages of r holds after a step of another, or of r.
LEMMA CollectedKept ==
  ASSUME DataInv, NEW h \in Req, Handle(h), NEW r \in Req, Op(r) \in Lists,
         h = r \/ Met(h, r)', NEW v, NEW n \in Nat, Collected(r, v, n)
  PROVE  Collected(r, v, n)'
<1>1. /\ plan' = plan /\ Req' = Req /\ Moves(h) /\ db'.progress = db.progress
  BY HandleMoves, TableWriters
<1>2. \A q \in Req : Op(q)' = Op(q)
  BY <1>1 DEF Op
<1>3. Tied(r) => Tied(r)'
  BY TiedKept
<1>4. ASSUME NEW ops, ops \in {Appearing(Op(r)), Vanishing(Op(r))}, Undisturbed(r, ops)'
      PROVE  Undisturbed(r, ops) /\ Op(h) \notin ops
  <2>1. ~Tied(r)
    BY <1>3, <1>4 DEF Undisturbed
  <2>2. \A q \in Req : Op(q) \in ops => ~Met(q, r)'
    BY <1>1, <1>2, <1>4 DEF Undisturbed, MetAny
  <2>3. \A q \in Req : Op(q) \in ops => ~Met(q, r)
    BY <1>1, <2>2, MetKept
  <2>4. Op(h) \notin ops
    <3>1. CASE h = r
      BY <1>4, <3>1 DEF Appearing, Vanishing, Lists, OfPosts
    <3>2. CASE Met(h, r)'
      BY <2>2, <3>2
    <3>3. QED
      BY <3>1, <3>2
  <2>5. QED
    BY <2>1, <2>3, <2>4 DEF Undisturbed, MetAny
<1>5. Appearing(Op(r))' = Appearing(Op(r)) /\ Vanishing(Op(r))' = Vanishing(Op(r))
  BY <1>2 DEF Appearing, Vanishing
<1>6. Fields(r, v)'
  <2>1. Fields(r, v)
    BY DEF Collected
  <2>2. QED
    BY <1>1, <1>2, <1>3, <2>1 DEF Fields
<1>7. Undisturbed(r, Appearing(Op(r)))' => (NoneTwice(v) /\ Within(r, v, n))'
  <2>1. SUFFICES ASSUME Undisturbed(r, Appearing(Op(r)))'
                 PROVE  (NoneTwice(v) /\ Within(r, v, n))'
    OBVIOUS
  <2>2. Undisturbed(r, Appearing(Op(r))) /\ Op(h) \notin Appearing(Op(r))
    BY <1>4, <1>5, <2>1
  <2>3. NoneTwice(v) /\ Within(r, v, n)
    BY <2>2 DEF Collected
  <2>4. /\ Listed(r)' \subseteq Listed(r)
        /\ \A i \in Listed(r)' : Place(r, i) \in Nat /\ Place(r, i)' \in Nat
                                 /\ Place(r, i)' <= Place(r, i)
    BY <2>2, ListedMoves
  <2>5. ASSUME NEW i \in Listed(r)', Has(v, i) PROVE Place(r, i)' < n
    BY <2>3, <2>4, <2>5 DEF Within
  <2>6. Within(r, v, n)'
    BY <2>5 DEF Within, Has
  <2>7. QED
    BY <2>3, <2>6 DEF NoneTwice
<1>8. Undisturbed(r, Vanishing(Op(r)))' => Covers(r, v, n)'
  <2>1. SUFFICES ASSUME Undisturbed(r, Vanishing(Op(r)))'
                 PROVE  Covers(r, v, n)'
    OBVIOUS
  <2>2. Undisturbed(r, Vanishing(Op(r))) /\ Op(h) \notin Vanishing(Op(r))
    BY <1>4, <1>5, <2>1
  <2>3. Covers(r, v, n)
    BY <2>2 DEF Collected
  <2>4. /\ Listed(r) \subseteq Listed(r)'
        /\ \A i \in Listed(r) : Place(r, i) \in Nat /\ Place(r, i)' \in Nat
                                /\ Place(r, i) <= Place(r, i)'
    BY <2>2, ListedMoves
  <2>5. ASSUME NEW i \in v.start
        PROVE  i \in Listed(r)' /\ (Place(r, i)' < n => Has(v, i))
    BY <2>3, <2>4, <2>5 DEF Covers
  <2>6. QED
    BY <2>5 DEF Covers, Has
<1>9. QED
  BY <1>6, <1>7, <1>8 DEF Collected

\* ... and so does what no longer depends on the rows.
LEMMA CompleteKept ==
  ASSUME DataInv, NEW h \in Req, Handle(h), NEW r \in Req, Op(r) \in Lists, NEW v
  PROVE  /\ Fields(r, v) => Fields(r, v)'
         /\ Complete(r, v) => Complete(r, v)'
         /\ \A ops : Undisturbed(r, ops)' => Undisturbed(r, ops)
<1>1. /\ plan' = plan /\ Req' = Req /\ Moves(h) /\ db'.progress = db.progress
  BY HandleMoves, TableWriters
<1>2. \A q \in Req : Op(q)' = Op(q)
  BY <1>1 DEF Op
<1>3. Tied(r) => Tied(r)'
  BY TiedKept
<1>4. ASSUME NEW ops, Undisturbed(r, ops)' PROVE Undisturbed(r, ops)
  <2>1. ~Tied(r)
    BY <1>3, <1>4 DEF Undisturbed
  <2>2. \A q \in Req : Op(q) \in ops => ~Met(q, r)'
    BY <1>1, <1>2, <1>4 DEF Undisturbed, MetAny
  <2>3. \A q \in Req : Op(q) \in ops => ~Met(q, r)
    BY <1>1, <2>2, MetKept
  <2>4. QED
    BY <2>1, <2>3 DEF Undisturbed, MetAny
<1>5. Vanishing(Op(r))' = Vanishing(Op(r))
  BY <1>2 DEF Vanishing
<1>6. Fields(r, v) => Fields(r, v)'
  BY <1>1, <1>2, <1>3 DEF Fields
<1>7. Complete(r, v) => Complete(r, v)'
  BY <1>4, <1>5 DEF Complete, Has
<1>8. QED
  BY <1>4, <1>6, <1>7

\* How many entries a reader has passed is a number.
LEMMA PassedNat ==
  ASSUME DataInv, NEW r \in Req, Op(r) \in Lists, NEW v, v.page \in Nat \ {0}
  PROVE  /\ plan[r].size \in Nat \ {0} /\ Passed(r, v) \in Nat
         /\ GetOffset(v.page, plan[r].size) \in Nat
         /\ GetOffset(v.page + 1, plan[r].size) = GetOffset(v.page, plan[r].size) + plan[r].size
<1>1. plan[r].size \in Nat \ {0}
  BY RequestTypes DEF DataInv, StoreInv
<1>2. v.page + 1 \in Nat \ {0}
  OBVIOUS
<1>3. /\ GetOffset(v.page, plan[r].size) \in Nat
      /\ GetOffset(v.page + 1, plan[r].size) \in Nat
      /\ GetOffset(v.page + 1, plan[r].size) = GetOffset(v.page, plan[r].size) + plan[r].size
  BY <1>1, <1>2, OffsetNat
<1>4. QED
  BY <1>1, <1>3 DEF Passed

\* What a reader has got stays good when another request takes a step.
LEMMA PagesKept ==
  ASSUME DataInv, NEW h \in Req, Handle(h), NEW r \in Req, Op(r) \in Lists,
         NEW s, NEW v, PagesOk(r, s, v),
         s \in {"query", "again"} => h = r \/ Met(h, r)'
  PROVE  PagesOk(r, s, v)'
<1>1. plan' = plan /\ Req' = Req
  BY HandleMoves
<1>2. Op(r)' = Op(r) /\ User(r)' = User(r)
  BY <1>1 DEF Op, User
<1>3. FirstFilter(r)' = FirstFilter(r) /\ Passed(r, v)' = Passed(r, v)
      /\ Appearing(Op(r))' = Appearing(Op(r))
  BY <1>1, <1>2 DEF FirstFilter, Passed, Appearing
<1>4. /\ Fields(r, v) => Fields(r, v)'
      /\ Complete(r, v) => Complete(r, v)'
      /\ Undisturbed(r, Appearing(Op(r)))' => Undisturbed(r, Appearing(Op(r)))
  BY <1>3, CompleteKept
<1>5. CASE s = "query"
  <2>1. /\ TodoOk(r, v.todo, v.kept) /\ v.todo # << >>
        /\ Collected(r, v, Passed(r, v))
        /\ Ahead(v.todo, "page") => v.ids = << >>
        /\ ~Ahead(v.todo, "page") /\ ~v.hasNext => Complete(r, v)
    BY <1>5 DEF PagesOk
  <2>2. TodoOk(r, v.todo, v.kept)'
    BY <1>2, <1>3, <2>1 DEF TodoOk
  <2>3. v.page \in Nat \ {0}
    BY <2>1 DEF Collected, Fields
  <2>4. PICK n \in Nat : n = Passed(r, v)
    BY <2>3, PassedNat
  <2>5. Collected(r, v, n)'
    BY <1>5, <2>1, <2>4, CollectedKept
  <2>6. Passed(r, v)' = n
    BY <1>3, <2>4
  <2>7. Collected(r, v, Passed(r, v))'
    BY <2>5, <2>6
  <2>8. QED
    BY <1>4, <1>5, <2>1, <2>2, <2>7 DEF PagesOk
<1>6. CASE s = "again"
  <2>1. /\ v.ids = << >> /\ v.kept = FirstFilter(r)
        /\ Collected(r, v, GetOffset(v.page, plan[r].size))
    BY <1>6 DEF PagesOk
  <2>2. v.page \in Nat \ {0}
    BY <2>1 DEF Collected, Fields
  <2>3. PICK n \in Nat : n = GetOffset(v.page, plan[r].size)
    BY <2>2, PassedNat
  <2>4. Collected(r, v, n)'
    BY <1>6, <2>1, <2>3, CollectedKept
  <2>5. GetOffset(v.page, plan[r].size)' = n
    BY <1>1, <2>3
  <2>6. Collected(r, v, GetOffset(v.page, plan[r].size))'
    BY <2>4, <2>5
  <2>7. QED
    BY <1>3, <1>6, <2>1, <2>6 DEF PagesOk
<1>7. CASE s = "done"
  BY <1>3, <1>4, <1>7 DEF PagesOk, NoneTwice
<1>8. CASE s \notin {"query", "again", "done"}
  BY <1>8 DEF PagesOk
<1>9. QED
  BY <1>5, <1>6, <1>7, <1>8

-----------------------------------------------------------------------------
(* The steps of the list's own handler: page is what it has, with the      *)
(* answer of the query.                                                    *)

\* The queries left, after one of them.
LEMMA TodoNext ==
  ASSUME NEW r, NEW todo, NEW kept, TodoOk(r, todo, kept), todo # << >>,
         NEW query \in Head(todo), NEW new,
         new = IF query = "filter" THEN FirstFilter(r) ELSE kept
  PROVE  /\ TodoOk(r, NextTodo(todo, query), new)
         /\ new = FirstFilter(r)
         /\ ~Ahead(NextTodo(todo, query), query)
         /\ \A y : y # query => (Ahead(NextTodo(todo, query), y) <=> Ahead(todo, y))
<1>1. todo \in Seq(SUBSET QueryNames) /\ Once(todo)
  BY DEF TodoOk
<1>2. PICK next : next = NextTodo(todo, query)
  OBVIOUS
<1>3. /\ next \in Seq(SUBSET QueryNames)
      /\ \A y : Ahead(todo, y) => y = query \/ Ahead(next, y)
      /\ \A y : Ahead(next, y) => Ahead(todo, y)
  BY <1>1, <1>2, TodoShrinks
<1>4. Once(next) /\ ~Ahead(next, query)
  BY <1>1, <1>2, NextOnce
<1>5. Ahead(todo, "filter") => query = "filter"
  BY DEF TodoOk
<1>6. ~Ahead(next, "filter") /\ new = FirstFilter(r)
  BY <1>3, <1>4, <1>5 DEF TodoOk
<1>7. TodoOk(r, next, new)
  BY <1>3, <1>4, <1>6 DEF TodoOk
<1>8. QED
  BY <1>2, <1>3, <1>4, <1>6, <1>7

\* Turning the page gives out what was put together, and no entry twice.
LEMMA TurnPages ==
  ASSUME DataInv, NEW r \in Req, Op(r) \in Lists, NEW page, Turn(r, page),
         page.kept = FirstFilter(r),
         Collected(r, page, GetOffset(page.page + 1, plan[r].size)),
         ~page.hasNext => Complete(r, page),
         NEW s, s = pc'[r], NEW v, v = got'[r]
  PROVE  PagesOk(r, s, v)
<1>1. PICK new : new = [i \in DOMAIN page.ids |-> Entry(r, page, page.ids[i])]
  OBVIOUS
<1>2. PICK w : w = [page EXCEPT !.page = @ + 1, !.seen = @ \o new,
                      !.ids = << >>, !.likes = << >>, !.chats = << >>, !.liked = {}]
  OBVIOUS
<1>3. s = (IF page.hasNext THEN "again" ELSE "done") /\ v = w
  <2>1. RequestInv
    BY DEF DataInv
  <2>2. PICK to : to = IF page.hasNext THEN "again" ELSE "done"
    OBVIOUS
  <2>3. Step(r, "query", to, w)
    BY <1>1, <1>2, <2>2 DEF Turn
  <2>4. QED
    BY <2>1, <2>2, <2>3, StepMoves DEF Ends
<1>4. DOMAIN page = PageFields /\ page.page \in Nat \ {0}
  BY DEF Collected, Fields
<1>5. /\ DOMAIN v = PageFields /\ v.page = page.page + 1 /\ v.ids = << >>
      /\ v.seen = page.seen \o new /\ v.kept = page.kept /\ v.start = page.start
  BY <1>2, <1>3, <1>4 DEF PageFields
<1>6. v.page \in Nat \ {0}
  BY <1>4, <1>5
<1>7. ASSUME ~Tied(r)
      PROVE  /\ \E R : v.seen \in Seq(R)
             /\ \A i : Has(v, i) <=> Has(page, i)
             /\ NoneTwice(page) => NoneTwice(v)
  <2>1. PICK R, S : page.seen \in Seq(R) /\ page.ids \in Seq(S)
    BY <1>7 DEF Collected, Fields
  <2>2. PICK n : n = Len(page.ids)
    OBVIOUS
  <2>3. n \in Nat /\ DOMAIN page.ids = 1 .. n
    BY <2>1, <2>2
  <2>4. PICK E : E = {new[i] : i \in 1 .. n}
    OBVIOUS
  <2>5. new \in Seq(E) /\ Len(new) = n /\ DOMAIN new = 1 .. n
    <3>1. new = [i \in 1 .. n |-> new[i]] /\ \A i \in 1 .. n : new[i] \in E
      BY <1>1, <2>3, <2>4
    <3>2. new \in Seq(E)
      BY <2>3, <3>1, FunctionIsSeq
    <3>3. DOMAIN new = 1 .. n
      BY <1>1, <2>3
    <3>4. QED
      BY <2>3, <3>2, <3>3
  <2>6. \A i \in 1 .. n : new[i].id = page.ids[i]
    BY <1>1, <2>3 DEF Entry
  <2>7. PICK B : B = R \cup E
    OBVIOUS
  <2>8. page.seen \in Seq(B) /\ new \in Seq(B)
    BY <2>1, <2>5, <2>7, SeqGrows
  <2>9. PICK a, c : a = page.seen /\ c = v.seen
    OBVIOUS
  <2>10. a \in Seq(B) /\ c = a \o new
    BY <1>5, <2>8, <2>9
  <2>11. PICK m : m = Len(a)
    OBVIOUS
  <2>12. /\ c \in Seq(B) /\ m \in Nat /\ DOMAIN a = 1 .. m /\ DOMAIN c = 1 .. m + n
         /\ \A x \in 1 .. m + n : c[x] = IF x <= m THEN a[x] ELSE new[x - m]
    BY <2>5, <2>8, <2>10, <2>11, ConcatParts
  <2>13. PICK ids : ids = page.ids
    OBVIOUS
  <2>14. \A x \in 1 .. m : c[x].id = a[x].id
    BY <2>3, <2>12
  <2>15. \A x \in 1 .. n : m + x \in 1 .. m + n /\ c[m + x].id = ids[x]
    <3>1. ASSUME NEW x \in 1 .. n PROVE m + x \in 1 .. m + n /\ c[m + x].id = ids[x]
      <4>1. m + x \in 1 .. m + n /\ ~(m + x <= m) /\ (m + x) - m = x
        BY <2>3, <2>12
      <4>2. c[m + x] = new[x]
        BY <2>12, <4>1
      <4>3. QED
        BY <2>6, <2>13, <4>1, <4>2
    <3>2. QED
      BY <3>1
  <2>16. \A x \in 1 .. m + n : x \in 1 .. m \/ \E y \in 1 .. n : x = m + y
    <3>1. ASSUME NEW x \in 1 .. m + n, x \notin 1 .. m PROVE \E y \in 1 .. n : x = m + y
      <4>1. x - m \in 1 .. n /\ x = m + (x - m)
        BY <2>3, <2>12, <3>1
      <4>2. QED
        BY <4>1
    <3>2. QED
      BY <3>1
  <2>17. DOMAIN v.ids = {}
    BY <1>5
  <2>18. ASSUME NEW i PROVE Has(v, i) <=> Has(page, i)
    <3>1. Has(v, i) <=> \E x \in 1 .. m + n : c[x].id = i
      BY <2>9, <2>12, <2>17 DEF Has
    <3>2. Has(page, i) <=> (\E x \in 1 .. m : a[x].id = i) \/ \E x \in 1 .. n : ids[x] = i
      BY <2>3, <2>9, <2>12, <2>13 DEF Has
    <3>3. \A x \in 1 .. m : x \in 1 .. m + n
      BY <2>3, <2>12
    <3>4. QED
      BY <2>14, <2>15, <2>16, <3>1, <3>2, <3>3
  <2>19. ASSUME NoneTwice(page) PROVE NoneTwice(v)
    <3>1. /\ \A j, k \in 1 .. m : a[j].id = a[k].id => j = k
          /\ \A j, k \in 1 .. n : ids[j] = ids[k] => j = k
          /\ \A j \in 1 .. m, k \in 1 .. n : a[j].id # ids[k]
      BY <2>3, <2>9, <2>12, <2>13, <2>19 DEF NoneTwice
    <3>2. ASSUME NEW j \in 1 .. m + n, NEW k \in 1 .. m + n, c[j].id = c[k].id
          PROVE  j = k
      <4>1. CASE j \in 1 .. m /\ k \in 1 .. m
        BY <2>14, <3>1, <3>2, <4>1
      <4>2. CASE j \in 1 .. m /\ k \notin 1 .. m
        BY <2>14, <2>15, <2>16, <3>1, <3>2, <4>2
      <4>3. CASE j \notin 1 .. m /\ k \in 1 .. m
        BY <2>14, <2>15, <2>16, <3>1, <3>2, <4>3
      <4>4. CASE j \notin 1 .. m /\ k \notin 1 .. m
        BY <2>15, <2>16, <3>1, <3>2, <4>4
      <4>5. QED
        BY <4>1, <4>2, <4>3, <4>4
    <3>3. QED
      BY <2>9, <2>12, <2>17, <3>2 DEF NoneTwice
  <2>20. QED
    BY <2>9, <2>12, <2>18, <2>19
<1>8. Fields(r, v)
  <2>1. v.ids \in Seq({}) /\ DOMAIN v.ids = {}
    BY <1>5
  <2>2. QED
    BY <1>5, <1>6, <1>7, <2>1 DEF Fields
<1>9. PICK n : n = GetOffset(v.page, plan[r].size)
  OBVIOUS
<1>10. Collected(r, page, n)
  BY <1>5, <1>9
<1>11. Collected(r, v, n)
  <2>1. ASSUME Undisturbed(r, Appearing(Op(r))) PROVE NoneTwice(v) /\ Within(r, v, n)
    BY <1>7, <1>10, <2>1 DEF Undisturbed, Collected, Within
  <2>2. ASSUME Undisturbed(r, Vanishing(Op(r))) PROVE Covers(r, v, n)
    BY <1>5, <1>7, <1>10, <2>2 DEF Undisturbed, Collected, Covers
  <2>3. QED
    BY <1>8, <2>1, <2>2 DEF Collected
<1>12. Complete(r, page) => Complete(r, v)
  BY <1>5, <1>7 DEF Complete, Undisturbed
<1>13. QED
  BY <1>3, <1>5, <1>8, <1>9, <1>11, <1>12 DEF PagesOk, Collected

\* The step after a query, whichever it is.
LEMMA ProceedPages ==
  ASSUME DataInv, NEW r \in Req, Op(r) \in Lists, NEW query, NEW page,
         Proceed(r, query, page), page.todo # << >>, query \in Head(page.todo),
         NEW old, TodoOk(r, page.todo, old),
         page.kept = IF query = "filter" THEN FirstFilter(r) ELSE old,
         NEW ahead, ahead = (query # "page" /\ Ahead(page.todo, "page")),
         Collected(r, page, GetOffset(IF ahead THEN page.page ELSE page.page + 1,
                                      plan[r].size)),
         ahead => page.ids = << >>,
         ~ahead /\ ~page.hasNext => Complete(r, page),
         NEW s, s = pc'[r], NEW v, v = got'[r]
  PROVE  PagesOk(r, s, v)
<1>1. RequestInv
  BY DEF DataInv
<1>2. PICK todo : todo = NextTodo(page.todo, query)
  OBVIOUS
<1>3. PICK next : next = [page EXCEPT !.todo = todo]
  OBVIOUS
<1>4. IF todo = << >> THEN Turn(r, next) ELSE Step(r, "query", "query", next)
  BY <1>2, <1>3 DEF Proceed, NextTodo
<1>5. /\ TodoOk(r, todo, page.kept) /\ page.kept = FirstFilter(r)
      /\ ahead <=> Ahead(todo, "page")
  <2>1. PICK queries, kept : queries = page.todo /\ kept = page.kept
    OBVIOUS
  <2>2. /\ TodoOk(r, queries, old) /\ queries # << >> /\ query \in Head(queries)
        /\ kept = IF query = "filter" THEN FirstFilter(r) ELSE old
    BY <2>1
  <2>3. /\ TodoOk(r, NextTodo(queries, query), kept) /\ kept = FirstFilter(r)
        /\ ~Ahead(NextTodo(queries, query), query)
        /\ \A y : y # query => (Ahead(NextTodo(queries, query), y) <=> Ahead(queries, y))
    BY <2>2, TodoNext
  <2>4. /\ TodoOk(r, todo, kept) /\ ~Ahead(todo, query)
        /\ query # "page" => (Ahead(todo, "page") <=> Ahead(queries, "page"))
    BY <1>2, <2>1, <2>3
  <2>5. ahead <=> query # "page" /\ Ahead(queries, "page")
    BY <2>1
  <2>6. ahead <=> Ahead(todo, "page")
    BY <2>4, <2>5
  <2>7. QED
    BY <2>1, <2>3, <2>4, <2>6
<1>6. DOMAIN page = PageFields
  BY DEF Collected, Fields
<1>7. /\ DOMAIN next = PageFields /\ next.todo = todo /\ next.page = page.page
      /\ next.seen = page.seen /\ next.ids = page.ids /\ next.kept = page.kept
      /\ next.hasNext = page.hasNext /\ next.start = page.start
  BY <1>3, <1>6 DEF PageFields
<1>8. /\ \A n : Collected(r, page, n) => Collected(r, next, n)
      /\ Complete(r, page) => Complete(r, next)
  BY <1>7 DEF Collected, Fields, NoneTwice, Within, Covers, Has, Complete
<1>9. CASE todo = << >>
  <2>1. ~Ahead(todo, "page")
    BY <1>9 DEF Ahead
  <2>2. Collected(r, next, GetOffset(next.page + 1, plan[r].size))
    BY <1>5, <1>7, <1>8, <2>1
  <2>3. QED
    BY <1>4, <1>5, <1>7, <1>8, <1>9, <2>1, <2>2, TurnPages
<1>10. CASE todo # << >>
  <2>1. s = "query" /\ v = next
    BY <1>1, <1>4, <1>10, StepMoves DEF Ends
  <2>2. Collected(r, next, Passed(r, next))
    BY <1>5, <1>7, <1>8 DEF Passed
  <2>3. QED
    BY <1>5, <1>7, <1>8, <1>10, <2>1, <2>2 DEF PagesOk
<1>11. QED
  BY <1>9, <1>10

\* A query whose answer is neither the filter nor the page.
LEMMA OtherQuery ==
  ASSUME DataInv, NEW r \in Req, Op(r) \in Lists, NEW query \in {"posts", "likes", "chats", "liked"},
         NEW page, PagesOk(r, "query", page), query \in Head(page.todo),
         NEW next, Proceed(r, query, next),
         DOMAIN next = PageFields, next.todo = page.todo, next.page = page.page,
         next.seen = page.seen, next.kept = page.kept, next.start = page.start,
         next.hasNext = page.hasNext,
         ~Tied(r) \/ page.ids = << >> => next.ids = page.ids,
         NEW s, s = pc'[r], NEW v, v = got'[r]
  PROVE  PagesOk(r, s, v)
<1>1. /\ TodoOk(r, page.todo, page.kept) /\ page.todo # << >>
      /\ Collected(r, page, Passed(r, page))
      /\ Ahead(page.todo, "page") => page.ids = << >>
      /\ ~Ahead(page.todo, "page") /\ ~page.hasNext => Complete(r, page)
  BY DEF PagesOk
<1>2. /\ \A n : Collected(r, page, n) => Collected(r, next, n)
      /\ Complete(r, page) => Complete(r, next)
  <2>1. CASE Tied(r)
    BY <2>1 DEF Collected, Fields, Undisturbed, Complete
  <2>2. CASE ~Tied(r)
    BY <2>2 DEF Collected, Fields, NoneTwice, Within, Covers, Has, Complete
  <2>3. QED
    BY <2>1, <2>2
<1>3. query # "filter" /\ query # "page"
  OBVIOUS
<1>4. PICK ahead : ahead = (query # "page" /\ Ahead(next.todo, "page"))
  OBVIOUS
<1>5. ahead <=> Ahead(page.todo, "page")
  BY <1>3, <1>4
<1>6. Collected(r, next, GetOffset(IF ahead THEN next.page ELSE next.page + 1, plan[r].size))
  BY <1>1, <1>2, <1>5 DEF Passed
<1>7. QED
  BY <1>1, <1>2, <1>3, <1>4, <1>5, <1>6, ProceedPages

\* Reading the filter.
LEMMA FilterPages ==
  ASSUME DataInv, RowsInv, NEW r \in Req, Op(r) \in Lists, ReadFilter(r),
         NEW page, page = got[r], PagesOk(r, "query", page),
         NEW s, s = pc'[r], NEW v, v = got'[r]
  PROVE  PagesOk(r, s, v)
<1>1. /\ TodoOk(r, page.todo, page.kept) /\ page.todo # << >>
      /\ Collected(r, page, Passed(r, page))
      /\ Ahead(page.todo, "page") => page.ids = << >>
  BY DEF PagesOk
<1>2. PICK kept : kept = Filter(r)
  OBVIOUS
<1>3. PICK next, last : /\ next = [page EXCEPT !.kept = kept]
                        /\ last = [next EXCEPT !.todo = << >>]
  OBVIOUS
<1>4. /\ "filter" \in Head(page.todo)
      /\ IF next.kept = None THEN Step(r, "query", "done", last)
                             ELSE Proceed(r, "filter", next)
  BY <1>2, <1>3 DEF ReadFilter, Awaits
<1>5. DOMAIN page = PageFields
  BY <1>1 DEF Collected, Fields
<1>6. /\ DOMAIN next = PageFields /\ next.page = page.page /\ next.seen = page.seen
      /\ next.todo = page.todo /\ next.ids = page.ids /\ next.kept = kept
      /\ next.hasNext = page.hasNext /\ next.start = page.start
  BY <1>3, <1>5 DEF PageFields
<1>7. \A n : Collected(r, page, n) => Collected(r, next, n)
  BY <1>6 DEF Collected, Fields, NoneTwice, Within, Covers, Has
<1>8. Ahead(page.todo, "filter") /\ Ahead(page.todo, "page") /\ page.ids = << >>
  <2>1. page.todo \in Seq(SUBSET QueryNames)
    BY <1>1 DEF TodoOk
  <2>2. 1 \in DOMAIN page.todo /\ "filter" \in page.todo[1]
    BY <1>1, <1>4, <2>1
  <2>3. QED
    BY <1>1, <2>2 DEF Ahead, TodoOk
<1>9. CASE kept = None
  <2>1. RequestInv
    BY DEF DataInv
  <2>2. s = "done" /\ v = last
    BY <1>4, <1>6, <1>9, <2>1, StepMoves DEF Ends
  <2>3. /\ DOMAIN v = PageFields /\ v.page = page.page /\ v.seen = page.seen
        /\ v.ids = << >> /\ v.kept = None
    BY <1>3, <1>6, <1>8, <1>9, <2>2 DEF PageFields
  <2>4. Fields(r, v)
    BY <1>1, <1>8, <2>3 DEF Collected, Fields
  <2>5. Undisturbed(r, Appearing(Op(r))) => NoneTwice(v)
    BY <1>1, <1>8, <2>3 DEF Collected, NoneTwice
  <2>6. QED
    BY <2>2, <2>3, <2>4, <2>5 DEF PagesOk
<1>10. CASE kept # None
  <2>1. kept = FirstFilter(r)
    BY <1>2, <1>10, FilterIs
  <2>2. PICK ahead : ahead = ("filter" # "page" /\ Ahead(next.todo, "page"))
    OBVIOUS
  <2>3. ahead
    BY <1>6, <1>8, <2>2
  <2>4. Collected(r, next, GetOffset(IF ahead THEN next.page ELSE next.page + 1, plan[r].size))
    BY <1>1, <1>6, <1>7, <1>8, <2>3 DEF Passed
  <2>5. Proceed(r, "filter", next)
    BY <1>4, <1>6, <1>10
  <2>6. QED
    BY <1>1, <1>4, <1>6, <1>8, <2>1, <2>2, <2>3, <2>4, <2>5, ProceedPages
<1>11. QED
  BY <1>9, <1>10

\* Reading a page: it holds the entries whose places lie between its offset
\* and the next, which is where the reader is.
LEMMA ReadPages ==
  ASSUME DataInv, ImageInv, RowsInv, NEW r \in Req, Op(r) \in Lists, ReadPage(r),
         NEW page, page = got[r], PagesOk(r, "query", page),
         NEW s, s = pc'[r], NEW v, v = got'[r]
  PROVE  PagesOk(r, s, v)
<1>1. PICK rows \in Orders(r, Rows(r, got[r].kept)) :
        IF /\ Op(r) = "purchases"
           /\ PageWith(got[r], SlicePage(rows, got[r].page, plan[r].size)).ids = << >>
          THEN Turn(r, [PageWith(got[r], SlicePage(rows, got[r].page, plan[r].size))
                          EXCEPT !.todo = << >>])
          ELSE Proceed(r, "page",
                 PageWith(got[r], SlicePage(rows, got[r].page, plan[r].size)))
  BY Zenon DEF ReadPage, PageWith
<1>2. PICK slice : slice = SlicePage(rows, got[r].page, plan[r].size)
  OBVIOUS
<1>3. PICK contents, ids : /\ contents = slice.contents
                           /\ ids = [i \in DOMAIN contents |-> contents[i].id]
  OBVIOUS
<1>4. PICK next, last : /\ next = PageWith(got[r], slice)
                        /\ last = [next EXCEPT !.todo = << >>]
  OBVIOUS
<1>5. IF Op(r) = "purchases" /\ next.ids = << >> THEN Turn(r, last)
      ELSE Proceed(r, "page", next)
  BY <1>1, <1>2, <1>4
<1>6. /\ TodoOk(r, page.todo, page.kept) /\ page.todo # << >>
      /\ Collected(r, page, Passed(r, page))
      /\ Ahead(page.todo, "page") => page.ids = << >>
  BY DEF PagesOk
<1>7. "page" \in Head(page.todo)
  BY DEF ReadPage, Awaits
<1>8. Ahead(page.todo, "page") /\ page.kept = FirstFilter(r) /\ page.ids = << >>
  <2>1. page.todo \in Seq(SUBSET QueryNames)
    BY <1>6 DEF TodoOk
  <2>2. 1 \in DOMAIN page.todo /\ "page" \in page.todo[1]
    BY <1>6, <1>7, <2>1
  <2>3. QED
    BY <1>6, <1>7, <2>2 DEF Ahead, TodoOk
<1>9. DOMAIN page = PageFields /\ page.page \in Nat \ {0}
  BY <1>6 DEF Collected, Fields
<1>10. /\ DOMAIN next = PageFields /\ next.page = page.page /\ next.seen = page.seen
       /\ next.todo = page.todo /\ next.ids = ids /\ next.kept = page.kept
       /\ next.start = page.start /\ next.hasNext = slice.hasNext
  <2>1. PICK hasNext : hasNext = slice.hasNext
    OBVIOUS
  <2>2. next = [page EXCEPT !.hasNext = hasNext, !.ids = ids]
    BY <1>3, <1>4, <2>1 DEF PageWith
  <2>3. QED
    BY <1>9, <2>1, <2>2 DEF PageFields
<1>11. PICK offset, size : offset = GetOffset(page.page, plan[r].size) /\ size = plan[r].size
  OBVIOUS
<1>12. /\ offset \in Nat /\ size \in Nat \ {0} /\ Passed(r, page) = offset
       /\ GetOffset(page.page + 1, plan[r].size) = offset + size
  BY <1>8, <1>9, <1>11, PassedNat DEF Passed
<1>13. Collected(r, page, offset)
  BY <1>6, <1>12
<1>14. ASSUME ~Tied(r)
       PROVE  /\ ids \in Seq(Listed(r))
              /\ \A j, k \in DOMAIN ids : ids[j] = ids[k] => j = k
              /\ \A i \in Listed(r) : Place(r, i) \in Nat
              /\ \A k \in DOMAIN ids : /\ Place(r, ids[k]) >= offset
                                       /\ Place(r, ids[k]) < offset + size
              /\ \A i \in Listed(r) : Place(r, i) >= offset /\ Place(r, i) < offset + size =>
                   \E k \in DOMAIN ids : ids[k] = i
              /\ ~slice.hasNext => \A i \in Listed(r) : Place(r, i) < offset + size
  <2>1. PICK kept : kept = FirstFilter(r)
    OBVIOUS
  <2>2. PICK R, I : R = Rows(r, kept) /\ I = IdsOf(R)
    OBVIOUS
  <2>3. I = Ids(r, kept) /\ Listed(r) = I
    BY <2>1, <2>2 DEF Ids, Listed, IdsOf
  <2>4. Ordered(r, R) /\ IsFiniteSet(I)
    BY <1>14, <2>2, <2>3, ListOrdered, FiniteIds
  <2>5. rows \in Orders(r, R)
    BY <1>8, <2>1, <2>2
  <2>6. slice = PageOf(rows, offset, size)
    BY <1>2, <1>11 DEF SlicePage, PageOf
  <2>7. ids = PageIds(slice.contents)
    BY <1>3 DEF PageIds
  <2>8. offset \in Nat /\ size \in Nat \ {0}
    BY <1>12
  <2>9. OnPage(r, I, ids, slice.hasNext, offset, size)
    BY <2>2, <2>4, <2>5, <2>6, <2>7, <2>8, PageRanks
  <2>10. \A i : Rank(r, I, i) = Place(r, i)
    BY <2>3 DEF Place
  <2>11. /\ ids \in Seq(I)
         /\ \A j, k \in DOMAIN ids : ids[j] = ids[k] => j = k
         /\ \A i \in I : Rank(r, I, i) \in Nat
         /\ \A k \in DOMAIN ids : /\ Rank(r, I, ids[k]) >= offset
                                  /\ Rank(r, I, ids[k]) < offset + size
         /\ \A i \in I : Rank(r, I, i) >= offset /\ Rank(r, I, i) < offset + size =>
              \E k \in DOMAIN ids : ids[k] = i
         /\ ~slice.hasNext => \A i \in I : Rank(r, I, i) < offset + size
    BY <2>9 DEF OnPage
  <2>12. /\ \A i \in I : Place(r, i) \in Nat
         /\ \A k \in DOMAIN ids : /\ Place(r, ids[k]) >= offset
                                  /\ Place(r, ids[k]) < offset + size
         /\ \A i \in I : Place(r, i) >= offset /\ Place(r, i) < offset + size =>
              \E k \in DOMAIN ids : ids[k] = i
         /\ ~slice.hasNext => \A i \in I : Place(r, i) < offset + size
    BY <2>10, <2>11
  <2>13. QED
    BY <2>3, <2>11, <2>12
<1>15. \A i : Has(page, i) <=> \E k \in DOMAIN page.seen : page.seen[k].id = i
  BY <1>8 DEF Has
<1>16. \A i : Has(next, i) <=> Has(page, i) \/ \E k \in DOMAIN ids : ids[k] = i
  BY <1>10, <1>15 DEF Has
<1>17. ASSUME ~Tied(r), NEW k \in DOMAIN ids PROVE ids[k] \in Listed(r)
  BY <1>14, <1>17
<1>18. Fields(r, next)
  <2>1. CASE Tied(r)
    BY <1>9, <1>10, <2>1 DEF Fields
  <2>2. CASE ~Tied(r)
    <3>1. Op(r) = "purchases" => \A k \in DOMAIN ids : ids[k] \in DOMAIN db.progress
      BY <1>17, <2>2, IdsFrom DEF Listed
    <3>2. \E S : next.seen \in Seq(S)
      BY <1>10, <1>13, <2>2 DEF Collected, Fields
    <3>3. QED
      BY <1>9, <1>10, <1>14, <2>2, <3>1, <3>2 DEF Fields
  <2>3. QED
    BY <2>1, <2>2
<1>19. ASSUME Undisturbed(r, Appearing(Op(r)))
       PROVE  NoneTwice(next) /\ Within(r, next, offset + size)
  <2>1. ~Tied(r) /\ NoneTwice(page) /\ Within(r, page, offset)
    BY <1>13, <1>19 DEF Undisturbed, Collected
  <2>2. ASSUME NEW j \in DOMAIN next.seen, NEW k \in DOMAIN ids, next.seen[j].id = ids[k]
        PROVE  FALSE
    <3>1. PICK i : i = ids[k]
      OBVIOUS
    <3>2. i \in Listed(r) /\ Has(page, i)
      BY <1>10, <1>15, <1>17, <2>1, <2>2, <3>1
    <3>3. Place(r, i) < offset /\ Place(r, i) >= offset /\ Place(r, i) \in Nat
      BY <1>14, <2>1, <3>1, <3>2 DEF Within
    <3>4. QED
      BY <1>12, <3>3
  <2>3. NoneTwice(next)
    BY <1>10, <1>14, <2>1, <2>2 DEF NoneTwice
  <2>4. ASSUME NEW i \in Listed(r), Has(next, i) PROVE Place(r, i) < offset + size
    <3>1. CASE Has(page, i)
      <4>1. Place(r, i) < offset /\ Place(r, i) \in Nat
        BY <1>14, <2>1, <2>4, <3>1 DEF Within
      <4>2. QED
        BY <1>12, <4>1
    <3>2. CASE \E k \in DOMAIN ids : ids[k] = i
      BY <1>14, <2>1, <3>2
    <3>3. QED
      BY <1>16, <2>4, <3>1, <3>2
  <2>5. QED
    BY <2>3, <2>4 DEF Within
<1>20. ASSUME Undisturbed(r, Vanishing(Op(r)))
       PROVE  Covers(r, next, offset + size)
  <2>1. ~Tied(r) /\ Covers(r, page, offset)
    BY <1>13, <1>20 DEF Undisturbed, Collected
  <2>2. ASSUME NEW i \in page.start
        PROVE  i \in Listed(r) /\ (Place(r, i) < offset + size => Has(next, i))
    <3>1. i \in Listed(r) /\ (Place(r, i) < offset => Has(page, i)) /\ Place(r, i) \in Nat
      BY <1>14, <2>1, <2>2 DEF Covers
    <3>2. Place(r, i) < offset \/ Place(r, i) >= offset
      BY <1>12, <3>1
    <3>3. QED
      BY <1>14, <1>16, <2>1, <3>1, <3>2
  <2>3. QED
    BY <1>10, <2>2 DEF Covers
<1>21. Collected(r, next, GetOffset(next.page + 1, plan[r].size))
  BY <1>10, <1>12, <1>18, <1>19, <1>20 DEF Collected
<1>22. ~next.hasNext => Complete(r, next)
  <2>1. ASSUME ~slice.hasNext, Undisturbed(r, Vanishing(Op(r))), NEW i \in next.start
        PROVE  Has(next, i)
    <3>1. ~Tied(r)
      BY <2>1 DEF Undisturbed
    <3>2. i \in Listed(r) /\ (Place(r, i) < offset + size => Has(next, i))
      BY <1>20, <2>1 DEF Covers
    <3>3. QED
      BY <1>14, <2>1, <3>1, <3>2
  <2>2. QED
    BY <1>10, <2>1 DEF Complete
<1>23. CASE Op(r) = "purchases" /\ next.ids = << >>
  <2>1. /\ DOMAIN last = PageFields /\ last.page = next.page /\ last.seen = next.seen
        /\ last.ids = next.ids /\ last.kept = next.kept /\ last.start = next.start
        /\ last.hasNext = next.hasNext
    BY <1>4, <1>10 DEF PageFields
  <2>2. /\ \A n : Collected(r, next, n) => Collected(r, last, n)
        /\ Complete(r, next) => Complete(r, last)
    BY <1>10, <2>1 DEF Collected, Fields, NoneTwice, Within, Covers, Has, Complete
  <2>3. QED
    BY <1>5, <1>8, <1>10, <1>21, <1>22, <1>23, <2>1, <2>2, TurnPages
<1>24. CASE ~(Op(r) = "purchases" /\ next.ids = << >>)
  <2>1. PICK ahead : ahead = ("page" # "page" /\ Ahead(next.todo, "page"))
    OBVIOUS
  <2>2. ~ahead
    BY <2>1
  <2>3. Collected(r, next, GetOffset(IF ahead THEN next.page ELSE next.page + 1, plan[r].size))
    BY <1>21, <2>2
  <2>4. /\ Proceed(r, "page", next) /\ next.todo # << >> /\ "page" \in Head(next.todo)
        /\ TodoOk(r, next.todo, next.kept)
    BY <1>5, <1>6, <1>7, <1>10, <1>24
  <2>5. QED
    BY <1>22, <2>1, <2>2, <2>3, <2>4, ProceedPages
<1>25. QED
  BY <1>23, <1>24

\* The queries of each list.
LEMMA QueriesAre ==
  ASSUME NEW op \in Lists, NEW todo, todo = Queries(op)
  PROVE  /\ todo \in Seq(SUBSET QueryNames) /\ todo # << >> /\ Once(todo)
         /\ Ahead(todo, "page")
         /\ Ahead(todo, "filter") =>
              Head(todo) = {"filter"} /\ op \in {"list", "search", "universities"}
         /\ op \in {"list", "search", "universities"} => Ahead(todo, "filter")
         /\ Ahead(todo, "posts") => op = "purchases"
<1>1. CASE op \in {"list", "search"}
  <2>1. todo = <<{"filter"}, {"page"}, {"likes"}, {"chats"}, {"liked"}>>
    BY <1>1 DEF Queries, FindPagedProductPosts, SearchProductPosts
  <2>2. /\ todo \in Seq(SUBSET QueryNames) /\ todo # << >> /\ DOMAIN todo = 1 .. 5
        /\ Head(todo) = {"filter"}
    BY <2>1 DEF QueryNames
  <2>3. /\ todo[1] = {"filter"} /\ todo[2] = {"page"} /\ todo[3] = {"likes"}
        /\ todo[4] = {"chats"} /\ todo[5] = {"liked"}
    BY <2>1
  <2>4. \A k \in 1 .. 5 : k \in {1, 2, 3, 4, 5}
    OBVIOUS
  <2>5. Once(todo)
    BY <2>2, <2>3, <2>4 DEF Once
  <2>6. QED
    BY <1>1, <2>2, <2>3, <2>4, <2>5 DEF Ahead
<1>2. CASE op \in {"mySales", "userSales"}
  <2>1. todo = <<{"page"}, {"likes"}, {"chats"}, {"liked"}>>
    BY <1>2 DEF Queries, FindMySales, FindUserSales
  <2>2. todo \in Seq(SUBSET QueryNames) /\ todo # << >> /\ DOMAIN todo = 1 .. 4
    BY <2>1 DEF QueryNames
  <2>3. /\ todo[1] = {"page"} /\ todo[2] = {"likes"}
        /\ todo[3] = {"chats"} /\ todo[4] = {"liked"}
    BY <2>1
  <2>4. \A k \in 1 .. 4 : k \in {1, 2, 3, 4}
    OBVIOUS
  <2>5. Once(todo)
    BY <2>2, <2>3, <2>4 DEF Once
  <2>6. QED
    BY <1>2, <2>2, <2>3, <2>4, <2>5 DEF Ahead
<1>3. CASE op = "myLikes"
  <2>1. todo = <<{"page"}, {"likes"}, {"chats"}>>
    BY <1>3 DEF Queries, FindMyLikes
  <2>2. todo \in Seq(SUBSET QueryNames) /\ todo # << >> /\ DOMAIN todo = 1 .. 3
    BY <2>1 DEF QueryNames
  <2>3. todo[1] = {"page"} /\ todo[2] = {"likes"} /\ todo[3] = {"chats"}
    BY <2>1
  <2>4. \A k \in 1 .. 3 : k \in {1, 2, 3}
    OBVIOUS
  <2>5. Once(todo)
    BY <2>2, <2>3, <2>4 DEF Once
  <2>6. QED
    BY <1>3, <2>2, <2>3, <2>4, <2>5 DEF Ahead
<1>4. CASE op = "purchases"
  <2>1. todo = <<{"page"}, {"posts"}, {"likes", "liked", "chats"}>>
    BY <1>4 DEF Queries, FindMyPurchases
  <2>2. todo \in Seq(SUBSET QueryNames) /\ todo # << >> /\ DOMAIN todo = 1 .. 3
    BY <2>1 DEF QueryNames
  <2>3. todo[1] = {"page"} /\ todo[2] = {"posts"} /\ todo[3] = {"likes", "liked", "chats"}
    BY <2>1
  <2>4. \A k \in 1 .. 3 : k \in {1, 2, 3}
    OBVIOUS
  <2>5. Once(todo)
    BY <2>2, <2>3, <2>4 DEF Once
  <2>6. QED
    BY <1>4, <2>2, <2>3, <2>4, <2>5 DEF Ahead
<1>5. CASE op = "universities"
  <2>1. todo = <<{"filter"}, {"page"}>>
    BY <1>5 DEF Queries, SearchUniversitiesInPrimaryRegion
  <2>2. /\ todo \in Seq(SUBSET QueryNames) /\ todo # << >> /\ DOMAIN todo = 1 .. 2
        /\ Head(todo) = {"filter"}
    BY <2>1 DEF QueryNames
  <2>3. todo[1] = {"filter"} /\ todo[2] = {"page"}
    BY <2>1
  <2>4. \A k \in 1 .. 2 : k \in {1, 2}
    OBVIOUS
  <2>5. Once(todo)
    BY <2>2, <2>3, <2>4 DEF Once
  <2>6. QED
    BY <1>5, <2>2, <2>3, <2>4, <2>5 DEF Ahead
<1>6. CASE op \in {"conversations", "notifications"}
  <2>1. todo = <<{"page"}>>
    BY <1>6 DEF Queries, GetConversations, GetNotifications
  <2>2. todo \in Seq(SUBSET QueryNames) /\ todo # << >> /\ DOMAIN todo = 1 .. 1
    BY <2>1 DEF QueryNames
  <2>3. todo[1] = {"page"} /\ \A k \in 1 .. 1 : k = 1
    BY <2>1
  <2>4. Once(todo)
    BY <2>2, <2>3 DEF Once
  <2>5. QED
    BY <1>6, <2>2, <2>3, <2>4 DEF Ahead
<1>7. QED
  BY <1>1, <1>2, <1>3, <1>4, <1>5, <1>6 DEF Lists, OfPosts

\* Asking for the first page or the next.
LEMMA AskPages ==
  ASSUME DataInv, RowsInv, NEW r \in Req, Op(r) \in Lists, AskForPage(r),
         PagesOk(r, pc[r], got[r]),
         NEW s, s = pc'[r], NEW v, v = got'[r]
  PROVE  PagesOk(r, s, v)
<1>1. PICK from \in {"idle", "again"} : Step(r, from, "query",
        [IF from = "idle" THEN [NoPage EXCEPT !.start = Ids(r, Filter(r))]
                          ELSE got[r] EXCEPT !.todo = Queries(Op(r))])
  BY DEF AskForPage
<1>2. PICK page : page = IF from = "idle"
                           THEN [NoPage EXCEPT !.start = Ids(r, Filter(r))] ELSE got[r]
  OBVIOUS
<1>3. PICK todo : todo = Queries(Op(r))
  OBVIOUS
<1>4. s = "query" /\ v = [page EXCEPT !.todo = todo] /\ pc[r] = from
  <2>1. RequestInv
    BY DEF DataInv
  <2>2. PICK w : w = [page EXCEPT !.todo = todo]
    OBVIOUS
  <2>3. Step(r, from, "query", w)
    BY <1>1, <1>2, <1>3, <2>2
  <2>4. QED
    BY <2>1, <2>2, <2>3, StepMoves DEF Ends
<1>5. /\ todo \in Seq(SUBSET QueryNames) /\ todo # << >> /\ Once(todo)
      /\ Ahead(todo, "page")
      /\ Ahead(todo, "filter") => Head(todo) = {"filter"}
      /\ Op(r) \in {"list", "search", "universities"} => Ahead(todo, "filter")
      /\ Ahead(todo, "posts") => Op(r) = "purchases"
  BY <1>3, QueriesAre
<1>6. /\ page.ids = << >> /\ Collected(r, page, GetOffset(page.page, plan[r].size))
      /\ page.kept = FirstFilter(r) \/ Op(r) \in {"list", "search", "universities"}
  <2>1. CASE from = "idle"
    <3>1. PICK start : start = Ids(r, Filter(r))
      OBVIOUS
    <3>2. page = [NoPage EXCEPT !.start = start]
      BY <1>2, <2>1, <3>1
    <3>3. /\ DOMAIN page = PageFields /\ page.page = 1 /\ page.start = start
          /\ page.seen = << >> /\ page.ids = << >> /\ page.kept = {}
      BY <3>2 DEF NoPage, PageFields
    <3>4. << >> \in Seq({}) /\ DOMAIN << >> = {}
      OBVIOUS
    <3>5. Fields(r, page) /\ NoneTwice(page) /\ \A i : ~Has(page, i)
      BY <3>3, <3>4 DEF Fields, NoneTwice, Has
    <3>6. GetOffset(page.page, plan[r].size) = 0
      <4>1. plan[r].size \in Nat \ {0}
        BY RequestTypes DEF DataInv, StoreInv
      <4>2. QED
        BY <3>3, <4>1, OffsetNat
    <3>7. ASSUME NEW i \in start PROVE i \in Listed(r) /\ ~(Place(r, i) < 0)
      <4>1. Filter(r) = FirstFilter(r)
        <5>1. CASE Filter(r) = None /\ Op(r) = "universities"
          BY <3>1, <3>7, <5>1, NoRegion
        <5>2. QED
          BY <5>1, FilterIs
      <4>2. i \in Listed(r)
        BY <3>1, <3>7, <4>1 DEF Listed
      <4>3. IsFiniteSet(Listed(r))
        BY FiniteIds DEF Listed
      <4>4. PICK B : B = {j \in Listed(r) : InFront(r, j, i)}
        OBVIOUS
      <4>5. IsFiniteSet(B)
        BY <4>3, <4>4, FS_Subset
      <4>6. Cardinality(B) \in Nat
        BY <4>5, FS_CardinalityType
      <4>7. Place(r, i) = Cardinality(B)
        BY <4>4 DEF Place, Rank
      <4>8. QED
        BY <4>2, <4>6, <4>7
    <3>8. Within(r, page, 0) /\ Covers(r, page, 0)
      BY <3>3, <3>5, <3>7 DEF Within, Covers
    <3>9. page.kept = FirstFilter(r) \/ Op(r) \in {"list", "search", "universities"}
      BY <3>3 DEF FirstFilter
    <3>10. QED
      BY <3>3, <3>5, <3>6, <3>8, <3>9 DEF Collected
  <2>2. CASE from = "again"
    BY <1>2, <1>4, <2>2 DEF PagesOk
  <2>3. QED
    BY <2>1, <2>2
<1>7. DOMAIN page = PageFields
  BY <1>6 DEF Collected, Fields
<1>8. /\ DOMAIN v = PageFields /\ v.page = page.page /\ v.seen = page.seen
      /\ v.ids = page.ids /\ v.todo = todo /\ v.kept = page.kept /\ v.start = page.start
  BY <1>4, <1>7 DEF PageFields
<1>9. \A n : Collected(r, page, n) => Collected(r, v, n)
  BY <1>8 DEF Collected, Fields, NoneTwice, Within, Covers, Has
<1>10. Collected(r, v, Passed(r, v))
  BY <1>5, <1>6, <1>8, <1>9 DEF Passed
<1>11. TodoOk(r, v.todo, v.kept)
  BY <1>5, <1>6, <1>8 DEF TodoOk
<1>12. QED
  BY <1>4, <1>5, <1>6, <1>8, <1>10, <1>11 DEF PagesOk

\* Reading the posts of a page: none is missing, as posts stay as rows.
LEMMA FoundPages ==
  ASSUME DataInv, NEW r \in Req, Op(r) \in Lists, FindByIdsIncludingDeleted(r),
         NEW page, page = got[r], PagesOk(r, "query", page),
         NEW s, s = pc'[r], NEW v, v = got'[r]
  PROVE  PagesOk(r, s, v)
<1>1. PICK found : found = {i \in ToSet(page.ids) : Subject(r, i) \in PostIds}
  OBVIOUS
<1>2. PICK ids, next : ids = Found(page.ids, found) /\ next = [page EXCEPT !.ids = ids]
  OBVIOUS
<1>3. Proceed(r, "posts", next) /\ "posts" \in Head(page.todo)
  BY <1>1, <1>2 DEF FindByIdsIncludingDeleted, Awaits
<1>4. /\ TodoOk(r, page.todo, page.kept) /\ page.todo # << >> /\ Fields(r, page)
  BY DEF PagesOk, Collected
<1>5. /\ DOMAIN next = PageFields /\ next.page = page.page /\ next.seen = page.seen
      /\ next.todo = page.todo /\ next.ids = ids /\ next.kept = page.kept
      /\ next.start = page.start /\ next.hasNext = page.hasNext
  BY <1>2, <1>4 DEF Fields, PageFields
<1>6. Op(r) = "purchases"
  <2>1. page.todo \in Seq(SUBSET QueryNames)
    BY <1>4 DEF TodoOk
  <2>2. 1 \in DOMAIN page.todo /\ "posts" \in page.todo[1]
    BY <1>3, <1>4, <2>1
  <2>3. QED
    BY <1>4, <2>2 DEF Ahead, TodoOk
<1>7. ASSUME ~Tied(r) PROVE ids = page.ids
  <2>1. PICK R : page.ids \in Seq(R)
    BY <1>4, <1>7 DEF Fields
  <2>2. ASSUME NEW k \in DOMAIN page.ids PROVE page.ids[k] \in found
    <3>1. PICK i : i = page.ids[k]
      OBVIOUS
    <3>2. i \in DOMAIN db.progress
      BY <1>4, <1>6, <1>7, <2>2, <3>1 DEF Fields
    <3>3. Subject(r, i) = db.progress[i].post
      BY <1>6 DEF Subject
    <3>4. db.progress[i].post \in PostIds
      BY <3>2, RowTypes DEF ProgressRow
    <3>5. i \in ToSet(page.ids)
      BY <2>2, <3>1 DEF ToSet
    <3>6. QED
      BY <1>1, <3>1, <3>3, <3>4, <3>5
  <2>3. QED
    BY <1>2, <2>1, <2>2, AllFound
<1>8. ASSUME page.ids = << >> PROVE ids = page.ids
  <2>1. page.ids \in Seq({}) /\ \A k \in DOMAIN page.ids : page.ids[k] \in found
    BY <1>8
  <2>2. QED
    BY <1>2, <2>1, AllFound
<1>9. QED
  BY <1>3, <1>5, <1>7, <1>8, OtherQuery

\* The counts of a page leave its entries alone.
LEMMA CountPages ==
  ASSUME DataInv, NEW r \in Req, Op(r) \in Lists,
         CountLikes(r) \/ CountConversations(r) \/ FindLiked(r),
         NEW page, page = got[r], PagesOk(r, "query", page),
         NEW s, s = pc'[r], NEW v, v = got'[r]
  PROVE  PagesOk(r, s, v)
<1>1. DOMAIN page = PageFields
  BY DEF PagesOk, Collected, Fields
<1>2. CASE CountLikes(r)
  <2>1. PICK likes, next : /\ likes = [p \in PostIds |-> Cardinality(FindLikes(db, p))]
                           /\ next = [page EXCEPT !.likes = likes]
    OBVIOUS
  <2>2. Proceed(r, "likes", next) /\ "likes" \in Head(page.todo)
    BY <1>2, <2>1 DEF CountLikes, Awaits
  <2>3. /\ DOMAIN next = PageFields /\ next.page = page.page /\ next.seen = page.seen
        /\ next.todo = page.todo /\ next.ids = page.ids /\ next.kept = page.kept
        /\ next.start = page.start /\ next.hasNext = page.hasNext
    BY <1>1, <2>1 DEF PageFields
  <2>4. QED
    BY <2>2, <2>3, OtherQuery
<1>3. CASE CountConversations(r)
  <2>1. PICK chats, next :
          /\ chats = [p \in PostIds |-> Cardinality(FindConversations(db, p))]
          /\ next = [page EXCEPT !.chats = chats]
    OBVIOUS
  <2>2. Proceed(r, "chats", next) /\ "chats" \in Head(page.todo)
    BY <1>3, <2>1 DEF CountConversations, Awaits
  <2>3. /\ DOMAIN next = PageFields /\ next.page = page.page /\ next.seen = page.seen
        /\ next.todo = page.todo /\ next.ids = page.ids /\ next.kept = page.kept
        /\ next.start = page.start /\ next.hasNext = page.hasNext
    BY <1>1, <2>1 DEF PageFields
  <2>4. QED
    BY <2>2, <2>3, OtherQuery
<1>4. CASE FindLiked(r)
  <2>1. PICK liked, next : /\ liked = {p \in PostIds : FindLike(db, p, User(r)) # {}}
                           /\ next = [page EXCEPT !.liked = liked]
    OBVIOUS
  <2>2. Proceed(r, "liked", next) /\ "liked" \in Head(page.todo)
    BY <1>4, <2>1 DEF FindLiked, Awaits
  <2>3. /\ DOMAIN next = PageFields /\ next.page = page.page /\ next.seen = page.seen
        /\ next.todo = page.todo /\ next.ids = page.ids /\ next.kept = page.kept
        /\ next.start = page.start /\ next.hasNext = page.hasNext
    BY <1>1, <2>1 DEF PageFields
  <2>4. QED
    BY <2>2, <2>3, OtherQuery
<1>5. QED
  BY <1>2, <1>3, <1>4

\* The lists depend on nothing but the rows and the plan.
LEMMA ListedStill ==
  ASSUME db' = db, plan' = plan, NEW r \in Req, Op(r) \in Lists
  PROVE  Listed(r)' = Listed(r) /\ \A i : Place(r, i)' = Place(r, i)
<1>1. /\ Req' = Req /\ Op(r)' = Op(r) /\ User(r)' = User(r) /\ plan'[r] = plan[r]
      /\ FirstFilter(r)' = FirstFilter(r) /\ PostIds' = PostIds
  BY DEF Req, Op, User, FirstFilter, PostIds
<1>2. \A p : Shown(p)' <=> Shown(p)
  BY DEF Shown
<1>3. \A p : Matches(r, db.posts[p])' <=> Matches(r, db.posts[p])
  BY DEF Matches
<1>4. ASSUME NEW kept, NEW i PROVE InList(r, kept, i)' <=> InList(r, kept, i)
  <2>1. CASE Op(r) = "list"
    BY <1>1, <1>2, <2>1 DEF InList
  <2>2. CASE Op(r) = "search"
    BY <1>1, <1>2, <1>3, <2>2 DEF InList
  <2>3. CASE Op(r) = "mySales"
    BY <1>1, <2>3 DEF InList
  <2>4. CASE Op(r) = "userSales"
    BY <1>1, <1>2, <2>4 DEF InList
  <2>5. CASE Op(r) = "myLikes"
    BY <1>1, <1>2, <2>5 DEF InList
  <2>6. CASE Op(r) = "purchases"
    BY <1>1, <2>6 DEF InList
  <2>7. CASE Op(r) = "universities"
    <3>1. InList(r, kept, i) <=> i \in plan[r].among /\ \E p \in PostIds :
             /\ Shown(p) /\ db.posts[p].region = kept
             /\ db.users[db.posts[p].user].university = i
      BY <2>7 DEF InList
    <3>2. InList(r, kept, i)' <=> i \in plan[r].among /\ \E p \in PostIds :
             /\ Shown(p)' /\ db.posts[p].region = kept
             /\ db.users[db.posts[p].user].university = i
      BY <1>1, <2>7 DEF InList
    <3>3. QED
      BY <1>2, <3>1, <3>2
  <2>8. CASE Op(r) = "conversations"
    BY <1>1, <2>8 DEF InList
  <2>9. CASE Op(r) = "notifications"
    BY <1>1, <2>9 DEF InList, Owned
  <2>10. QED
    BY <2>1, <2>2, <2>3, <2>4, <2>5, <2>6, <2>7, <2>8, <2>9 DEF Lists, OfPosts
<1>5. PICK kept : kept = FirstFilter(r)
  OBVIOUS
<1>6. Listed(r) = Ids(r, kept) /\ Listed(r)' = Ids(r, kept)'
  BY <1>1, <1>5 DEF Listed
<1>7. Listed(r)' = Listed(r)
  <2>1. \A i : i \in Ids(r, kept) <=> InList(r, kept, i)
    BY IdsAre
  <2>2. \A i : i \in Ids(r, kept)' <=> InList(r, kept, i)'
    BY <1>1, IdsAfter
  <2>3. \A i : i \in Ids(r, kept)' <=> i \in Ids(r, kept)
    BY <1>4, <2>1, <2>2
  <2>4. PICK A, B : A = Ids(r, kept) /\ B = Ids(r, kept)'
    OBVIOUS
  <2>5. A \subseteq B /\ B \subseteq A
    BY <2>3, <2>4
  <2>6. QED
    BY <1>6, <2>4, <2>5
<1>8. ASSUME NEW i, NEW j PROVE InFront(r, i, j)' <=> InFront(r, i, j)
  <2>1. At(r, i)' = At(r, i) /\ At(r, j)' = At(r, j)
    BY <1>1 DEF At
  <2>2. PICK a, b : a = [id |-> i, at |-> At(r, i)] /\ b = [id |-> j, at |-> At(r, j)]
    OBVIOUS
  <2>3. InFront(r, i, j) <=> Before(r, a, b)
    BY <2>2 DEF InFront
  <2>4. InFront(r, i, j)' <=> Before(r, a, b)'
    BY <2>1, <2>2 DEF InFront
  <2>5. Before(r, a, b)' <=> Before(r, a, b)
    BY <1>1 DEF Before
  <2>6. QED
    BY <2>3, <2>4, <2>5
<1>9. ASSUME NEW i PROVE Place(r, i)' = Place(r, i)
  <2>1. PICK A, B : /\ A = {j \in Listed(r) : InFront(r, j, i)}
                    /\ B = {j \in Listed(r)' : InFront(r, j, i)'}
    OBVIOUS
  <2>2. A \subseteq B /\ B \subseteq A
    BY <1>7, <1>8, <2>1
  <2>3. Place(r, i) = Cardinality(A) /\ Place(r, i)' = Cardinality(B)
    BY <2>1 DEF Place, Rank
  <2>4. QED
    BY <2>2, <2>3
<1>10. QED
  BY <1>7, <1>9

\* A step that changes no row and no reader keeps PagesInv.
LEMMA PagesStill ==
  ASSUME PagesInv, Still
  PROVE  PagesInv'
<1>1. plan' = plan /\ Req' = Req /\ db' = db
  BY DEF Still
<1>2. \A q \in Req : Op(q)' = Op(q) /\ User(q)' = User(q) /\ Post(q)' = Post(q)
  BY <1>1 DEF Op, User, Post
<1>3. ASSUME NEW r \in Req, Op(r) \in Lists, NEW s, NEW v, PagesOk(r, s, v)
      PROVE  PagesOk(r, s, v)'
  <2>1. FirstFilter(r)' = FirstFilter(r) /\ Passed(r, v)' = Passed(r, v)
        /\ Appearing(Op(r))' = Appearing(Op(r)) /\ Vanishing(Op(r))' = Vanishing(Op(r))
    BY <1>1, <1>2 DEF FirstFilter, Passed, Appearing, Vanishing
  <2>2. Listed(r)' = Listed(r) /\ \A i : Place(r, i)' = Place(r, i)
    BY <1>1, <1>3, ListedStill
  <2>3. Tied(r) => Tied(r)'
    <3>1. ASSUME Op(r) = "myLikes", NEW p \in Req, NEW q \in Req,
                 Op(p) = "like", User(p) = User(r), Op(q) = "like", User(q) = User(r),
                 Post(p) = Post(q), Met(p, q)
          PROVE  Tied(r)'
      <4>1. Met(p, q)'
        BY <3>1 DEF Still
      <4>2. QED
        BY <1>1, <1>2, <3>1, <4>1 DEF Tied
    <3>2. QED
      BY <1>1, <1>2, <3>1 DEF Tied
  <2>4. \A ops : Undisturbed(r, ops)' => Undisturbed(r, ops)
    BY <1>1, <1>2, <2>3 DEF Undisturbed, MetAny, Still
  <2>5. Fields(r, v) => Fields(r, v)'
    BY <1>1, <1>2, <2>3 DEF Fields
  <2>6. Complete(r, v) => Complete(r, v)'
    BY <2>1, <2>4 DEF Complete, Has
  <2>7. \A n : Collected(r, v, n) => Collected(r, v, n)'
    <3>1. \A n : Within(r, v, n) => Within(r, v, n)'
      BY <2>2 DEF Within, Has
    <3>2. \A n : Covers(r, v, n) => Covers(r, v, n)'
      BY <2>2 DEF Covers, Has
    <3>3. NoneTwice(v) => NoneTwice(v)'
      BY DEF NoneTwice
    <3>4. QED
      BY <2>1, <2>4, <2>5, <3>1, <3>2, <3>3 DEF Collected
  <2>8. s = "query" => PagesOk(r, s, v)'
    <3>1. TodoOk(r, v.todo, v.kept) => TodoOk(r, v.todo, v.kept)'
      BY <1>2, <2>1 DEF TodoOk
    <3>2. Collected(r, v, Passed(r, v)) => Collected(r, v, Passed(r, v))'
      <4>1. PICK n : n = Passed(r, v)
        OBVIOUS
      <4>2. QED
        BY <2>1, <2>7, <4>1
    <3>3. QED
      BY <1>3, <2>6, <3>1, <3>2 DEF PagesOk
  <2>9. s = "again" => PagesOk(r, s, v)'
    <3>1. PICK n : n = GetOffset(v.page, plan[r].size)
      OBVIOUS
    <3>2. n = GetOffset(v.page, plan[r].size)'
      BY <1>1, <3>1
    <3>3. QED
      BY <1>3, <2>1, <2>7, <3>1, <3>2 DEF PagesOk
  <2>10. s = "done" => PagesOk(r, s, v)'
    BY <1>3, <2>1, <2>4, <2>5, <2>6 DEF PagesOk, NoneTwice
  <2>11. s \notin {"query", "again", "done"} => PagesOk(r, s, v)'
    BY DEF PagesOk
  <2>12. QED
    BY <2>8, <2>9, <2>10, <2>11
<1>4. ASSUME NEW r \in Req, Op(r) \in Lists, NEW s, s = pc'[r], NEW v, v = got'[r]
      PROVE  PagesOk(r, s, v)'
  <2>1. CASE s = "failed"
    BY <2>1 DEF PagesOk
  <2>2. CASE s # "failed"
    <3>1. pc[r] = s /\ got[r] = v
      BY <1>4, <2>2 DEF Still
    <3>2. PagesOk(r, s, v)
      BY <1>4, <3>1 DEF PagesInv
    <3>3. QED
      BY <1>3, <1>4, <3>2
  <2>3. QED
    BY <2>1, <2>2
<1>5. QED
  BY <1>1, <1>2, <1>4 DEF PagesInv

\* Each step of the reader's own.
LEMMA PagesSteps ==
  ASSUME DataInv, ImageInv, RowsInv, PagesInv, NEW r \in Req, Op(r) \in Lists, Handle(r),
         NEW s, s = pc'[r], NEW v, v = got'[r]
  PROVE  PagesOk(r, s, v)
<1>1. \/ AskForPage(r) \/ ReadFilter(r) \/ ReadPage(r)
      \/ FindByIdsIncludingDeleted(r) \/ CountLikes(r)
      \/ CountConversations(r) \/ FindLiked(r)
  BY HandlerOps
<1>2. PICK page : page = got[r]
  OBVIOUS
<1>3. PagesOk(r, pc[r], page)
  BY <1>2 DEF PagesInv
<1>4. CASE AskForPage(r)
  BY <1>2, <1>3, <1>4, AskPages
<1>5. CASE ReadFilter(r)
  <2>1. pc[r] = "query"
    BY <1>5 DEF ReadFilter, Awaits
  <2>2. QED
    BY <1>2, <1>3, <1>5, <2>1, FilterPages
<1>6. CASE ReadPage(r)
  <2>1. pc[r] = "query"
    BY <1>6 DEF ReadPage, Awaits
  <2>2. QED
    BY <1>2, <1>3, <1>6, <2>1, ReadPages
<1>7. CASE FindByIdsIncludingDeleted(r)
  <2>1. pc[r] = "query"
    BY <1>7 DEF FindByIdsIncludingDeleted, Awaits
  <2>2. QED
    BY <1>2, <1>3, <1>7, <2>1, FoundPages
<1>8. CASE CountLikes(r) \/ CountConversations(r) \/ FindLiked(r)
  <2>1. pc[r] = "query"
    BY <1>8 DEF CountLikes, CountConversations, FindLiked, Awaits
  <2>2. QED
    BY <1>2, <1>3, <1>8, <2>1, CountPages
<1>9. QED
  BY <1>1, <1>4, <1>5, <1>6, <1>7, <1>8

\* Each step of any handler.
LEMMA PagesHandle ==
  ASSUME DataInv, ImageInv, RowsInv, PagesInv, NEW h \in Req, Handle(h)
  PROVE  PagesInv'
<1>1. /\ RequestInv /\ Moves(h) /\ Advances(h) /\ Req' = Req /\ plan' = plan
  BY HandleMoves DEF DataInv
<1>2. \A q \in Req : Op(q)' = Op(q)
  BY <1>1 DEF Op
<1>3. ASSUME NEW r \in Req, Op(r) \in Lists, NEW s, s = pc'[r], NEW v, v = got'[r]
      PROVE  PagesOk(r, s, v)'
  <2>1. CASE r = h
    <3>1. PagesOk(r, s, v)
      BY <1>3, <2>1, PagesSteps
    <3>2. QED
      BY <1>3, <2>1, <3>1, PagesKept
  <2>2. CASE r # h
    <3>1. pc[r] = s /\ got[r] = v
      BY <1>1, <1>3, <2>2, OthersStay
    <3>2. PagesOk(r, s, v)
      BY <1>3, <3>1 DEF PagesInv
    <3>3. s \in {"query", "again"} => Met(h, r)'
      <4>1. s \in {"query", "again"} => Running(r)
        BY <3>1 DEF Running, Ends
      <4>2. QED
        BY <1>1, <2>2, <4>1, MovingMeet
    <3>4. QED
      BY <1>3, <3>2, <3>3, PagesKept
  <2>3. QED
    BY <2>1, <2>2
<1>4. QED
  BY <1>1, <1>2, <1>3 DEF PagesInv

\* Every reader has what PagesInv says.
LEMMA PagesInvariant == Spec => []PagesInv
<1>1. Init => PagesInv
  BY DEF Init, RequestsInit, PagesInv, PagesOk
<1>2. DataInv /\ ImageInv /\ RowsInv /\ PagesInv /\ [Next]_marketVars => PagesInv'
  BY StillStep, PagesStill, PagesHandle
<1>3. QED
  BY <1>1, <1>2, DataInvariant, ImagesInvariant, RowsInvariant, PTL DEF Spec

\* A list that is read page by page to its end names no entry twice unless
\* requests that may bring entries in met the reader, and leaves out none that
\* was there from the start unless requests that take entries out did.
THEOREM ListsAreComplete == Spec => []ListsComplete
<1>1. DataInv /\ PagesInv => ListsComplete
  <2>1. SUFFICES ASSUME DataInv, PagesInv, NEW r \in Req, Op(r) \in Lists, Done(r), ~Tied(r)
                 PROVE  LET ids == [i \in DOMAIN got[r].seen |-> got[r].seen[i].id]
                            With(ops) == MetAny(r, {q \in Req : Op(q) \in ops})
                        IN /\ ~With(Appearing(Op(r))) => NoRepeats(ids)
                           /\ ~With(Vanishing(Op(r))) /\ got[r].kept # None
                                => got[r].start \cap Ids(r, got[r].kept) \subseteq ToSet(ids)
    BY DEF ListsComplete
  <2>2. PICK v, seen : v = got[r] /\ seen = v.seen
    OBVIOUS
  <2>3. PICK ids : ids = [i \in DOMAIN seen |-> seen[i].id]
    OBVIOUS
  <2>4. /\ v.ids = << >> /\ Fields(r, v)
        /\ Undisturbed(r, Appearing(Op(r))) => NoneTwice(v)
        /\ v.kept # None => Complete(r, v)
    BY <2>1, <2>2 DEF PagesInv, PagesOk, Done
  <2>5. PICK R : seen \in Seq(R)
    BY <2>1, <2>2, <2>4 DEF Fields
  <2>6. PICK n \in Nat : n = Len(seen) /\ DOMAIN seen = 1 .. n
    BY <2>5
  <2>7. PICK I : I = {seen[i].id : i \in 1 .. n}
    OBVIOUS
  <2>8. DOMAIN ids = 1 .. n /\ \A i \in 1 .. n : ids[i] = seen[i].id /\ ids[i] \in I
    BY <2>3, <2>6, <2>7
  <2>9. ids \in Seq(I)
    <3>1. ids \in [1 .. n -> I]
      BY <2>3, <2>6, <2>8
    <3>2. QED
      BY <3>1
  <2>10. ASSUME ~MetAny(r, {q \in Req : Op(q) \in Appearing(Op(r))})
         PROVE  NoRepeats(ids)
    <3>1. NoneTwice(v)
      BY <2>1, <2>4, <2>10 DEF Undisturbed
    <3>2. \A j, k \in DOMAIN ids : ids[j] = ids[k] => j = k
      BY <2>2, <2>6, <2>8, <3>1 DEF NoneTwice
    <3>3. QED
      BY <2>9, <3>2, OnceEach
  <2>11. ASSUME ~MetAny(r, {q \in Req : Op(q) \in Vanishing(Op(r))}), v.kept # None,
                NEW i \in v.start
         PROVE  i \in ToSet(ids)
    <3>1. Has(v, i)
      BY <2>1, <2>4, <2>11 DEF Undisturbed, Complete
    <3>2. DOMAIN v.ids = {}
      BY <2>4
    <3>3. PICK k \in DOMAIN seen : seen[k].id = i
      BY <2>2, <3>1, <3>2 DEF Has
    <3>4. QED
      BY <2>6, <2>8, <3>3 DEF ToSet
  <2>12. ids = [i \in DOMAIN got[r].seen |-> got[r].seen[i].id]
    BY <2>2, <2>3
  <2>13. /\ ~MetAny(r, {q \in Req : Op(q) \in Appearing(Op(r))}) => NoRepeats(ids)
         /\ ~MetAny(r, {q \in Req : Op(q) \in Vanishing(Op(r))}) /\ got[r].kept # None
              => got[r].start \cap Ids(r, got[r].kept) \subseteq ToSet(ids)
    BY <2>2, <2>10, <2>11
  <2>14. QED
    BY <2>12, <2>13
<1>2. QED
  BY <1>1, DataInvariant, PagesInvariant, PTL
=============================================================================
