------------------------------- MODULE Fanout -------------------------------
(***************************************************************************)
(* Notifications (NotificationService): the fan-out of a price change to   *)
(* everybody who likes the post or chats about it, and the requests by     *)
(* which users read, delete and switch off their notifications.            *)
(***************************************************************************)
EXTENDS MarketData

NotificationRequests ==
  [op: {"readNotification"}, user: Nat, id: Nat]
    \cup [op: {"deleteNotifications"}, user: Nat, ids: SUBSET Nat]
    \cup [op: {"deleteAllNotifications"}, user: Nat]

SettingsRequests ==
  [op: {"getSettings"}, user: Nat] \cup [op: {"settings"}, user: Nat, on: BOOLEAN]

OnlyTables == NoEvents /\ UNCHANGED now
OnlyReads  == NoWrite /\ OnlyTables

-----------------------------------------------------------------------------
(* notifyProductPostUpdate, in the transaction of updateProductPost.       *)

\* Likes, users and devices are read in the transaction: from its snapshot.
Interested(d, p) ==
  [likers  |-> {d.likes[i].user : i \in FindLikes(d, p)},
   enabled |-> {u \in LiveRows(d.users) : d.users[u].priceOn},
   phones  |-> {u \in DOMAIN d.users : d.users[u].devices}]

\* getKnex leaves the transaction: the chatters are the latest committed.
FindChatters(p) ==
  {db.participants[i].user : i \in {j \in ActiveParticipants(db) :
     db.conversations[db.participants[j].conv].post = p}}

\* Mutant: the setting is not asked for.
Targets_All(r, likers, enabled) ==
  (likers \cup FindChatters(plan[r].post)) \ {User(r)}

Targets(r, likers, enabled) ==
  ((likers \cup FindChatters(plan[r].post)) \ {User(r)}) \cap enabled

\* The rows are inserted here, the messages follow: targets with a device.
NotifyProductPostUpdate(r) ==
  /\ pc[r] = "notify"
  /\ LET snap == got[r].interested
         targets == Targets(r, snap.likers, snap.enabled)
     IN Step(r, "notify", IF targets = {} THEN "commit" ELSE "push",
             [likers |-> snap.likers, targets |-> targets,
              unsent |-> SetToSeq(targets \cap snap.phones)])
  /\ OnlyReads

\* sendMessageBatch: one call per BatchSize messages.  Entries that SQS
\* reports as failed are logged and forgotten.
SendMessageBatch(r) ==
  /\ pc[r] = "push"
  /\ LET batch == Window(got[r].unsent, 0, BatchSize)
     IN /\ \E accepted \in SUBSET ToSet(batch) :
             queued' = queued \o [i \in 1 .. Cardinality(accepted) |->
                         [by |-> r, user |-> SetToSeq(accepted)[i]]]
        /\ LET rest == SubSeq(got[r].unsent, Len(batch) + 1, Len(got[r].unsent))
           IN Step(r, "push", IF rest = << >> THEN "commit" ELSE "push",
                   [got[r] EXCEPT !.unsent = rest])
  /\ NoWrite /\ UNCHANGED <<now, online, emitted>>

\* Mutant: only the targets that got a push have a row.
Notified_Likers(r, targets, likers) ==
  [i \in 1 .. Cardinality(targets \cap likers) |->
     [user |-> SetToSeq(targets \cap likers)[i], post |-> plan[r].post,
      about |-> "LIKE", read |-> FALSE, at |-> now, live |-> TRUE, by |-> r]]

\* The notification rows of the transaction.
Notified(r, targets, likers) ==
  [i \in 1 .. Cardinality(targets) |->
     LET u == SetToSeq(targets)[i]
     IN [user |-> u, post |-> plan[r].post,
         about |-> IF u \in likers THEN "LIKE" ELSE "CHAT",
         read |-> FALSE, at |-> now, live |-> TRUE, by |-> r]]

-----------------------------------------------------------------------------
(* The user's side: no transactions.                                       *)

Owned(u) == {i \in LiveRows(db.notifications) : db.notifications[i].user = u}

FindNotification(r) ==
  /\ Op(r) = "readNotification"
  /\ IF plan[r].id \notin Owned(User(r)) THEN Refuse(r, "idle")
     ELSE Step(r, "idle", IF db.notifications[plan[r].id].read THEN "done"
                                                               ELSE "read", None)
  /\ OnlyReads

MarkNotificationAsRead(r) ==
  /\ Step(r, "read", "done", None)
  /\ db' = [db EXCEPT !.notifications = Write(@, {plan[r].id}, "read", TRUE)]
  /\ OnlyTables

DeleteNotifications(r) ==
  /\ Op(r) \in {"deleteNotifications", "deleteAllNotifications"}
  /\ Step(r, "idle", "done", None)
  /\ db' = [db EXCEPT !.notifications = SoftDelete(@,
       IF Op(r) = "deleteAllNotifications" THEN Owned(User(r))
       ELSE Owned(User(r)) \cap plan[r].ids)]
  /\ OnlyTables

\* findOne(userId) does not ask whether the user is deleted.
ReadSettings(r) ==
  /\ Op(r) \in {"getSettings", "settings"}
  /\ IF User(r) \notin UserIds THEN Refuse(r, "idle")
     ELSE Step(r, "idle", IF Op(r) = "settings" THEN "settings" ELSE "done",
               db.users[User(r)].priceOn)
  /\ OnlyReads

\* The flush writes the column only where it differs from what was read.
UpdateSettings(r) ==
  /\ pc[r] = "settings"
  /\ db' = IF got[r] = plan[r].on THEN db
           ELSE [db EXCEPT !.users = Write(@, {User(r)}, "priceOn", plan[r].on)]
  /\ Step(r, "settings", "done", None)
  /\ OnlyTables

FanoutNext(r) ==
  \/ NotifyProductPostUpdate(r) \/ SendMessageBatch(r)
  \/ FindNotification(r) \/ MarkNotificationAsRead(r) \/ DeleteNotifications(r)
  \/ ReadSettings(r) \/ UpdateSettings(r)

-----------------------------------------------------------------------------

Pushes(r, u)   == {i \in DOMAIN queued : queued[i] = [by |-> r, user |-> u]}
NoticesOf(r, u) == {i \in DOMAIN db.notifications :
                      /\ db.notifications[i].by = r
                      /\ db.notifications[i].user = u}

\* One price change gives a user at most one notification and one push, and
\* nobody is pushed without finding a notification, unless the change is
\* still under way or has failed after the push was sent.
PushHasNotification ==
  \A r \in Req : Op(r) = "edit" => \A u \in UserIds :
    /\ Cardinality(Pushes(r, u)) <= 1
    /\ Cardinality(NoticesOf(r, u)) <= 1
    /\ Pushes(r, u) # {} /\ NoticesOf(r, u) = {} => Running(r) \/ pc[r] = "failed"

\* A notification goes to nobody who had switched the setting off or left the
\* service before the change, nor to the seller; and it reaches everybody who
\* had liked the post by then, had the setting on all the while and neither
\* took the like back nor left.
NotificationsAreWanted ==
  \A r \in Req : Op(r) = "edit" /\ Done(r) => \A u \in UserIds :
    LET settings == {q \in Req : Op(q) = "settings" /\ User(q) = u}
        left     == {q \in Req : Op(q) = "withdraw" /\ User(q) = u /\ Done(q)}
        off      == {q \in settings : Done(q) /\ ~plan[q].on}
    IN /\ NoticesOf(r, u) # {} =>
            /\ u # User(r)
            /\ left \cap past[r] = {}
            /\ off \cap past[r] # {} => \E q \in settings : plan[q].on
       /\ /\ got[r].notified
          /\ u # User(r) /\ db.users[u].live /\ db.users[u].priceOn
          /\ settings \subseteq past[r]
          /\ \E i \in FindLike(db, plan[r].post, u) : db.likes[i].by \in past[r] \cup {0}
          => NoticesOf(r, u) # {}

\* The fan-out of a price change is true to its rows: at most one push and one
\* notification each, the push not without the row, and for exactly those who
\* want it, although each table is read at another moment.
FanoutIsTrue == PushHasNotification /\ NotificationsAreWanted
=============================================================================
