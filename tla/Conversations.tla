--------------------------- MODULE Conversations ----------------------------
(***************************************************************************)
(* The chat-server's conversations (ConversationService), and what a       *)
(* message sets off once it is stored (ChatService.sendMessage): socket    *)
(* events to the participants, pushes to those who are offline.            *)
(* SendMessage has the retries of a message, ParticipantCache the cache of *)
(* the participants, Presence the sets of online users.                    *)
(***************************************************************************)
EXTENDS Listing

ConversationRequests == [op: {"createConversation"}, user: Nat, post: Nat]

\* enter: the client joins the room and then reads the messages.
MessagesRequests ==
  [op: {"messages", "enter"}, user: Nat, conv: Nat, size: Nat \ {0}]

LeaveRequests == [op: {"leave", "permission"}, user: Nat, conv: Nat]

SendRequests == [op: {"send"}, user: Nat, conv: Nat]

Conv(r) == plan[r].conv

-----------------------------------------------------------------------------
(* createConversation: the post, its seller, the conversations about it,   *)
(* the user's own among them, and only then a transaction that inserts.    *)

ReadTopic(r) ==
  /\ Op(r) = "createConversation"
  /\ IF FindPost(db, Post(r)) /\ ~db.posts[Post(r)].hidden
        /\ db.posts[Post(r)].status = "FOR_SALE"
       THEN Step(r, "idle", "seller", None) ELSE Refuse(r, "idle")
  /\ OnlyReads

ReadSeller(r) ==
  /\ pc[r] = "seller" /\ Op(r) = "createConversation"
  /\ IF FindById(db, db.posts[Post(r)].user) /\ ~IsOwner(db, Post(r), User(r))
       THEN Step(r, "seller", "existing", None) ELSE Refuse(r, "seller")
  /\ OnlyReads

\* Mutant: only the newest conversation about the post is looked at.
FindExistingConversation_Newest(r) ==
  /\ Op(r) = "createConversation"
  /\ \/ /\ pc[r] = "existing"
        /\ Step(r, "existing", "mine", FindConversations(db, Post(r)))
     \/ /\ pc[r] = "mine"
        /\ LET newest == IF got[r] = {} THEN {} ELSE {Max(got[r])}
               mine == {c \in newest : FindParticipant(db, c, User(r)) # {}}
           IN IF mine = {} THEN Step(r, "mine", "insert", None)
                           ELSE Step(r, "mine", "done", Min(mine))
  /\ OnlyReads

FindExistingConversation(r) ==
  /\ Op(r) = "createConversation"
  /\ \/ /\ pc[r] = "existing"
        /\ Step(r, "existing", "mine", FindConversations(db, Post(r)))
     \/ /\ pc[r] = "mine"
        /\ LET mine == {c \in got[r] : FindParticipant(db, c, User(r)) # {}}
           IN IF mine = {} THEN Step(r, "mine", "insert", None)
                           ELSE Step(r, "mine", "done", Min(mine))
  /\ OnlyReads

NewParticipant(c, u) == [conv |-> c, user |-> u, read |-> 0, leftAt |-> None,
                         blocking |-> FALSE, muted |-> FALSE, live |-> TRUE]

InsertConversation(r) ==
  /\ pc[r] = "insert"
  /\ LET c == Len(db.conversations) + 1
     IN /\ db' = [db EXCEPT
             !.conversations = Append(@, [post |-> Post(r), last |-> 0,
                                          sentAt |-> None, by |-> r]),
             !.participants = @ \o <<NewParticipant(c, User(r)),
                                     NewParticipant(c, db.posts[Post(r)].user)>>]
        /\ Step(r, "insert", "done", c)
  /\ OnlyTables

-----------------------------------------------------------------------------
(* joinRoom and getMessages.                                               *)

\* The participants are looked up, then the user is added to the room.
JoinRoom(r) ==
  /\ Op(r) = "enter"
  /\ \/ /\ IF FindParticipant(db, Conv(r), User(r)) # {}
             THEN Step(r, "idle", "join", None) ELSE Refuse(r, "idle")
        /\ UNCHANGED online
     \/ /\ Step(r, "join", "joined", None)
        /\ online' = online \cup {<<Conv(r), User(r)>>}
  /\ NoWrite /\ UNCHANGED <<now, emitted, queued>>

NothingSeen == [cursor |-> 0, seen |-> << >>, sentAt |-> None, leftAt |-> None,
                upTo |-> 0]

\* upTo: the newest message when the client asked for its first page.
ReadConversation(r) ==
  /\ Op(r) \in {"messages", "enter"}
  /\ \E from \in {IF Op(r) = "enter" THEN "joined" ELSE "idle", "again"} :
       /\ pc[r] = from
       /\ IF Conv(r) \notin ConversationIds THEN Refuse(r, from)
          ELSE LET room  == db.conversations[Conv(r)]
                   state == IF from = "again" THEN got[r]
                            ELSE [NothingSeen EXCEPT !.upTo = room.last]
               IN Step(r, from, "reader", [state EXCEPT !.sentAt = room.sentAt])
  /\ OnlyReads

\* Who has left is turned away once a message has followed.
TurnedAway(sentAt, leftAt) == sentAt # None /\ leftAt # None /\ sentAt > leftAt

ReadReader(r) ==
  /\ pc[r] = "reader"
  /\ \E i \in AnyOf(FindParticipant(db, Conv(r), User(r))) :
       IF i = None \/ (i # None /\ TurnedAway(got[r].sentAt, db.participants[i].leftAt))
         THEN Refuse(r, "reader")
         ELSE Step(r, "reader", "statuses",
                   [got[r] EXCEPT !.leftAt = db.participants[i].leftAt])
  /\ OnlyReads

\* The page's read status: how far each participant has read.
ReadStatuses(r) ==
  /\ pc[r] = "statuses"
  /\ Step(r, "statuses", "messages", got[r])
  /\ OnlyReads

\* findByConversationIdAndLessThanMessageNumber.
Readable(c, leftAt) ==
  {db.messages[m].number : m \in {k \in DOMAIN db.messages :
     db.messages[k].conv = c /\ (leftAt = None \/ db.messages[k].at > leftAt)}}

ReadMessages(r) ==
  /\ pc[r] = "messages"
  /\ LET page == CursorPage(Readable(Conv(r), got[r].leftAt), got[r].cursor, plan[r].size)
     IN Step(r, "messages", IF page.hasNext THEN "again" ELSE "done",
             [got[r] EXCEPT !.cursor = page.nextCursor, !.seen = @ \o page.contents])
  /\ OnlyReads

-----------------------------------------------------------------------------
(* leaveConversation: leftAt is taken before the transaction; Redis is     *)
(* written before the commit.                                              *)

ReadLeaver(r) ==
  /\ Op(r) = "leave"
  /\ \/ /\ pc[r] = "idle"
        /\ \E i \in AnyOf(FindParticipant(db, Conv(r), User(r))) :
             IF i = None \/ (i # None /\ db.participants[i].leftAt # None)
               THEN Refuse(r, "idle") ELSE Step(r, "idle", "offline", [row |-> i, at |-> now])
        /\ UNCHANGED online
     \/ /\ Step(r, "offline", "leave", got[r])
        /\ online' = online \ {<<Conv(r), User(r)>>}
  /\ NoWrite /\ UNCHANGED <<now, emitted, queued>>

LeaveConversation(r) ==
  /\ pc[r] = "leave"
  /\ db' = [db EXCEPT !.participants[got[r].row].leftAt = got[r].at]
  /\ Step(r, "leave", "done", None)
  /\ OnlyTables

-----------------------------------------------------------------------------
(* checkSendMessagePermission: participant, post, seller, trade, one await *)
(* each.                                                                   *)

ReadSender(r) ==
  /\ Op(r) = "permission"
  /\ IF FindParticipant(db, Conv(r), User(r)) # {}
       THEN Step(r, "idle", "post", None) ELSE Refuse(r, "idle")
  /\ OnlyReads

Closed(post) == ~post.live \/ post.hidden \/ post.status = "COMPLETED"

\* Mutant: deleted posts are still open.
ReadWhetherClosed_Live(r) ==
  /\ pc[r] = "post"
  /\ LET post == db.posts[db.conversations[Conv(r)].post]
     IN Step(r, "post", "owner", [user |-> post.user,
             closed |-> post.hidden \/ post.status = "COMPLETED"])
  /\ OnlyReads

\* findByIdIncludingDeleted.
ReadWhetherClosed(r) ==
  /\ pc[r] = "post"
  /\ LET post == db.posts[db.conversations[Conv(r)].post]
     IN Step(r, "post", "owner", [user |-> post.user, closed |-> Closed(post)])
  /\ OnlyReads

CheckSendMessagePermission(r) ==
  /\ \/ /\ pc[r] = "owner"
        /\ IF FindById(db, got[r].user) THEN Step(r, "owner", "trade", got[r])
                                        ELSE Step(r, "owner", "done", FALSE)
     \/ /\ pc[r] = "trade"
        /\ \E i \in AnyOf(FindProgress(db, db.conversations[Conv(r)].post)) :
             Step(r, "trade", "done",
                  \/ ~got[r].closed
                  \/ got[r].user = User(r)
                  \/ i # None /\ db.progress[i].buyer = User(r))
  /\ OnlyReads

-----------------------------------------------------------------------------
(* sendMessage of a message without a request id.                          *)

Loaded(c) == {db.participants[i] : i \in {j \in LiveRows(db.participants) :
                                            db.participants[j].conv = c}}

\* loadParticipants reads the participants in Redis and, when there are none,
\* the rows, which it then stores there.  Here they are the rows at this await:
\* what holds of a message below holds of one that a sender saw the rows for.
\* How far Redis may be from the rows is the subject of ParticipantCache, where
\* EveryParticipantNotified fails: a reader whose member is being replaced is
\* not in the set and gets no event.
LoadParticipants(r) ==
  /\ Op(r) = "send"
  /\ LET rows == Loaded(Conv(r))
     IN IF \E row \in rows : row.user = User(r) /\ row.blocking
          THEN Refuse(r, "idle") ELSE Step(r, "idle", "save", [rows |-> rows])
  /\ OnlyReads

\* The row of the conversation is locked for the whole transaction.
SaveMessage(r) ==
  /\ pc[r] = "save" /\ Conv(r) \in ConversationIds
  /\ LET n == db.conversations[Conv(r)].last + 1
     IN /\ db' = [db EXCEPT
             !.messages = Append(@, [conv |-> Conv(r), number |-> n,
                                     sender |-> User(r), at |-> now, by |-> r]),
             !.conversations[Conv(r)].last = n,
             !.conversations[Conv(r)].sentAt = now]
        /\ Step(r, "save", "online", got[r])
  /\ OnlyTables

\* CONVERSATION_NOT_FOUND.
MissConversation(r) ==
  /\ pc[r] = "save" /\ Conv(r) \notin ConversationIds
  /\ Refuse(r, "save")
  /\ OnlyReads

OnlineIn(c) == {u \in UserIds : <<c, u>> \in online}

\* Mutant: the participants who were online before the message was stored.
Watching_Stale(r) == {row.user : row \in got[r].rows} \cap {User(r)}

Watching(r) == OnlineIn(Conv(r))

ReadOnlineUsers(r) ==
  /\ pc[r] = "online"
  /\ Step(r, "online", "devices",
          [rows |-> got[r].rows, online |-> Watching(r), push |-> {}])
  /\ OnlyReads

\* The sender of an online room hears of the message as well, ...
OnlineEmissions(r, rows) ==
  {[by |-> r, user |-> row.user, event |-> "newMessage"] :
     row \in {x \in rows : x.user = User(r) \/ ~x.blocking}}

\* ... elsewhere everybody but the sender does.
OfflineEmissions(r, rows) ==
  {[by |-> r, user |-> row.user, event |-> "chatRoomUpdated"] :
     row \in {x \in rows : x.user # User(r) /\ ~x.blocking}}

\* createEmissions: participant by participant.
Emissions(r, rows, watching) ==
  OnlineEmissions(r, {x \in rows : x.user \in watching})
    \cup OfflineEmissions(r, {x \in rows : x.user \notin watching})

\* Mutant: who muted the conversation is pushed as well.
Pushable_Muted(r, rows, watching) ==
  {row.user : row \in {x \in rows :
     x.user \notin watching /\ x.user # User(r) /\ ~x.blocking}}

Pushable(r, rows, watching) ==
  {row.user : row \in {x \in rows :
     x.user \notin watching /\ x.user # User(r) /\ ~x.blocking /\ ~x.muted}}

BuildPushMessages(r) ==
  /\ pc[r] = "devices"
  /\ Step(r, "devices", "sqs", [got[r] EXCEPT !.push =
       {u \in Pushable(r, got[r].rows, got[r].online) : db.users[u].devices}])
  /\ OnlyReads

\* One batch, and its failure is swallowed.
SendPushMessages(r) ==
  /\ pc[r] = "sqs"
  /\ \E accepted \in SUBSET got[r].push :
       queued' = queued \o [i \in 1 .. Cardinality(accepted) |->
                   [by |-> r, user |-> SetToSeq(accepted)[i]]]
  /\ Step(r, "sqs", "emit", got[r])
  /\ NoWrite /\ UNCHANGED <<now, online, emitted>>

\* The gateway emits to user_<id> what sendMessage has returned.
Emit(r) ==
  /\ pc[r] = "emit"
  /\ emitted' = emitted \cup Emissions(r, got[r].rows, got[r].online)
  /\ Step(r, "emit", "done", None)
  /\ NoWrite /\ UNCHANGED <<now, online, queued>>

ConversationsNext(r) ==
  \/ ReadTopic(r) \/ ReadSeller(r) \/ FindExistingConversation(r)
  \/ InsertConversation(r) \/ JoinRoom(r) \/ ReadConversation(r)
  \/ ReadReader(r) \/ ReadStatuses(r) \/ ReadMessages(r)
  \/ ReadLeaver(r) \/ LeaveConversation(r)
  \/ ReadSender(r) \/ ReadWhetherClosed(r) \/ CheckSendMessagePermission(r)
  \/ LoadParticipants(r) \/ SaveMessage(r) \/ MissConversation(r) \/ ReadOnlineUsers(r)
  \/ BuildPushMessages(r) \/ SendPushMessages(r) \/ Emit(r)

-----------------------------------------------------------------------------

\* A user is a participant of at most one conversation about somebody else's
\* post, unless two requests that create one met; and whoever asked for one
\* was answered with a conversation about that post that has them in it.
ConversationsUnique ==
  /\ \A c, e \in ConversationIds : \A u \in UserIds :
       /\ c < e /\ db.conversations[c].post = db.conversations[e].post
       /\ FindParticipant(db, c, u) # {} /\ FindParticipant(db, e, u) # {}
       /\ ~IsOwner(db, db.conversations[c].post, u)
       => \E q, r \in Req : /\ Op(q) = "createConversation" /\ User(q) = u
                            /\ Op(r) = "createConversation" /\ User(r) = u /\ Met(q, r)
  /\ \A r \in Req : Op(r) = "createConversation" /\ Done(r) =>
       /\ db.conversations[got[r]].post = Post(r)
       /\ \E i \in DOMAIN db.participants :
            db.participants[i].conv = got[r] /\ db.participants[i].user = User(r)

\* Paging back through the messages gives an unbroken run of numbers, newest
\* first, with none twice, which holds every message that was there at the
\* start and that the reader is entitled to, whatever is sent meanwhile.
MessagesComplete ==
  \A r \in Req : Op(r) \in {"messages", "enter"} /\ Done(r) =>
    LET seen == got[r].seen
    IN /\ \A i \in 1 .. Len(seen) - 1 : seen[i + 1] = seen[i] - 1
       /\ \A n \in Readable(Conv(r), got[r].leftAt) : n <= got[r].upTo => n \in ToSet(seen)

\* Joining the room before reading the messages misses nothing: each message
\* is among those read, or its newMessage comes over the socket (or will: the
\* sender is still at work, or has failed after storing it), unless the reader
\* has blocked the sender or left the room again.  The conversation was there
\* when the message was sent: who sends sooner has loaded nobody to tell.
JoinThenReadMissesNothing ==
  \A r \in Req : Op(r) = "enter" /\ Done(r) /\ got[r].leftAt = None =>
    \A m \in DOMAIN db.messages :
      LET q == db.messages[m].by
      IN /\ db.messages[m].conv = Conv(r) /\ q \in Req /\ Done(q)
         /\ \A l \in Req : Op(l) = "leave" => User(l) # User(r)
         /\ \A i \in FindParticipant(db, Conv(r), User(r)) : ~db.participants[i].blocking
         /\ FindParticipant(db, Conv(r), User(r)) # {}
         /\ db.conversations[Conv(r)].by \in past[q] \cup {0}
         => \/ db.messages[m].number \in ToSet(got[r].seen)
            \/ [by |-> q, user |-> User(r), event |-> "newMessage"] \in emitted

\* Of one message every participant gets one event at most; a push goes only,
\* and once, to somebody who was told of it as offline and has not muted the
\* conversation; and whoever takes part all the while gets an event, if the
\* conversation was there when the request came and the sender saw the rows, as
\* LoadParticipants assumes.
MessageReachesEveryone ==
  \A r \in Req : Op(r) = "send" /\ Done(r) =>
    LET told(u) == {e \in emitted : e.by = r /\ e.user = u}
    IN /\ \A u \in UserIds :
            /\ Cardinality(told(u)) <= 1
            /\ Cardinality(Pushes(r, u)) <= 1
            /\ Pushes(r, u) # {} =>
                 /\ told(u) = {[by |-> r, user |-> u, event |-> "chatRoomUpdated"]}
                 /\ \A i \in FindParticipant(db, Conv(r), u) : ~db.participants[i].muted
       /\ \A i \in LiveRows(db.participants) :
            /\ db.participants[i].conv = Conv(r)
            /\ ~db.participants[i].blocking /\ db.participants[i].user # User(r)
            /\ db.conversations[Conv(r)].by \in past[r] \cup {0}
            => told(db.participants[i].user) # {}

\* Every message arrives: by paging back, over the socket after joining, and,
\* with participants as in the rows, at every participant's as one event.
EveryMessageArrives ==
  /\ MessagesComplete
  /\ JoinThenReadMissesNothing
  /\ MessageReachesEveryone

\* Nobody but the seller and the buyer may write about a post that had been
\* hidden or deleted when they asked, as long as it stayed so.
ClosedPostsAreQuiet ==
  \A r \in Req : Op(r) = "permission" /\ Done(r) /\ got[r] =>
    LET p == db.conversations[Conv(r)].post
    IN /\ \E q \in past[r] : Done(q) /\ Op(q) \in {"hide", "delete"} /\ Post(q) = p
       /\ ~\E q \in Req : Op(q) = "unhide" /\ Post(q) = p
       => \/ IsOwner(db, p, User(r))
          \/ \E i \in FindProgress(db, p) : db.progress[i].buyer = User(r)

\* The API's words: only those who do not take part in a conversation are
\* refused its messages.
ParticipantsMayRead ==
  \A r \in Req : Op(r) = "messages" /\ pc[r] = "refused" =>
    FindParticipant(db, Conv(r), User(r)) = {}
=============================================================================
