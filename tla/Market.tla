------------------------------- MODULE Market --------------------------------
(***************************************************************************)
(* The requests about posts and conversations together: posts and likes,   *)
(* the lists, notifications, conversations and messages, interleaved await *)
(* by await over one database.  Only what they do to each other is here:   *)
(* Trade, SendMessage, ParticipantCache and Presence look closer at a part.*)
(***************************************************************************)
EXTENDS Conversations

CONSTANT FirstSecond   \* of the clock; StartDb is from before

MarketRequests ==
  CreateRequests \cup EditRequests \cup HideRequests \cup DeleteRequests
    \cup LikeRequests \cup DetailRequests \cup WithdrawRequests
    \cup ListRequests \cup SearchRequests \cup SalesRequests
    \cup UserListRequests \cup NotificationListRequests
    \cup UniversityRequests \cup ConversationListRequests
    \cup CategoryRequests \cup RangeRequests \cup ProductRequests
    \cup NotificationRequests \cup SettingsRequests \cup ConversationRequests
    \cup MessagesRequests \cup LeaveRequests \cup SendRequests

ASSUME MarketAssumption ==
  /\ Plans \subseteq Seq(MarketRequests)
  /\ MaxFailures \in Nat
  /\ Horizon \in Nat /\ FirstSecond \in Seconds
  /\ BatchSize \in Nat \ {0}
  /\ Universities \subseteq Nat   \* in the order of their names

ASSUME NoneAssumption ==
  None \notin Nat /\ None \notin Regions

\* A token names a user who has signed up; the row of a user stays for good.
ASSUME UsersAssumption ==
  \A p \in Plans : \A r \in DOMAIN p :
    p[r].op # "categories" => p[r].user \in DOMAIN StartDb.users

\* The rows from before the first request are such as requests leave that did
\* not meet.
ASSUME StartAssumption ==
  LET d == StartDb IN
  /\ d \in Tables(DOMAIN d.users, DOMAIN d.posts, DOMAIN d.conversations, {0})
  /\ \A p \in DOMAIN d.posts :
       /\ \A i, j \in Thumbnails(d, p) : i = j
       /\ \A i \in DOMAIN d.images : d.images[i].post = p /\ FindPost(d, p)
                                      => FindImages(d, p) # {}
       /\ ~FindPost(d, p) => FindImages(d, p) = {}
       /\ FindPost(d, p) => FindById(d, d.posts[p].user)
       /\ \A u \in DOMAIN d.users : \A i, j \in FindLike(d, p, u) : i = j
  /\ \A i, j \in LiveRows(d.participants) :
       LET c == d.participants[i].conv
           e == d.participants[j].conv
       IN /\ i # j /\ d.participants[i].user = d.participants[j].user
          /\ d.conversations[c].post = d.conversations[e].post
          => /\ c # e
             /\ IsOwner(d, d.conversations[c].post, d.participants[i].user)
  /\ \A i, j, k \in DOMAIN d.participants :
       /\ d.participants[i].conv = d.participants[j].conv
       /\ d.participants[j].conv = d.participants[k].conv
       => i = j \/ j = k \/ k = i
  /\ \A c \in DOMAIN d.conversations :
       d.conversations[c].sentAt \in 0 .. FirstSecond \cup {None}
  /\ \A m \in DOMAIN d.messages :
       LET c == d.messages[m].conv
       IN d.conversations[c].sentAt # None /\ d.messages[m].at <= d.conversations[c].sentAt
  /\ \A m \in DOMAIN d.messages :
       d.messages[m].number \in 1 .. d.conversations[d.messages[m].conv].last
  /\ \A c \in DOMAIN d.conversations : \A n \in 1 .. d.conversations[c].last :
       \E m \in DOMAIN d.messages : d.messages[m].conv = c /\ d.messages[m].number = n
  /\ \A k, m \in DOMAIN d.messages :
       /\ d.messages[k].conv = d.messages[m].conv
       /\ d.messages[k].number <= d.messages[m].number
       => d.messages[k].at <= d.messages[m].at

Init ==
  /\ RequestsInit
  /\ db = StartDb
  /\ now = FirstSecond
  /\ online = {}
  /\ emitted = {}
  /\ queued = << >>

\* A second passes, while someone leaves a conversation or sends a message.
Tick ==
  /\ now < Horizon
  /\ \E r \in Req : Op(r) \in {"leave", "send"} /\ ~Ended(r)
  /\ now' = now + 1
  /\ UNCHANGED <<requestVars, db, online, emitted, queued>>

Fail(r) == Abort(r) /\ UNCHANGED <<db, now, online, emitted, queued>>

Handle(r) ==
  FanoutNext(r) \/ PostsNext(r) \/ ListingNext(r) \/ ConversationsNext(r)

Next == (\E r \in Req : Handle(r) \/ Fail(r)) \/ Tick

Spec == Init /\ [][Next]_marketVars

TypeOK ==
  /\ db \in Tables(UserIds, PostIds, ConversationIds, Writers)
  /\ now \in FirstSecond .. Horizon
  /\ online \subseteq ConversationIds \X UserIds
  /\ emitted \subseteq [by: Req, user: UserIds, event: {"newMessage", "chatRoomUpdated"}]
  /\ queued \in Seq([by: Req, user: UserIds])
  /\ \A r \in Req : past[r] \subseteq {q \in Req : Ended(q)}

\* What the handlers check before they insert holds of the rows, but for
\* requests that met: one like per user and post, one conversation per user
\* and post, and unliking takes back whatever likes there are.
ChecksHold == LikesUnique /\ ConversationsUnique
=============================================================================
