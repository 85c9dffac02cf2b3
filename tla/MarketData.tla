----------------------------- MODULE MarketData -----------------------------
(***************************************************************************)
(* What the requests about posts, likes, conversations and notifications   *)
(* share: their tables, the seconds of the database's datetime columns,    *)
(* Redis' online rooms, and what leaves for the sockets and the push queue.*)
(***************************************************************************)
EXTENDS Requests, Pagination

CONSTANTS
  Regions, Universities, Words, Currencies, Categories,
  StartDb,    \* the tables before the first request
  Horizon,    \* bound: the last second of the clock
  BatchSize   \* SQS takes so many entries in a call: 10

VARIABLES
  db,        \* the tables, committed
  now,       \* the second new rows are stamped with
  online,    \* <<conversation, user>>: in the room's set of online users
  emitted,   \* socket events of a message: [by, user, event]
  queued     \* push messages in SQS: [by, user]

marketVars == <<requestVars, db, now, online, emitted, queued>>

UserIds == DOMAIN db.users
PostIds == DOMAIN db.posts
ConversationIds == DOMAIN db.conversations
Writers == Req \cup {0}   \* 0 wrote the rows of StartDb
Seconds == 0 .. Horizon

-----------------------------------------------------------------------------
(* The rows, of users in us, posts in ps and conversations in cs, inserted *)
(* by the requests in ws (field by, which is no column).                   *)

\* The primary interest region and the device tokens are other tables' rows.
UserRow == [primary: Regions \cup {None}, university: Universities \cup {None},
            priceOn: BOOLEAN, devices: BOOLEAN, live: BOOLEAN]

TradeStatus == {"FOR_SALE", "RESERVED", "COMPLETED"}

\* The words of the title stand for it.
PostRow(us, ws) ==
  [user: us, region: Regions, title: SUBSET Words, category: Categories,
   currency: Currencies, price: Nat, status: TradeStatus, hidden: BOOLEAN,
   at: Seconds, live: BOOLEAN, by: ws]

ImageRow(ps, ws) == [post: ps, thumb: BOOLEAN, live: BOOLEAN, by: ws]

\* The rows of likes are marked deleted (not live) or removed (not stored).
LikeRow(us, ps, ws) ==
  [user: us, post: ps, live: BOOLEAN, stored: BOOLEAN, by: ws]

ConversationRow(ps, ws) ==
  [post: ps, last: Nat, sentAt: Seconds \cup {None}, by: ws]

ParticipantRow(us, cs) ==
  [conv: cs, user: us, read: Nat, leftAt: Seconds \cup {None},
   blocking: BOOLEAN, muted: BOOLEAN, live: BOOLEAN]

MessageRow(us, cs, ws) ==
  [conv: cs, number: Nat, sender: us, at: Seconds, by: ws]

NotificationRow(us, ps, ws) ==
  [user: us, post: ps, about: {"LIKE", "CHAT"}, read: BOOLEAN, at: Seconds,
   live: BOOLEAN, by: ws]

ProgressRow(us, ps, cs) ==
  [post: ps, buyer: us, conv: cs, status: {"RESERVED", "COMPLETED"},
   at: Seconds, live: BOOLEAN]

Tables(us, ps, cs, ws) ==
  [users: Seq(UserRow), posts: Seq(PostRow(us, ws)),
   images: Seq(ImageRow(ps, ws)), likes: Seq(LikeRow(us, ps, ws)),
   conversations: Seq(ConversationRow(ps, ws)),
   participants: Seq(ParticipantRow(us, cs)),
   messages: Seq(MessageRow(us, cs, ws)),
   notifications: Seq(NotificationRow(us, ps, ws)),
   progress: Seq(ProgressRow(us, ps, cs)), blocks: SUBSET (us \X us)]

-----------------------------------------------------------------------------
(* The repositories' queries, on the tables d.                             *)

FindById(d, u) == u \in LiveRows(d.users)

FindPost(d, p) == p \in LiveRows(d.posts)

IsOwner(d, p, u) == d.posts[p].user = u

FindImages(d, p) == {i \in LiveRows(d.images) : d.images[i].post = p}

Thumbnails(d, p) == {i \in FindImages(d, p) : d.images[i].thumb}

\* No query of the likes asks whether they are marked deleted.
FindLikes(d, p) ==
  {i \in DOMAIN d.likes : d.likes[i].stored /\ d.likes[i].post = p}

FindLike(d, p, u) == {i \in FindLikes(d, p) : d.likes[i].user = u}

FindConversations(d, p) == {c \in DOMAIN d.conversations : d.conversations[c].post = p}

FindParticipant(d, c, u) ==
  {i \in LiveRows(d.participants) :
     d.participants[i].conv = c /\ d.participants[i].user = u}

\* A message came after the participant left: SQL's left_at < last_sent_at.
Reappeared(d, i) ==
  LET row == d.participants[i]
      sentAt == d.conversations[row.conv].sentAt
  IN row.leftAt # None /\ sentAt # None /\ row.leftAt < sentAt

\* Mutant: who has left does not come back.
ActiveParticipants_Stayed(d) ==
  {i \in LiveRows(d.participants) : d.participants[i].leftAt = None}

ActiveParticipants(d) ==
  {i \in LiveRows(d.participants) :
     d.participants[i].leftAt = None \/ Reappeared(d, i)}

FindProgress(d, p) ==
  {i \in LiveRows(d.progress) : d.progress[i].post = p}

FindBlocked(d, u) == {b[2] : b \in {c \in d.blocks : c[1] = u}}

User(r) == plan[r].user

NoWrite  == UNCHANGED db
NoEvents == UNCHANGED <<online, emitted, queued>>
=============================================================================
