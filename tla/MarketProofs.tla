---------------------------- MODULE MarketProofs ----------------------------
(***************************************************************************)
(* What the requests of Market keep, for any posts, users, plans, tables   *)
(* at the start and failures: the types of the rows and of what handlers   *)
(* carry, which rows a step writes, and which fields nothing writes; then  *)
(* likes, images, conversations, closed posts, the users a seller may      *)
(* choose and the answers about likes, each with its invariant.            *)
(***************************************************************************)
EXTENDS Market, RequestsProofs, FiniteSetTheorems, SequenceTheorems

Paging == {"messages", "enter"}

\* The steps a handler can be at, by its operation.
StageOps ==
  [notify |-> {"edit"}, push |-> {"edit"}, commit |-> {"edit"},
   read |-> {"readNotification"}, settings |-> {"settings"},
   create |-> {"create"}, edit |-> {"edit"}, hide |-> {"hide"},
   unhide |-> {"unhide"}, delete |-> {"delete"}, like |-> {"like"},
   images |-> {"detail"}, count |-> {"detail"}, own |-> {"detail"},
   withdraw |-> {"withdraw"},
   again |-> Lists \cup Paging, query |-> Lists,
   blocked |-> {"priceRange"}, prices |-> {"priceRange"},
   mine |-> {"tradable", "createConversation"},
   others |-> {"tradable"}, users |-> {"tradable"},
   progress |-> {"tradeProgress"}, buyer |-> {"tradeProgress"},
   seller |-> {"createConversation"}, existing |-> {"createConversation"},
   insert |-> {"createConversation"}, join |-> {"enter"}, joined |-> {"enter"},
   reader |-> Paging, statuses |-> Paging, messages |-> Paging,
   offline |-> {"leave"}, leave |-> {"leave"}, post |-> {"permission"},
   owner |-> {"permission"}, trade |-> {"permission"}, save |-> {"send"},
   online |-> {"send"}, devices |-> {"send"}, sqs |-> {"send"},
   emit |-> {"send"}]

StageInv ==
  \A r \in Req : /\ pc[r] \in DOMAIN StageOps \cup Ends \cup {"idle"}
                 /\ pc[r] \in DOMAIN StageOps => Op(r) \in StageOps[pc[r]]

-----------------------------------------------------------------------------

LEMMA RequestNumbers ==
  ASSUME plan \in Plans
  PROVE  /\ Len(plan) \in Nat /\ Req = 1 .. Len(plan)
         /\ Req \subseteq Nat /\ 0 \notin Req
BY MarketAssumption DEF Req

LEMMA RequestTypes ==
  ASSUME plan \in Plans, NEW r \in Req
  PROVE  /\ Op(r) = "create" =>
              /\ plan[r].title \in SUBSET Words /\ plan[r].category \in Categories
              /\ plan[r].currency \in Currencies /\ plan[r].price \in Nat
              /\ plan[r].images \in Nat
         /\ Op(r) = "edit" =>
              plan[r].price \in Nat \cup {None} /\ plan[r].images \in Nat
         /\ Op(r) = "settings" => plan[r].on \in BOOLEAN
         /\ Op(r) \in Lists => plan[r].size \in Nat \ {0}
         /\ Op(r) \in Paging => plan[r].size \in Nat \ {0}
         /\ Op(r) # "categories" => User(r) \in DOMAIN StartDb.users
<1>1. plan[r] \in MarketRequests
  BY MarketAssumption DEF Req
<1>2. Op(r) # "categories" => User(r) \in DOMAIN StartDb.users
  BY UsersAssumption DEF Req, Op, User
<1>3. QED
  BY <1>1, <1>2 DEF Op, MarketRequests, CreateRequests, EditRequests,
       HideRequests, DeleteRequests, LikeRequests, DetailRequests,
       WithdrawRequests, ListRequests, SearchRequests, SalesRequests,
       UserListRequests, NotificationListRequests, UniversityRequests,
       ConversationListRequests, CategoryRequests, RangeRequests,
       ProductRequests, NotificationRequests, SettingsRequests,
       ConversationRequests, MessagesRequests, LeaveRequests, SendRequests,
       Lists, OfPosts, Paging

-----------------------------------------------------------------------------
(* Every step of a handler is one of Requests, and stays on its path.      *)

\* The handler of r makes a step, to the end or on the path of its operation.
Advances(r) ==
  /\ Moves(r)
  /\ pc'[r] \in DOMAIN StageOps \cup Ends
  /\ pc'[r] \in DOMAIN StageOps => Op(r) \in StageOps[pc'[r]]

LEMMA StepAdvances ==
  ASSUME RequestInv, StageInv, NEW r \in Req, NEW from, NEW to, NEW v,
         Step(r, from, to, v),
         from \in DOMAIN StageOps \cup {"idle"},
         to \in DOMAIN StageOps \cup Ends,
         to \in DOMAIN StageOps =>
           \/ Op(r) \in StageOps[to]
           \/ from # "idle" /\ StageOps[from] \subseteq StageOps[to]
  PROVE  Advances(r)
<1>1. from \notin Ends /\ to # "idle"
  BY DEF Ends, StageOps
<1>2. Moves(r) /\ pc[r] = from /\ pc'[r] = to
  BY <1>1, StepMoves
<1>3. QED
  BY <1>2 DEF Advances, StageInv, Op

\* The steps of the lists.
LEMMA ProceedAdvances ==
  ASSUME RequestInv, StageInv, NEW r \in Req, NEW query, NEW page,
         Op(r) \in Lists, Proceed(r, query, page) \/ Turn(r, page)
  PROVE  Advances(r)
<1>1. ASSUME NEW next, Turn(r, next) PROVE Advances(r)
  BY <1>1, StepAdvances DEF Turn, StageOps, Ends
<1>2. ASSUME NEW next, Step(r, "query", "query", next) PROVE Advances(r)
  BY <1>2, StepAdvances DEF StageOps, Ends
<1>3. QED
  BY <1>1, <1>2 DEF Proceed

LEMMA HandleAdvances ==
  ASSUME RequestInv, StageInv, NEW r \in Req, Handle(r)
  PROVE  Advances(r)
<1>1. CASE NotifyProductPostUpdate(r)
  BY <1>1, StepAdvances
     DEF NotifyProductPostUpdate, Refuse, StageOps, Ends, Lists, Paging
<1>2. CASE SendMessageBatch(r)
  BY <1>2, StepAdvances
     DEF SendMessageBatch, Refuse, StageOps, Ends, Lists, Paging
<1>3. CASE FindNotification(r)
  BY <1>3, StepAdvances
     DEF FindNotification, Refuse, StageOps, Ends, Lists, Paging
<1>4. CASE MarkNotificationAsRead(r)
  BY <1>4, StepAdvances
     DEF MarkNotificationAsRead, Refuse, StageOps, Ends, Lists, Paging
<1>5. CASE DeleteNotifications(r)
  BY <1>5, StepAdvances
     DEF DeleteNotifications, Refuse, StageOps, Ends, Lists, Paging
<1>6. CASE ReadSettings(r)
  BY <1>6, StepAdvances
     DEF ReadSettings, Refuse, StageOps, Ends, Lists, Paging
<1>7. CASE UpdateSettings(r)
  BY <1>7, StepAdvances
     DEF UpdateSettings, Refuse, StageOps, Ends, Lists, Paging
<1>8. CASE ReadAuthor(r)
  BY <1>8, StepAdvances
     DEF ReadAuthor, Refuse, StageOps, Ends, Lists, Paging
<1>9. CASE InsertPost(r)
  BY <1>9, StepAdvances
     DEF InsertPost, Refuse, StageOps, Ends, Lists, Paging
<1>10. CASE ReadPost(r)
  BY <1>10, StepAdvances
     DEF ReadPost, Refuse, StageOps, Ends, Lists, Paging
<1>11. CASE FlushEdit(r)
  BY <1>11, StepAdvances
     DEF FlushEdit, Refuse, StageOps, Ends, Lists, Paging
<1>12. CASE CommitEdit(r)
  BY <1>12, StepAdvances
     DEF CommitEdit, Refuse, StageOps, Ends, Lists, Paging
<1>13. CASE ReadOwnPost(r)
  <2>1. CASE Op(r) = "hide"
    BY <1>13, <2>1, StepAdvances DEF ReadOwnPost, Refuse, StageOps, Ends
  <2>2. CASE Op(r) = "unhide"
    BY <1>13, <2>2, StepAdvances DEF ReadOwnPost, Refuse, StageOps, Ends
  <2>3. CASE Op(r) = "delete"
    BY <1>13, <2>3, StepAdvances DEF ReadOwnPost, Refuse, StageOps, Ends
  <2>4. QED
    BY <1>13, <2>1, <2>2, <2>3 DEF ReadOwnPost
<1>14. CASE HideProductPost(r)
  <2>1. Op(r) \in {"hide", "unhide"} /\ Step(r, Op(r), "done", None)
    BY <1>14 DEF HideProductPost, Step
  <2>2. QED
    BY <2>1, StepAdvances DEF StageOps, Ends
<1>15. CASE DeleteProductPost(r)
  BY <1>15, StepAdvances
     DEF DeleteProductPost, Refuse, StageOps, Ends, Lists, Paging
<1>16. CASE ReadLike(r)
  BY <1>16, StepAdvances
     DEF ReadLike, Refuse, StageOps, Ends, Lists, Paging
<1>17. CASE InsertLike(r)
  BY <1>17, StepAdvances
     DEF InsertLike, Refuse, StageOps, Ends, Lists, Paging
<1>18. CASE DeleteLike(r)
  BY <1>18, StepAdvances
     DEF DeleteLike, Refuse, StageOps, Ends, Lists, Paging
<1>19. CASE ReadDetail(r)
  BY <1>19, StepAdvances
     DEF ReadDetail, Refuse, StageOps, Ends, Lists, Paging
<1>20. CASE ReadRest(r)
  BY <1>20, StepAdvances
     DEF ReadRest, Refuse, StageOps, Ends, Lists, Paging
<1>21. CASE ReadWithdrawing(r)
  BY <1>21, StepAdvances
     DEF ReadWithdrawing, Refuse, StageOps, Ends, Lists, Paging
<1>22. CASE Withdraw(r)
  BY <1>22, StepAdvances
     DEF Withdraw, Refuse, StageOps, Ends, Lists, Paging
<1>23. CASE AskForPage(r)
  BY <1>23, StepAdvances
     DEF AskForPage, Refuse, StageOps, Ends, Lists, Paging
<1>24. CASE ReadFilter(r)
  <2>1. /\ Op(r) \in Lists
        /\ \E page : Step(r, "query", "done", page) \/ Proceed(r, "filter", page)
    BY <1>24 DEF ReadFilter, Awaits
  <2>2. QED
    BY <2>1, StepAdvances, ProceedAdvances DEF StageOps, Ends
<1>25. CASE ReadPage(r)
  BY <1>25, StepAdvances, ProceedAdvances
     DEF ReadPage, Awaits, StageOps, Ends
<1>26. CASE FindByIdsIncludingDeleted(r)
  BY <1>26, StepAdvances, ProceedAdvances
     DEF FindByIdsIncludingDeleted, Awaits, StageOps, Ends
<1>27. CASE CountLikes(r)
  BY <1>27, StepAdvances, ProceedAdvances
     DEF CountLikes, Awaits, StageOps, Ends
<1>28. CASE CountConversations(r)
  BY <1>28, StepAdvances, ProceedAdvances
     DEF CountConversations, Awaits, StageOps, Ends
<1>29. CASE FindLiked(r)
  BY <1>29, StepAdvances, ProceedAdvances
     DEF FindLiked, Awaits, StageOps, Ends
<1>30. CASE FindCategories(r)
  BY <1>30, StepAdvances
     DEF FindCategories, Refuse, StageOps, Ends, Lists, Paging
<1>31. CASE GetPriceRange(r)
  BY <1>31, StepAdvances
     DEF GetPriceRange, Refuse, StageOps, Ends, Lists, Paging
<1>32. CASE GetTradableUsers(r)
  BY <1>32, StepAdvances
     DEF GetTradableUsers, Refuse, StageOps, Ends, Lists, Paging
<1>33. CASE GetTradeProgress(r)
  BY <1>33, StepAdvances
     DEF GetTradeProgress, Refuse, StageOps, Ends, Lists, Paging
<1>34. CASE ReadTopic(r)
  BY <1>34, StepAdvances
     DEF ReadTopic, Refuse, StageOps, Ends, Lists, Paging
<1>35. CASE ReadSeller(r)
  BY <1>35, StepAdvances
     DEF ReadSeller, Refuse, StageOps, Ends, Lists, Paging
<1>36. CASE FindExistingConversation(r)
  BY <1>36, StepAdvances
     DEF FindExistingConversation, Refuse, StageOps, Ends, Lists, Paging
<1>37. CASE InsertConversation(r)
  BY <1>37, StepAdvances
     DEF InsertConversation, Refuse, StageOps, Ends, Lists, Paging
<1>38. CASE JoinRoom(r)
  BY <1>38, StepAdvances
     DEF JoinRoom, Refuse, StageOps, Ends, Lists, Paging
<1>39. CASE ReadConversation(r)
  BY <1>39, StepAdvances
     DEF ReadConversation, Refuse, StageOps, Ends, Lists, Paging
<1>40. CASE ReadReader(r)
  BY <1>40, StepAdvances
     DEF ReadReader, Refuse, StageOps, Ends, Lists, Paging
<1>41. CASE ReadStatuses(r)
  BY <1>41, StepAdvances
     DEF ReadStatuses, Refuse, StageOps, Ends, Lists, Paging
<1>42. CASE ReadMessages(r)
  BY <1>42, StepAdvances
     DEF ReadMessages, Refuse, StageOps, Ends, Lists, Paging
<1>43. CASE ReadLeaver(r)
  <2>1. /\ Op(r) = "leave"
        /\ \/ \E to \in {"refused", "offline"} : \E v : Step(r, "idle", to, v)
           \/ \E v : Step(r, "offline", "leave", v)
    BY <1>43 DEF ReadLeaver, Refuse
  <2>2. QED
    BY <2>1, StepAdvances DEF StageOps, Ends
<1>44. CASE LeaveConversation(r)
  BY <1>44, StepAdvances
     DEF LeaveConversation, Refuse, StageOps, Ends, Lists, Paging
<1>45. CASE ReadSender(r)
  BY <1>45, StepAdvances
     DEF ReadSender, Refuse, StageOps, Ends, Lists, Paging
<1>46. CASE ReadWhetherClosed(r)
  BY <1>46, StepAdvances
     DEF ReadWhetherClosed, Refuse, StageOps, Ends, Lists, Paging
<1>47. CASE CheckSendMessagePermission(r)
  <2>1. \/ \E v : Step(r, "owner", "trade", v)
        \/ \E from \in {"owner", "trade"} : \E v : Step(r, from, "done", v)
    BY <1>47 DEF CheckSendMessagePermission
  <2>2. QED
    BY <2>1, StepAdvances DEF StageOps, Ends
<1>48. CASE LoadParticipants(r)
  BY <1>48, StepAdvances
     DEF LoadParticipants, Refuse, StageOps, Ends, Lists, Paging
<1>49. CASE SaveMessage(r)
  BY <1>49, StepAdvances
     DEF SaveMessage, Refuse, StageOps, Ends, Lists, Paging
<1>50. CASE MissConversation(r)
  BY <1>50, StepAdvances
     DEF MissConversation, Refuse, StageOps, Ends, Lists, Paging
<1>51. CASE ReadOnlineUsers(r)
  BY <1>51, StepAdvances
     DEF ReadOnlineUsers, Refuse, StageOps, Ends, Lists, Paging
<1>52. CASE BuildPushMessages(r)
  BY <1>52, StepAdvances
     DEF BuildPushMessages, Refuse, StageOps, Ends, Lists, Paging
<1>53. CASE SendPushMessages(r)
  BY <1>53, StepAdvances
     DEF SendPushMessages, Refuse, StageOps, Ends, Lists, Paging
<1>54. CASE Emit(r)
  BY <1>54, StepAdvances
     DEF Emit, Refuse, StageOps, Ends, Lists, Paging
<1>55. QED
  BY <1>1, <1>2, <1>3, <1>4, <1>5, <1>6, <1>7, <1>8, <1>9, <1>10, <1>11, <1>12,
     <1>13, <1>14, <1>15, <1>16, <1>17, <1>18, <1>19, <1>20, <1>21, <1>22,
     <1>23, <1>24, <1>25, <1>26, <1>27, <1>28, <1>29, <1>30, <1>31, <1>32,
     <1>33, <1>34, <1>35, <1>36, <1>37, <1>38, <1>39, <1>40, <1>41, <1>42,
     <1>43, <1>44, <1>45, <1>46, <1>47, <1>48, <1>49, <1>50, <1>51, <1>52,
     <1>53, <1>54
     DEF Handle, FanoutNext, PostsNext, ListingNext, ConversationsNext

-----------------------------------------------------------------------------
(* The types of the tables, and of what the handlers carry.                *)

TableNames == {"users", "posts", "images", "likes", "conversations",
               "participants", "messages", "notifications", "progress", "blocks"}

UserIdsAtStart == DOMAIN StartDb.users

StoreInv ==
  /\ plan \in Plans
  /\ db \in Tables(UserIds, PostIds, ConversationIds, Writers)
  /\ UserIds = UserIdsAtStart
  /\ now \in FirstSecond .. Horizon
  /\ online \subseteq ConversationIds \X UserIds
  /\ emitted \subseteq
       [by: Req, user: UserIds, event: {"newMessage", "chatRoomUpdated"}]
  /\ queued \in Seq([by: Req, user: UserIds])

\* A handler carries what its next steps need: v at the step s.
GotOk(r, s, v) ==
  /\ s = "create" => v \in Regions
  /\ s \in {"edit", "notify", "push", "commit", "hide", "unhide", "delete"} =>
       Post(r) \in PostIds /\ IsOwner(db, Post(r), User(r))
  /\ s \in {"like", "images", "count", "own", "seller", "existing", "mine",
            "insert", "progress"} => Post(r) \in PostIds
  /\ s \in {"edit", "notify"} =>
       v \in [price: Nat, hidden: BOOLEAN,
              interested: [likers: SUBSET UserIds, enabled: SUBSET UserIds,
                           phones: SUBSET UserIds]]
  /\ s \in {"notify", "push", "commit"} => plan[r].price \in Nat
  /\ s \in {"push", "commit"} =>
       v \in [likers: SUBSET UserIds, targets: SUBSET UserIds, unsent: Seq(UserIds)]
  /\ s \in {"existing", "mine", "insert"} /\ Op(r) = "createConversation" =>
       ~IsOwner(db, Post(r), User(r))
  /\ s = "withdraw" => \A p \in v : p \in PostIds /\ IsOwner(db, p, User(r))
  /\ s \in {"offline", "leave"} => v \in [row: DOMAIN db.participants, at: Seconds]
  /\ s \in {"join", "joined", "reader", "statuses", "messages", "post", "owner",
            "trade", "online", "devices", "sqs", "emit"} =>
       Conv(r) \in ConversationIds
  /\ s \in {"owner", "trade"} => v \in [user: UserIds, closed: BOOLEAN]
  /\ s = "save" => v.rows \subseteq ParticipantRow(UserIds, ConversationIds)
  /\ s = "online" => v.rows \subseteq ParticipantRow(UserIds, ConversationIds)
  /\ s \in {"devices", "sqs", "emit"} =>
       v \in [rows: SUBSET ParticipantRow(UserIds, ConversationIds),
              online: SUBSET UserIds, push: SUBSET UserIds]

GotInv == \A r \in Req : GotOk(r, pc[r], got[r])

DataInv == RequestInv /\ StageInv /\ StoreInv /\ GotInv

-----------------------------------------------------------------------------

LEMMA SeqGrows ==
  ASSUME NEW A, NEW B, A \subseteq B, NEW s \in Seq(A)
  PROVE  s \in Seq(B)
<1>1. Len(s) \in Nat /\ s = [i \in 1 .. Len(s) |-> s[i]]
  OBVIOUS
<1>2. \A i \in 1 .. Len(s) : s[i] \in B
  OBVIOUS
<1>3. QED
  BY <1>1, <1>2, FunctionIsSeq

LEMMA TableTypes ==
  ASSUME NEW us, NEW ps, NEW cs, NEW ws, NEW D \in Tables(us, ps, cs, ws)
  PROVE  /\ DOMAIN D = TableNames
         /\ D.users \in Seq(UserRow)
         /\ D.posts \in Seq(PostRow(us, ws))
         /\ D.images \in Seq(ImageRow(ps, ws))
         /\ D.likes \in Seq(LikeRow(us, ps, ws))
         /\ D.conversations \in Seq(ConversationRow(ps, ws))
         /\ D.participants \in Seq(ParticipantRow(us, cs))
         /\ D.messages \in Seq(MessageRow(us, cs, ws))
         /\ D.notifications \in Seq(NotificationRow(us, ps, ws))
         /\ D.progress \in Seq(ProgressRow(us, ps, cs))
         /\ D.blocks \in SUBSET (us \X us)
BY DEF Tables, TableNames

LEMMA TypedTables ==
  ASSUME NEW us, NEW ps, NEW cs, NEW ws, NEW D,
         D = [t \in TableNames |-> D[t]],
         D.users \in Seq(UserRow),
         D.posts \in Seq(PostRow(us, ws)),
         D.images \in Seq(ImageRow(ps, ws)),
         D.likes \in Seq(LikeRow(us, ps, ws)),
         D.conversations \in Seq(ConversationRow(ps, ws)),
         D.participants \in Seq(ParticipantRow(us, cs)),
         D.messages \in Seq(MessageRow(us, cs, ws)),
         D.notifications \in Seq(NotificationRow(us, ps, ws)),
         D.progress \in Seq(ProgressRow(us, ps, cs)),
         D.blocks \in SUBSET (us \X us)
  PROVE  D \in Tables(us, ps, cs, ws)
BY DEF Tables, TableNames

LEMMA RowsGrow ==
  ASSUME NEW us, NEW ps, NEW cs, NEW ws,
         NEW qs, NEW es, ps \subseteq qs, cs \subseteq es
  PROVE  /\ ImageRow(ps, ws) \subseteq ImageRow(qs, ws)
         /\ LikeRow(us, ps, ws) \subseteq LikeRow(us, qs, ws)
         /\ ConversationRow(ps, ws) \subseteq ConversationRow(qs, ws)
         /\ ParticipantRow(us, cs) \subseteq ParticipantRow(us, es)
         /\ MessageRow(us, cs, ws) \subseteq MessageRow(us, es, ws)
         /\ NotificationRow(us, ps, ws) \subseteq NotificationRow(us, qs, ws)
         /\ ProgressRow(us, ps, cs) \subseteq ProgressRow(us, qs, es)
BY DEF ImageRow, LikeRow, ConversationRow, ParticipantRow, MessageRow,
       NotificationRow, ProgressRow

\* More posts and conversations leave the tables typed.
LEMMA TablesGrow ==
  ASSUME NEW us, NEW ps, NEW cs, NEW ws,
         NEW qs, NEW es, ps \subseteq qs, cs \subseteq es,
         NEW D \in Tables(us, ps, cs, ws)
  PROVE  D \in Tables(us, qs, es, ws)
BY RowsGrow, SeqGrows DEF Tables

-----------------------------------------------------------------------------
(* What each writer makes of the tables.                                   *)

\* All tables but those in S are as they were.
Others(S) ==
  /\ db' = [t \in TableNames |-> db'[t]]
  /\ \A t \in TableNames \ S : db'[t] = db[t]

NewPost(r) ==
  [user |-> User(r), region |-> got[r], title |-> plan[r].title,
   category |-> plan[r].category, currency |-> plan[r].currency,
   price |-> plan[r].price, status |-> "FOR_SALE", hidden |-> FALSE,
   at |-> now, live |-> TRUE, by |-> r]

NewLike(r) ==
  [user |-> User(r), post |-> Post(r), live |-> TRUE, stored |-> TRUE, by |-> r]

NewConversation(r) == [post |-> Post(r), last |-> 0, sentAt |-> None, by |-> r]

NewMessage(r, n) ==
  [conv |-> Conv(r), number |-> n, sender |-> User(r), at |-> now, by |-> r]

\* The images after an edit of r.
EditedImages(r) ==
  IF plan[r].images = 0 THEN db.images
  ELSE SoftDelete(db.images, FindImages(db, Post(r)))
         \o NewImages(r, Post(r), plan[r].images)

NewPrice(r) ==
  [db.posts EXCEPT ![Post(r)] = [db.posts[Post(r)] EXCEPT !["price"] = plan[r].price]]

LEMMA DbShape ==
  ASSUME StoreInv
  PROVE  DOMAIN db = TableNames /\ db = [t \in TableNames |-> db[t]]
<1>1. db \in Tables(UserIds, PostIds, ConversationIds, Writers)
  BY DEF StoreInv
<1>2. QED
  BY <1>1 DEF Tables, TableNames

LEMMA InsertPostEffect ==
  ASSUME StoreInv, NEW r \in Req, InsertPost(r)
  PROVE  /\ Others({"posts", "images"})
         /\ db'.posts = Append(db.posts, NewPost(r))
         /\ db'.images = db.images
              \o NewImages(r, Len(db.posts) + 1, plan[r].images)
<1>1. PICK row : row = NewPost(r)
  OBVIOUS
<1>2. PICK new : new = NewImages(r, Len(db.posts) + 1, plan[r].images)
  OBVIOUS
<1>3. db' = [db EXCEPT !["posts"] = Append(db.posts, row),
                       !["images"] = db.images \o new]
  BY <1>1, <1>2, DbShape DEF InsertPost, NewPost, TableNames
<1>4. QED
  BY <1>1, <1>2, <1>3, DbShape DEF Others, TableNames

\* The edit of D, whose images are those of the database.
LEMMA ImagedEffect ==
  ASSUME NEW r \in Req, NEW D, DOMAIN D = TableNames,
         D = [t \in TableNames |-> D[t]], D.images = db.images
  PROVE  Imaged(D, r) = [D EXCEPT !["images"] = EditedImages(r)]
<1>1. FindImages(D, Post(r)) = FindImages(db, Post(r))
  BY DEF FindImages
<1>2. PICK images : images = EditedImages(r)
  OBVIOUS
<1>3. CASE plan[r].images = 0
  BY <1>2, <1>3 DEF Imaged, EditedImages, TableNames
<1>4. CASE plan[r].images # 0
  BY <1>1, <1>2, <1>4 DEF Imaged, EditedImages, TableNames
<1>5. QED
  BY <1>3, <1>4

LEMMA FlushEditEffect ==
  ASSUME StoreInv, NEW r \in Req, FlushEdit(r)
  PROVE  \/ db' = db
         \/ /\ Others({"posts", "images"})
            /\ db'.images = EditedImages(r)
            /\ db'.posts = IF PriceChanges(r) THEN NewPrice(r) ELSE db.posts
<1>1. CASE PriceChanges(r) /\ ~got[r].hidden
  BY <1>1 DEF FlushEdit, NoWrite
<1>2. CASE ~(PriceChanges(r) /\ ~got[r].hidden)
  <2>1. PICK posts : posts = NewPrice(r)
    OBVIOUS
  <2>2. PICK images : images = EditedImages(r)
    OBVIOUS
  <2>3. PICK D : D = [db EXCEPT !["posts"] = posts]
    OBVIOUS
  <2>4. /\ DOMAIN D = TableNames /\ D = [t \in TableNames |-> D[t]]
        /\ D.images = db.images /\ D.posts = posts
        /\ \A t \in TableNames \ {"posts"} : D[t] = db[t]
    BY <2>3, DbShape DEF TableNames
  <2>5. db' = IF PriceChanges(r) THEN Imaged(D, r) ELSE Imaged(db, r)
    BY <1>2, <2>1, <2>3 DEF FlushEdit, NewPrice
  <2>6. CASE PriceChanges(r)
    <3>1. db' = [D EXCEPT !["images"] = images]
      BY <2>2, <2>4, <2>5, <2>6, ImagedEffect
    <3>2. QED
      BY <2>1, <2>2, <2>4, <2>6, <3>1 DEF Others, TableNames
  <2>7. CASE ~PriceChanges(r)
    <3>1. db' = [db EXCEPT !["images"] = images]
      BY <2>2, <2>5, <2>7, DbShape, ImagedEffect
    <3>2. QED
      BY <2>2, <2>7, <3>1, DbShape DEF Others, TableNames
  <2>8. QED
    BY <2>6, <2>7
<1>3. QED
  BY <1>1, <1>2

LEMMA CommitEditEffect ==
  ASSUME StoreInv, NEW r \in Req, CommitEdit(r)
  PROVE  /\ Others({"posts", "images", "notifications"})
         /\ db'.posts = NewPrice(r)
         /\ db'.images = EditedImages(r)
         /\ db'.notifications =
              db.notifications \o Notified(r, got[r].targets, got[r].likers)
<1>1. PICK posts : posts = NewPrice(r)
  OBVIOUS
<1>2. PICK images : images = EditedImages(r)
  OBVIOUS
<1>3. PICK new : new = Notified(r, got[r].targets, got[r].likers)
  OBVIOUS
<1>4. PICK D : D = [db EXCEPT !["posts"] = posts]
  OBVIOUS
<1>5. /\ DOMAIN D = TableNames /\ D = [t \in TableNames |-> D[t]]
      /\ D.images = db.images /\ D.posts = posts
      /\ \A t \in TableNames \ {"posts"} : D[t] = db[t]
  BY <1>4, DbShape DEF TableNames
<1>6. PICK edited : edited = Imaged(D, r)
  OBVIOUS
<1>7. edited = [D EXCEPT !["images"] = images]
  BY <1>2, <1>5, <1>6, ImagedEffect
<1>8. db' = [edited EXCEPT !["notifications"] = edited.notifications \o new]
  BY <1>1, <1>3, <1>4, <1>6 DEF CommitEdit, NewPrice
<1>9. /\ edited.notifications = db.notifications
      /\ edited.posts = posts /\ edited.images = images
      /\ edited = [t \in TableNames |-> edited[t]]
      /\ \A t \in TableNames \ {"posts", "images"} : edited[t] = db[t]
  BY <1>5, <1>7 DEF TableNames
<1>10. QED
  BY <1>1, <1>2, <1>3, <1>8, <1>9 DEF Others, TableNames

LEMMA HideEffect ==
  ASSUME StoreInv, NEW r \in Req, HideProductPost(r)
  PROVE  /\ Others({"posts"})
         /\ Op(r) \in {"hide", "unhide"}
         /\ db'.posts = [db.posts EXCEPT ![Post(r)] =
              [db.posts[Post(r)] EXCEPT !["hidden"] = (Op(r) = "hide")]]
<1>1. PICK posts : posts = [db.posts EXCEPT ![Post(r)] =
              [db.posts[Post(r)] EXCEPT !["hidden"] = (Op(r) = "hide")]]
  OBVIOUS
<1>2. db' = [db EXCEPT !["posts"] = posts]
  BY <1>1 DEF HideProductPost
<1>3. Op(r) \in {"hide", "unhide"}
  BY DEF HideProductPost, Step
<1>4. QED
  BY <1>1, <1>2, <1>3, DbShape DEF Others, TableNames

LEMMA DeletePostEffect ==
  ASSUME StoreInv, NEW r \in Req, DeleteProductPost(r)
  PROVE  /\ Others({"posts", "images"})
         /\ db'.posts = SoftDelete(db.posts, {Post(r)})
         /\ db'.images = SoftDelete(db.images, FindImages(db, Post(r)))
<1>1. PICK posts : posts = SoftDelete(db.posts, {Post(r)})
  OBVIOUS
<1>2. PICK images : images = SoftDelete(db.images, FindImages(db, Post(r)))
  OBVIOUS
<1>3. db' = [db EXCEPT !["images"] = images, !["posts"] = posts]
  BY <1>1, <1>2, DbShape DEF DeleteProductPost, TableNames
<1>4. QED
  BY <1>1, <1>2, <1>3, DbShape DEF Others, TableNames

LEMMA InsertLikeEffect ==
  ASSUME StoreInv, NEW r \in Req, InsertLike(r)
  PROVE  Others({"likes"}) /\ db'.likes = Append(db.likes, NewLike(r))
<1>1. PICK row : row = NewLike(r)
  OBVIOUS
<1>2. db' = [db EXCEPT !["likes"] = Append(db.likes, row)]
  BY <1>1 DEF InsertLike, NewLike
<1>3. QED
  BY <1>1, <1>2, DbShape DEF Others, TableNames

LEMMA DeleteLikeEffect ==
  ASSUME StoreInv, NEW r \in Req, DeleteLike(r)
  PROVE  /\ Others({"likes"})
         /\ db'.likes =
              Write(db.likes, FindLike(db, Post(r), User(r)), "stored", FALSE)
<1>1. PICK likes :
        likes = Write(db.likes, FindLike(db, Post(r), User(r)), "stored", FALSE)
  OBVIOUS
<1>2. db' = [db EXCEPT !["likes"] = likes]
  BY <1>1 DEF DeleteLike
<1>3. QED
  BY <1>1, <1>2, DbShape DEF Others, TableNames

\* The row of a user who leaves.
Left(row) ==
  [[[row EXCEPT !["live"] = FALSE] EXCEPT !["devices"] = FALSE]
     EXCEPT !["primary"] = None]

LEMMA WithdrawEffect ==
  ASSUME StoreInv, StageInv, NEW r \in Req, Withdraw(r)
  PROVE  /\ Others({"users", "posts", "images", "likes", "participants",
                    "notifications"})
         /\ db'.users = [db.users EXCEPT ![User(r)] = Left(db.users[User(r)])]
         /\ db'.posts = SoftDelete(db.posts, OwnedBy(db.posts, User(r)))
         /\ db'.images = SoftDelete(db.images,
              UNION {FindImages(db, p) : p \in got[r]})
         /\ db'.likes = SoftDelete(db.likes, OwnedBy(db.likes, User(r)))
         /\ db'.participants =
              SoftDelete(db.participants, OwnedBy(db.participants, User(r)))
         /\ db'.notifications =
              SoftDelete(db.notifications, OwnedBy(db.notifications, User(r)))
<1>1. User(r) \in DOMAIN db.users
  <2>1. pc[r] = "withdraw"
    BY DEF Withdraw
  <2>2. Op(r) = "withdraw"
    BY <2>1 DEF StageInv, StageOps
  <2>3. QED
    BY <2>2, RequestTypes DEF StoreInv, UserIds, UserIdsAtStart
<1>2. PICK u : u = User(r)
  OBVIOUS
<1>3. PICK images : images = SoftDelete(db.images, UNION {FindImages(db, p) : p \in got[r]})
  OBVIOUS
<1>4. PICK posts : posts = SoftDelete(db.posts, OwnedBy(db.posts, u))
  OBVIOUS
<1>5. PICK likes : likes = SoftDelete(db.likes, OwnedBy(db.likes, u))
  OBVIOUS
<1>6. PICK participants :
        participants = SoftDelete(db.participants, OwnedBy(db.participants, u))
  OBVIOUS
<1>7. PICK notifications :
        notifications = SoftDelete(db.notifications, OwnedBy(db.notifications, u))
  OBVIOUS
<1>8. PICK swept : swept = [db EXCEPT !["images"] = images, !["posts"] = posts,
        !["likes"] = likes, !["participants"] = participants,
        !["notifications"] = notifications]
  OBVIOUS
<1>9. /\ swept = [t \in TableNames |-> swept[t]]
      /\ swept.images = images /\ swept.posts = posts /\ swept.likes = likes
      /\ swept.participants = participants /\ swept.notifications = notifications
      /\ swept.users = db.users /\ swept.conversations = db.conversations
      /\ swept.messages = db.messages /\ swept.progress = db.progress
      /\ swept.blocks = db.blocks
  BY <1>8, DbShape DEF TableNames
<1>10. db' = [swept EXCEPT !.users[u].live = FALSE, !.users[u].devices = FALSE,
                           !.users[u].primary = None]
  BY <1>2, <1>3, <1>4, <1>5, <1>6, <1>7, <1>8, DbShape DEF Withdraw, TableNames
<1>11. PICK row : row = db.users[u]
  OBVIOUS
<1>12. PICK gone : gone = [db.users EXCEPT ![u] = Left(row)]
  OBVIOUS
<1>13. /\ db' = [t \in TableNames |-> db'[t]]
       /\ \A t \in TableNames \ {"users"} : db'[t] = swept[t]
       /\ db'.users = gone
  BY <1>1, <1>2, <1>9, <1>10, <1>11, <1>12 DEF TableNames, Left
<1>14. QED
  BY <1>2, <1>3, <1>4, <1>5, <1>6, <1>7, <1>9, <1>11, <1>12, <1>13
     DEF Others, TableNames

LEMMA NotificationsEffect ==
  ASSUME StoreInv, NEW r \in Req,
         MarkNotificationAsRead(r) \/ DeleteNotifications(r)
  PROVE  /\ Others({"notifications"})
         /\ \/ /\ MarkNotificationAsRead(r)
               /\ db'.notifications =
                    Write(db.notifications, {plan[r].id}, "read", TRUE)
            \/ /\ DeleteNotifications(r)
               /\ \E S : db'.notifications = SoftDelete(db.notifications, S)
<1>1. CASE MarkNotificationAsRead(r)
  <2>1. PICK rows : rows = Write(db.notifications, {plan[r].id}, "read", TRUE)
    OBVIOUS
  <2>2. db' = [db EXCEPT !["notifications"] = rows]
    BY <1>1, <2>1 DEF MarkNotificationAsRead
  <2>3. QED
    BY <1>1, <2>1, <2>2, DbShape DEF Others, TableNames
<1>2. CASE DeleteNotifications(r)
  <2>1. PICK S : S = IF Op(r) = "deleteAllNotifications" THEN Owned(User(r))
                     ELSE Owned(User(r)) \cap plan[r].ids
    OBVIOUS
  <2>2. PICK rows : rows = SoftDelete(db.notifications, S)
    OBVIOUS
  <2>3. db' = [db EXCEPT !["notifications"] = rows]
    BY <1>2, <2>1, <2>2 DEF DeleteNotifications
  <2>4. QED
    BY <1>2, <2>2, <2>3, DbShape DEF Others, TableNames
<1>3. QED
  BY <1>1, <1>2

LEMMA SettingsEffect ==
  ASSUME StoreInv, NEW r \in Req, UpdateSettings(r)
  PROVE  /\ Others({"users"})
         /\ db'.users = IF got[r] = plan[r].on THEN db.users
                        ELSE Write(db.users, {User(r)}, "priceOn", plan[r].on)
<1>1. PICK rows : rows = Write(db.users, {User(r)}, "priceOn", plan[r].on)
  OBVIOUS
<1>2. db' = IF got[r] = plan[r].on THEN db ELSE [db EXCEPT !["users"] = rows]
  BY <1>1 DEF UpdateSettings
<1>3. QED
  BY <1>1, <1>2, DbShape DEF Others, TableNames

LEMMA InsertConversationEffect ==
  ASSUME StoreInv, NEW r \in Req, InsertConversation(r)
  PROVE  /\ Others({"conversations", "participants"})
         /\ db'.conversations = Append(db.conversations, NewConversation(r))
         /\ db'.participants = db.participants
              \o <<NewParticipant(Len(db.conversations) + 1, User(r)),
                   NewParticipant(Len(db.conversations) + 1, db.posts[Post(r)].user)>>
<1>1. PICK row : row = NewConversation(r)
  OBVIOUS
<1>2. PICK new : new =
        <<NewParticipant(Len(db.conversations) + 1, User(r)),
          NewParticipant(Len(db.conversations) + 1, db.posts[Post(r)].user)>>
  OBVIOUS
<1>3. db' = [db EXCEPT !["conversations"] = Append(db.conversations, row),
                       !["participants"] = db.participants \o new]
  BY <1>1, <1>2, DbShape DEF InsertConversation, NewConversation, TableNames
<1>4. QED
  BY <1>1, <1>2, <1>3, DbShape DEF Others, TableNames

LEMMA LeaveEffect ==
  ASSUME StoreInv, NEW r \in Req, LeaveConversation(r)
  PROVE  /\ Others({"participants"})
         /\ db'.participants = [db.participants EXCEPT ![got[r].row] =
              [db.participants[got[r].row] EXCEPT !["leftAt"] = got[r].at]]
<1>1. PICK rows : rows = [db.participants EXCEPT ![got[r].row] =
              [db.participants[got[r].row] EXCEPT !["leftAt"] = got[r].at]]
  OBVIOUS
<1>2. db' = [db EXCEPT !["participants"] = rows]
  BY <1>1 DEF LeaveConversation
<1>3. QED
  BY <1>1, <1>2, DbShape DEF Others, TableNames

\* The row of a conversation after its n-th message.
Spoken(row, n) == [[row EXCEPT !["last"] = n] EXCEPT !["sentAt"] = now]

LEMMA SaveMessageEffect ==
  ASSUME StoreInv, NEW r \in Req, SaveMessage(r)
  PROVE  LET c == Conv(r)
             n == db.conversations[c].last + 1
         IN /\ c \in ConversationIds
            /\ Others({"messages", "conversations"})
            /\ db'.messages = Append(db.messages, NewMessage(r, n))
            /\ db'.conversations =
                 [db.conversations EXCEPT ![c] = Spoken(db.conversations[c], n)]
<1>1. PICK c : c = Conv(r)
  OBVIOUS
<1>2. PICK n : n = db.conversations[c].last + 1
  OBVIOUS
<1>3. c \in DOMAIN db.conversations
  BY <1>1 DEF SaveMessage, ConversationIds
<1>4. PICK row : row = NewMessage(r, n)
  OBVIOUS
<1>5. PICK said : said = [db EXCEPT !["messages"] = Append(db.messages, row)]
  OBVIOUS
<1>6. db' = [said EXCEPT !.conversations[c].last = n,
                         !.conversations[c].sentAt = now]
  BY <1>1, <1>2, <1>4, <1>5 DEF SaveMessage, NewMessage
<1>7. /\ said = [t \in TableNames |-> said[t]]
      /\ \A t \in TableNames \ {"messages"} : said[t] = db[t]
      /\ said.messages = Append(db.messages, row)
      /\ said.conversations = db.conversations
  BY <1>5, DbShape DEF TableNames
<1>8. PICK old : old = db.conversations[c]
  OBVIOUS
<1>9. PICK rooms : rooms = [db.conversations EXCEPT ![c] = Spoken(old, n)]
  OBVIOUS
<1>10. /\ db' = [t \in TableNames |-> db'[t]]
       /\ \A t \in TableNames \ {"conversations"} : db'[t] = said[t]
       /\ db'.conversations = rooms
  BY <1>3, <1>6, <1>7, <1>8, <1>9 DEF TableNames, Spoken
<1>11. QED
  BY <1>1, <1>2, <1>3, <1>4, <1>7, <1>8, <1>9, <1>10
     DEF Others, TableNames, ConversationIds

-----------------------------------------------------------------------------
(* Who writes the tables and Redis.                                        *)

Writing(r) ==
  \/ InsertPost(r) \/ FlushEdit(r) \/ CommitEdit(r) \/ HideProductPost(r)
  \/ DeleteProductPost(r) \/ InsertLike(r) \/ DeleteLike(r) \/ Withdraw(r)
  \/ MarkNotificationAsRead(r) \/ DeleteNotifications(r) \/ UpdateSettings(r)
  \/ InsertConversation(r) \/ LeaveConversation(r) \/ SaveMessage(r)

LEMMA HandleWrites ==
  ASSUME NEW r \in Req, Handle(r)
  PROVE  /\ now' = now
         /\ Writing(r) \/ UNCHANGED db
         /\ JoinRoom(r) \/ ReadLeaver(r) \/ UNCHANGED online
         /\ Emit(r) \/ UNCHANGED emitted
         /\ SendMessageBatch(r) \/ SendPushMessages(r) \/ UNCHANGED queued
<1>1. CASE NotifyProductPostUpdate(r)
  BY <1>1 DEF NotifyProductPostUpdate, OnlyReads, OnlyTables, NoWrite, NoEvents
<1>2. CASE SendMessageBatch(r)
  BY <1>2 DEF SendMessageBatch, OnlyReads, OnlyTables, NoWrite, NoEvents
<1>3. CASE FindNotification(r)
  BY <1>3 DEF FindNotification, OnlyReads, OnlyTables, NoWrite, NoEvents
<1>4. CASE MarkNotificationAsRead(r)
  BY <1>4 DEF MarkNotificationAsRead, OnlyReads, OnlyTables, NoWrite, NoEvents, Writing
<1>5. CASE DeleteNotifications(r)
  BY <1>5 DEF DeleteNotifications, OnlyReads, OnlyTables, NoWrite, NoEvents, Writing
<1>6. CASE ReadSettings(r)
  BY <1>6 DEF ReadSettings, OnlyReads, OnlyTables, NoWrite, NoEvents
<1>7. CASE UpdateSettings(r)
  BY <1>7 DEF UpdateSettings, OnlyReads, OnlyTables, NoWrite, NoEvents, Writing
<1>8. CASE ReadAuthor(r)
  BY <1>8 DEF ReadAuthor, OnlyReads, OnlyTables, NoWrite, NoEvents
<1>9. CASE InsertPost(r)
  BY <1>9 DEF InsertPost, OnlyReads, OnlyTables, NoWrite, NoEvents, Writing
<1>10. CASE ReadPost(r)
  BY <1>10 DEF ReadPost, OnlyReads, OnlyTables, NoWrite, NoEvents
<1>11. CASE FlushEdit(r)
  BY <1>11 DEF FlushEdit, OnlyReads, OnlyTables, NoWrite, NoEvents, Writing
<1>12. CASE CommitEdit(r)
  BY <1>12 DEF CommitEdit, OnlyReads, OnlyTables, NoWrite, NoEvents, Writing
<1>13. CASE ReadOwnPost(r)
  BY <1>13 DEF ReadOwnPost, OnlyReads, OnlyTables, NoWrite, NoEvents
<1>14. CASE HideProductPost(r)
  BY <1>14 DEF HideProductPost, OnlyReads, OnlyTables, NoWrite, NoEvents, Writing
<1>15. CASE DeleteProductPost(r)
  BY <1>15 DEF DeleteProductPost, OnlyReads, OnlyTables, NoWrite, NoEvents, Writing
<1>16. CASE ReadLike(r)
  BY <1>16 DEF ReadLike, OnlyReads, OnlyTables, NoWrite, NoEvents
<1>17. CASE InsertLike(r)
  BY <1>17 DEF InsertLike, OnlyReads, OnlyTables, NoWrite, NoEvents, Writing
<1>18. CASE DeleteLike(r)
  BY <1>18 DEF DeleteLike, OnlyReads, OnlyTables, NoWrite, NoEvents, Writing
<1>19. CASE ReadDetail(r)
  BY <1>19 DEF ReadDetail, OnlyReads, OnlyTables, NoWrite, NoEvents
<1>20. CASE ReadRest(r)
  BY <1>20 DEF ReadRest, OnlyReads, OnlyTables, NoWrite, NoEvents
<1>21. CASE ReadWithdrawing(r)
  BY <1>21 DEF ReadWithdrawing, OnlyReads, OnlyTables, NoWrite, NoEvents
<1>22. CASE Withdraw(r)
  BY <1>22 DEF Withdraw, OnlyReads, OnlyTables, NoWrite, NoEvents, Writing
<1>23. CASE AskForPage(r)
  BY <1>23 DEF AskForPage, OnlyReads, OnlyTables, NoWrite, NoEvents
<1>24. CASE ReadFilter(r)
  BY <1>24 DEF ReadFilter, OnlyReads, OnlyTables, NoWrite, NoEvents
<1>25. CASE ReadPage(r)
  BY <1>25 DEF ReadPage, OnlyReads, OnlyTables, NoWrite, NoEvents
<1>26. CASE FindByIdsIncludingDeleted(r)
  BY <1>26 DEF FindByIdsIncludingDeleted, OnlyReads, OnlyTables, NoWrite, NoEvents
<1>27. CASE CountLikes(r)
  BY <1>27 DEF CountLikes, OnlyReads, OnlyTables, NoWrite, NoEvents
<1>28. CASE CountConversations(r)
  BY <1>28 DEF CountConversations, OnlyReads, OnlyTables, NoWrite, NoEvents
<1>29. CASE FindLiked(r)
  BY <1>29 DEF FindLiked, OnlyReads, OnlyTables, NoWrite, NoEvents
<1>30. CASE FindCategories(r)
  BY <1>30 DEF FindCategories, OnlyReads, OnlyTables, NoWrite, NoEvents
<1>31. CASE GetPriceRange(r)
  BY <1>31 DEF GetPriceRange, OnlyReads, OnlyTables, NoWrite, NoEvents
<1>32. CASE GetTradableUsers(r)
  BY <1>32 DEF GetTradableUsers, OnlyReads, OnlyTables, NoWrite, NoEvents
<1>33. CASE GetTradeProgress(r)
  BY <1>33 DEF GetTradeProgress, OnlyReads, OnlyTables, NoWrite, NoEvents
<1>34. CASE ReadTopic(r)
  BY <1>34 DEF ReadTopic, OnlyReads, OnlyTables, NoWrite, NoEvents
<1>35. CASE ReadSeller(r)
  BY <1>35 DEF ReadSeller, OnlyReads, OnlyTables, NoWrite, NoEvents
<1>36. CASE FindExistingConversation(r)
  BY <1>36 DEF FindExistingConversation, OnlyReads, OnlyTables, NoWrite, NoEvents
<1>37. CASE InsertConversation(r)
  BY <1>37 DEF InsertConversation, OnlyReads, OnlyTables, NoWrite, NoEvents, Writing
<1>38. CASE JoinRoom(r)
  BY <1>38 DEF JoinRoom, OnlyReads, OnlyTables, NoWrite, NoEvents
<1>39. CASE ReadConversation(r)
  BY <1>39 DEF ReadConversation, OnlyReads, OnlyTables, NoWrite, NoEvents
<1>40. CASE ReadReader(r)
  BY <1>40 DEF ReadReader, OnlyReads, OnlyTables, NoWrite, NoEvents
<1>41. CASE ReadStatuses(r)
  BY <1>41 DEF ReadStatuses, OnlyReads, OnlyTables, NoWrite, NoEvents
<1>42. CASE ReadMessages(r)
  BY <1>42 DEF ReadMessages, OnlyReads, OnlyTables, NoWrite, NoEvents
<1>43. CASE ReadLeaver(r)
  BY <1>43 DEF ReadLeaver, OnlyReads, OnlyTables, NoWrite, NoEvents
<1>44. CASE LeaveConversation(r)
  BY <1>44 DEF LeaveConversation, OnlyReads, OnlyTables, NoWrite, NoEvents, Writing
<1>45. CASE ReadSender(r)
  BY <1>45 DEF ReadSender, OnlyReads, OnlyTables, NoWrite, NoEvents
<1>46. CASE ReadWhetherClosed(r)
  BY <1>46 DEF ReadWhetherClosed, OnlyReads, OnlyTables, NoWrite, NoEvents
<1>47. CASE CheckSendMessagePermission(r)
  BY <1>47 DEF CheckSendMessagePermission, OnlyReads, OnlyTables, NoWrite, NoEvents
<1>48. CASE LoadParticipants(r)
  BY <1>48 DEF LoadParticipants, OnlyReads, OnlyTables, NoWrite, NoEvents
<1>49. CASE SaveMessage(r)
  BY <1>49 DEF SaveMessage, OnlyReads, OnlyTables, NoWrite, NoEvents, Writing
<1>50. CASE MissConversation(r)
  BY <1>50 DEF MissConversation, OnlyReads, OnlyTables, NoWrite, NoEvents
<1>51. CASE ReadOnlineUsers(r)
  BY <1>51 DEF ReadOnlineUsers, OnlyReads, OnlyTables, NoWrite, NoEvents
<1>52. CASE BuildPushMessages(r)
  BY <1>52 DEF BuildPushMessages, OnlyReads, OnlyTables, NoWrite, NoEvents
<1>53. CASE SendPushMessages(r)
  BY <1>53 DEF SendPushMessages, OnlyReads, OnlyTables, NoWrite, NoEvents
<1>54. CASE Emit(r)
  BY <1>54 DEF Emit, OnlyReads, OnlyTables, NoWrite, NoEvents
<1>55. QED
  BY <1>1, <1>2, <1>3, <1>4, <1>5, <1>6, <1>7, <1>8, <1>9, <1>10, <1>11, <1>12,
     <1>13, <1>14, <1>15, <1>16, <1>17, <1>18, <1>19, <1>20, <1>21, <1>22,
     <1>23, <1>24, <1>25, <1>26, <1>27, <1>28, <1>29, <1>30, <1>31, <1>32,
     <1>33, <1>34, <1>35, <1>36, <1>37, <1>38, <1>39, <1>40, <1>41, <1>42,
     <1>43, <1>44, <1>45, <1>46, <1>47, <1>48, <1>49, <1>50, <1>51, <1>52,
     <1>53, <1>54
     DEF Handle, FanoutNext, PostsNext, ListingNext, ConversationsNext

-----------------------------------------------------------------------------
(* The writes leave tables of the same types.                              *)

LEMMA SetToSeqRange ==
  ASSUME NEW S, IsFiniteSet(S)
  PROVE  /\ Cardinality(S) \in Nat
         /\ SetToSeq(S) \in [1 .. Cardinality(S) -> S]
         /\ \A i, j \in 1 .. Cardinality(S) :
              SetToSeq(S)[i] = SetToSeq(S)[j] => i = j
         /\ \A x \in S : \E i \in 1 .. Cardinality(S) : SetToSeq(S)[i] = x
<1>1. Cardinality(S) \in Nat /\ ExistsBijection(1 .. Cardinality(S), S)
  BY FS_CardinalityType
<1>2. PICK f \in [1 .. Cardinality(S) -> S] : IsInjective(f)
  BY <1>1 DEF ExistsBijection, Bijection, Injection
<1>3. PICK g : g = SetToSeq(S)
  OBVIOUS
<1>4. g \in [1 .. Cardinality(S) -> S] /\ IsInjective(g)
  BY <1>2, <1>3 DEF SetToSeq
<1>5. \A i, j \in 1 .. Cardinality(S) : g[i] = g[j] => i = j
  BY <1>4 DEF IsInjective
<1>6. /\ IsFiniteSet(1 .. Cardinality(S))
      /\ Cardinality(1 .. Cardinality(S)) = Cardinality(S)
  BY <1>1, FS_Interval
<1>7. g \in Injection(1 .. Cardinality(S), S)
  BY <1>4 DEF Injection
<1>8. g \in Surjection(1 .. Cardinality(S), S)
  BY <1>6, <1>7, FS_Injection
<1>9. QED
  BY <1>1, <1>3, <1>4, <1>5, <1>8 DEF Surjection

LEMMA UsersFinite ==
  ASSUME StoreInv, NEW S, S \subseteq UserIds
  PROVE  IsFiniteSet(S)
<1>1. /\ db.users \in Seq(UserRow) /\ Len(db.users) \in Nat
      /\ UserIds = 1 .. Len(db.users)
  BY TableTypes DEF StoreInv, UserIds
<1>2. IsFiniteSet(UserIds)
  BY <1>1, FS_Interval
<1>3. QED
  BY <1>2, FS_Subset

LEMMA SoftDeleteType ==
  ASSUME NEW R, NEW table \in Seq(R), NEW S,
         \A row \in R : [row EXCEPT !["live"] = FALSE] \in R
  PROVE  SoftDelete(table, S) \in Seq(R)
<1>1. \A i \in DOMAIN table : [table[i] EXCEPT !["live"] = FALSE] \in R
  OBVIOUS
<1>2. QED
  BY <1>1, WriteType DEF SoftDelete

LEMMA DeletedRow ==
  ASSUME NEW us, NEW ps, NEW cs, NEW ws
  PROVE  /\ \A row \in PostRow(us, ws) :
              [row EXCEPT !["live"] = FALSE] \in PostRow(us, ws)
         /\ \A row \in ImageRow(ps, ws) :
              [row EXCEPT !["live"] = FALSE] \in ImageRow(ps, ws)
         /\ \A row \in LikeRow(us, ps, ws) :
              [row EXCEPT !["live"] = FALSE] \in LikeRow(us, ps, ws)
         /\ \A row \in ParticipantRow(us, cs) :
              [row EXCEPT !["live"] = FALSE] \in ParticipantRow(us, cs)
         /\ \A row \in NotificationRow(us, ps, ws) :
              [row EXCEPT !["live"] = FALSE] \in NotificationRow(us, ps, ws)
BY DEF PostRow, ImageRow, LikeRow, ParticipantRow, NotificationRow

LEMMA NewImagesType ==
  ASSUME NEW ps, NEW ws, NEW r \in ws, NEW p \in ps, NEW n \in Nat
  PROVE  NewImages(r, p, n) \in Seq(ImageRow(ps, ws)) /\ Len(NewImages(r, p, n)) = n
<1>1. PICK new : new = NewImages(r, p, n)
  OBVIOUS
<1>2. new = [i \in 1 .. n |-> new[i]]
  BY <1>1 DEF NewImages
<1>3. ASSUME NEW i \in 1 .. n PROVE new[i] \in ImageRow(ps, ws)
  <2>1. new[i] = [post |-> p, thumb |-> i = 1, live |-> TRUE, by |-> r]
    BY <1>1 DEF NewImages
  <2>2. (i = 1) \in BOOLEAN
    OBVIOUS
  <2>3. QED
    BY <2>1, <2>2 DEF ImageRow
<1>4. QED
  BY <1>1, <1>2, <1>3, FunctionIsSeq

LEMMA EditedImagesType ==
  ASSUME StoreInv, NEW r \in Req, Op(r) = "edit", Post(r) \in PostIds
  PROVE  EditedImages(r) \in Seq(ImageRow(PostIds, Writers))
<1>1. db.images \in Seq(ImageRow(PostIds, Writers)) /\ plan[r].images \in Nat
  BY TableTypes, RequestTypes DEF StoreInv
<1>2. r \in Writers
  BY DEF Writers
<1>3. /\ SoftDelete(db.images, FindImages(db, Post(r)))
           \in Seq(ImageRow(PostIds, Writers))
      /\ NewImages(r, Post(r), plan[r].images) \in Seq(ImageRow(PostIds, Writers))
  BY <1>1, <1>2, DeletedRow, SoftDeleteType, NewImagesType
<1>4. QED
  BY <1>1, <1>3 DEF EditedImages

LEMMA NotifiedType ==
  ASSUME StoreInv, NEW r \in Req, NEW targets, targets \subseteq UserIds,
         NEW likers, Post(r) \in PostIds, now \in Seconds
  PROVE  /\ Notified(r, targets, likers)
              \in Seq(NotificationRow(UserIds, PostIds, Writers))
         /\ Len(Notified(r, targets, likers)) = Cardinality(targets)
<1>1. PICK n : n = Cardinality(targets)
  OBVIOUS
<1>2. PICK s : s = SetToSeq(targets)
  OBVIOUS
<1>3. n \in Nat /\ s \in [1 .. n -> targets]
  BY <1>1, <1>2, UsersFinite, SetToSeqRange
<1>4. PICK new : new = Notified(r, targets, likers)
  OBVIOUS
<1>5. new = [i \in 1 .. n |->
        [user |-> s[i], post |-> Post(r),
         about |-> IF s[i] \in likers THEN "LIKE" ELSE "CHAT",
         read |-> FALSE, at |-> now, live |-> TRUE, by |-> r]]
  BY <1>1, <1>2, <1>4 DEF Notified, Post
<1>6. r \in Writers
  BY DEF Writers
<1>7. ASSUME NEW i \in 1 .. n
      PROVE  new[i] \in NotificationRow(UserIds, PostIds, Writers)
  BY <1>3, <1>5, <1>6 DEF NotificationRow
<1>8. QED
  BY <1>1, <1>3, <1>4, <1>5, <1>7, FunctionIsSeq

\* What a step does to the tables as a whole: no row goes.
Typed ==
  /\ db' \in Tables(UserIds, PostIds', ConversationIds', Writers)
  /\ UserIds' = UserIds
  /\ PostIds \subseteq PostIds' /\ ConversationIds \subseteq ConversationIds'
  /\ DOMAIN db.participants \subseteq DOMAIN db'.participants

LEMMA TypedPosts ==
  ASSUME StoreInv, StageInv, GotInv, NEW r \in Req,
         \/ InsertPost(r) \/ FlushEdit(r) \/ CommitEdit(r)
         \/ HideProductPost(r) \/ DeleteProductPost(r)
  PROVE  Typed
<1>1. /\ db \in Tables(UserIds, PostIds, ConversationIds, Writers)
      /\ r \in Writers /\ now \in Seconds
  BY MarketAssumption DEF StoreInv, Writers, Seconds
<1>2. /\ db.posts \in Seq(PostRow(UserIds, Writers)) /\ Len(db.posts) \in Nat
      /\ PostIds = 1 .. Len(db.posts)
      /\ db.images \in Seq(ImageRow(PostIds, Writers))
      /\ db.notifications \in Seq(NotificationRow(UserIds, PostIds, Writers))
  BY <1>1, TableTypes DEF PostIds
<1>3. ASSUME Others({"posts", "images", "notifications"}),
             db'.posts \in Seq(PostRow(UserIds, Writers)),
             Len(db.posts) <= Len(db'.posts),
             db'.images \in Seq(ImageRow(PostIds', Writers)),
             db'.notifications \in Seq(NotificationRow(UserIds, PostIds', Writers))
      PROVE  Typed
  <2>1. /\ PostIds \subseteq PostIds' /\ UserIds' = UserIds
        /\ ConversationIds' = ConversationIds
        /\ db'.participants = db.participants
    <3>1. \A t \in {"users", "conversations", "participants"} : db'[t] = db[t]
      BY <1>3 DEF Others, TableNames
    <3>2. /\ UserIds' = UserIds /\ ConversationIds' = ConversationIds
          /\ db'.participants = db.participants
      BY <3>1 DEF UserIds, ConversationIds
    <3>3. PostIds' = 1 .. Len(db'.posts) /\ Len(db'.posts) \in Nat
      BY <1>3 DEF PostIds
    <3>4. QED
      BY <1>2, <1>3, <3>2, <3>3
  <2>2. db \in Tables(UserIds, PostIds', ConversationIds', Writers)
    BY <1>1, <2>1, TablesGrow
  <2>3. db' \in Tables(UserIds, PostIds', ConversationIds', Writers)
    BY <1>3, <2>2 DEF Tables, Others, TableNames
  <2>4. QED
    BY <2>1, <2>3 DEF Typed
<1>4. CASE InsertPost(r)
  <2>1. pc[r] = "create"
    BY <1>4 DEF InsertPost
  <2>2. Op(r) = "create" /\ got[r] \in Regions
    BY <2>1 DEF StageInv, StageOps, GotInv, GotOk
  <2>3. NewPost(r) \in PostRow(UserIds, Writers)
    BY <1>1, <2>2, RequestTypes
       DEF NewPost, PostRow, TradeStatus, StoreInv, UserIds, UserIdsAtStart
  <2>4. /\ Others({"posts", "images"})
        /\ db'.posts = Append(db.posts, NewPost(r))
        /\ db'.images = db.images
              \o NewImages(r, Len(db.posts) + 1, plan[r].images)
    BY <1>4, InsertPostEffect
  <2>5. /\ db'.posts \in Seq(PostRow(UserIds, Writers))
        /\ Len(db'.posts) = Len(db.posts) + 1
        /\ Len(db.posts) + 1 \in PostIds'
    BY <1>2, <2>3, <2>4 DEF PostIds
  <2>6. PostIds \subseteq PostIds'
    BY <1>2, <2>5 DEF PostIds
  <2>7. /\ db.images \in Seq(ImageRow(PostIds', Writers))
        /\ db.notifications \in Seq(NotificationRow(UserIds, PostIds', Writers))
    <3>1. ConversationIds \subseteq ConversationIds
      OBVIOUS
    <3>2. /\ ImageRow(PostIds, Writers) \subseteq ImageRow(PostIds', Writers)
          /\ NotificationRow(UserIds, PostIds, Writers)
               \subseteq NotificationRow(UserIds, PostIds', Writers)
      BY <2>6, <3>1, RowsGrow
    <3>3. QED
      BY <1>2, <3>2, SeqGrows
  <2>8. NewImages(r, Len(db.posts) + 1, plan[r].images)
           \in Seq(ImageRow(PostIds', Writers))
    BY <1>1, <2>2, <2>5, RequestTypes, NewImagesType DEF StoreInv
  <2>9. db'.images \in Seq(ImageRow(PostIds', Writers))
    BY <2>4, <2>7, <2>8
  <2>10. Others({"posts", "images", "notifications"})
         /\ db'.notifications = db.notifications
    BY <2>4 DEF Others, TableNames
  <2>11. QED
    BY <1>2, <1>3, <2>5, <2>7, <2>9, <2>10
<1>5. ASSUME NEW p \in PostIds, plan[r].price \in Nat, p = Post(r)
      PROVE  NewPrice(r) \in Seq(PostRow(UserIds, Writers))
             /\ Len(NewPrice(r)) = Len(db.posts)
  <2>1. PICK row : row = [db.posts[p] EXCEPT !["price"] = plan[r].price]
    OBVIOUS
  <2>2. row \in PostRow(UserIds, Writers)
    <3>1. db.posts[p] \in PostRow(UserIds, Writers)
      BY <1>2, <1>5
    <3>2. QED
      BY <1>5, <2>1, <3>1 DEF PostRow
  <2>3. NewPrice(r) = [db.posts EXCEPT ![p] = row]
    BY <1>5, <2>1 DEF NewPrice
  <2>4. QED
    BY <1>2, <2>2, <2>3
<1>6. CASE FlushEdit(r) \/ CommitEdit(r)
  <2>1. pc[r] \in {"edit", "commit"}
    BY <1>6 DEF FlushEdit, CommitEdit
  <2>2. Op(r) = "edit" /\ Post(r) \in PostIds
    BY <2>1 DEF StageInv, StageOps, GotInv, GotOk
  <2>3. EditedImages(r) \in Seq(ImageRow(PostIds, Writers))
    BY <2>2, EditedImagesType
  <2>4. CASE FlushEdit(r)
    <3>1. CASE db' = db
      BY <1>1, <3>1 DEF Typed, PostIds, UserIds, ConversationIds
    <3>2. CASE /\ Others({"posts", "images"})
               /\ db'.images = EditedImages(r)
               /\ db'.posts = IF PriceChanges(r) THEN NewPrice(r) ELSE db.posts
      <4>1. PriceChanges(r) => plan[r].price \in Nat
        BY <2>2, RequestTypes DEF PriceChanges, StoreInv
      <4>2. /\ db'.posts \in Seq(PostRow(UserIds, Writers))
            /\ Len(db'.posts) = Len(db.posts)
        BY <1>2, <1>5, <2>2, <3>2, <4>1
      <4>3. PostIds' = PostIds
        BY <1>2, <4>2 DEF PostIds
      <4>4. /\ Others({"posts", "images", "notifications"})
            /\ db'.notifications = db.notifications
        BY <3>2 DEF Others, TableNames
      <4>5. QED
        BY <1>2, <1>3, <2>3, <3>2, <4>2, <4>3, <4>4
    <3>3. QED
      BY <2>4, <3>1, <3>2, FlushEditEffect
  <2>5. CASE CommitEdit(r)
    <3>1. /\ plan[r].price \in Nat /\ got[r].targets \subseteq UserIds
      BY <2>5 DEF CommitEdit, GotInv, GotOk
    <3>2. /\ db'.posts = NewPrice(r) /\ db'.images = EditedImages(r)
          /\ Others({"posts", "images", "notifications"})
          /\ db'.notifications =
               db.notifications \o Notified(r, got[r].targets, got[r].likers)
      BY <2>5, CommitEditEffect
    <3>3. db'.posts \in Seq(PostRow(UserIds, Writers))
          /\ Len(db'.posts) = Len(db.posts)
      BY <1>5, <2>2, <3>1, <3>2
    <3>4. PostIds' = PostIds
      BY <1>2, <3>3 DEF PostIds
    <3>5. Notified(r, got[r].targets, got[r].likers)
            \in Seq(NotificationRow(UserIds, PostIds, Writers))
      BY <1>1, <2>2, <3>1, NotifiedType
    <3>6. db'.notifications \in Seq(NotificationRow(UserIds, PostIds, Writers))
      BY <1>2, <3>2, <3>5
    <3>7. /\ Len(db.posts) <= Len(db'.posts)
          /\ db'.images \in Seq(ImageRow(PostIds', Writers))
          /\ db'.notifications \in Seq(NotificationRow(UserIds, PostIds', Writers))
      BY <1>2, <2>3, <3>2, <3>3, <3>4, <3>6
    <3>8. QED
      BY <1>3, <3>2, <3>3, <3>7
  <2>6. QED
    BY <1>6, <2>4, <2>5
<1>7. CASE HideProductPost(r)
  <2>1. PICK b : b = (Op(r) = "hide")
    OBVIOUS
  <2>2. PICK row : row = [db.posts[Post(r)] EXCEPT !["hidden"] = b]
    OBVIOUS
  <2>3. pc[r] \in {"hide", "unhide"}
    BY <1>7 DEF HideProductPost
  <2>4. Post(r) \in PostIds
    BY <2>3 DEF GotInv, GotOk
  <2>5. b \in BOOLEAN
    BY <2>1
  <2>6. row \in PostRow(UserIds, Writers)
    <3>1. db.posts[Post(r)] \in PostRow(UserIds, Writers)
      BY <1>2, <2>4
    <3>2. QED
      BY <2>2, <2>5, <3>1 DEF PostRow
  <2>7. Others({"posts"}) /\ db'.posts = [db.posts EXCEPT ![Post(r)] = row]
    BY <1>7, <2>1, <2>2, HideEffect
  <2>8. db'.posts \in Seq(PostRow(UserIds, Writers)) /\ Len(db'.posts) = Len(db.posts)
    BY <1>2, <2>4, <2>6, <2>7
  <2>9. /\ PostIds' = PostIds
        /\ Others({"posts", "images", "notifications"})
        /\ db'.images = db.images /\ db'.notifications = db.notifications
    BY <1>2, <2>7, <2>8 DEF PostIds, Others, TableNames
  <2>10. QED
    BY <1>2, <1>3, <2>8, <2>9
<1>8. CASE DeleteProductPost(r)
  <2>1. /\ Others({"posts", "images"})
        /\ db'.posts = SoftDelete(db.posts, {Post(r)})
        /\ db'.images = SoftDelete(db.images, FindImages(db, Post(r)))
    BY <1>8, DeletePostEffect
  <2>2. /\ db'.posts \in Seq(PostRow(UserIds, Writers))
        /\ db'.images \in Seq(ImageRow(PostIds, Writers))
    BY <1>2, <2>1, DeletedRow, SoftDeleteType
  <2>3. DOMAIN db'.posts = DOMAIN db.posts
    BY <2>1 DEF SoftDelete, Write
  <2>4. /\ PostIds' = PostIds /\ Len(db'.posts) = Len(db.posts)
        /\ Others({"posts", "images", "notifications"})
        /\ db'.notifications = db.notifications
    <3>1. /\ Others({"posts", "images", "notifications"})
          /\ db'.notifications = db.notifications
      BY <2>1 DEF Others, TableNames
    <3>2. PostIds' = PostIds
      BY <2>3 DEF PostIds
    <3>3. Len(db'.posts) = Len(db.posts)
      BY <1>2, <2>2, <2>3
    <3>4. QED
      BY <3>1, <3>2, <3>3
  <2>5. QED
    BY <1>2, <1>3, <2>2, <2>4
<1>9. QED
  BY <1>4, <1>6, <1>7, <1>8

LEMMA TypedLikes ==
  ASSUME StoreInv, StageInv, GotInv, NEW r \in Req, InsertLike(r) \/ DeleteLike(r)
  PROVE  Typed
<1>1. /\ db \in Tables(UserIds, PostIds, ConversationIds, Writers)
      /\ r \in Writers
  BY DEF StoreInv, Writers
<1>2. PICK Row : Row = LikeRow(UserIds, PostIds, Writers)
  OBVIOUS
<1>3. db.likes \in Seq(Row)
  BY <1>1, <1>2, TableTypes
<1>4. Others({"likes"}) /\ db'.likes \in Seq(Row)
  <2>1. CASE InsertLike(r)
    <3>1. pc[r] = "like"
      BY <2>1 DEF InsertLike, Step
    <3>2. Op(r) = "like" /\ Post(r) \in PostIds
      BY <3>1 DEF StageInv, StageOps, GotInv, GotOk
    <3>3. NewLike(r) \in Row
      BY <1>1, <1>2, <3>2, RequestTypes
         DEF NewLike, LikeRow, StoreInv, UserIds, UserIdsAtStart
    <3>4. PICK new : new = NewLike(r)
      OBVIOUS
    <3>5. Others({"likes"}) /\ db'.likes = Append(db.likes, new)
      BY <2>1, <3>4, InsertLikeEffect
    <3>6. QED
      BY <1>3, <3>3, <3>4, <3>5
  <2>2. CASE DeleteLike(r)
    <3>1. \A row \in Row : [row EXCEPT !["stored"] = FALSE] \in Row
      BY <1>2 DEF LikeRow
    <3>2. \A i \in DOMAIN db.likes : [db.likes[i] EXCEPT !["stored"] = FALSE] \in Row
      BY <1>3, <3>1
    <3>3. QED
      BY <1>3, <2>2, <3>2, WriteType, DeleteLikeEffect
  <2>3. QED
    BY <2>1, <2>2
<1>5. QED
  BY <1>1, <1>2, <1>4 DEF Typed, Tables, Others, TableNames, UserIds, PostIds,
     ConversationIds

LEMMA TypedUsers ==
  ASSUME StoreInv, StageInv, NEW r \in Req, Withdraw(r) \/ UpdateSettings(r)
  PROVE  Typed
<1>1. db \in Tables(UserIds, PostIds, ConversationIds, Writers)
  BY DEF StoreInv
<1>2. db.users \in Seq(UserRow) /\ UserIds = 1 .. Len(db.users)
  BY <1>1, TableTypes DEF UserIds
<1>3. CASE Withdraw(r)
  <2>1. pc[r] = "withdraw"
    BY <1>3 DEF Withdraw
  <2>2. Op(r) = "withdraw"
    BY <2>1 DEF StageInv, StageOps
  <2>3. User(r) \in UserIds
    BY <2>2, RequestTypes DEF StoreInv, UserIdsAtStart
  <2>4. db.users[User(r)] \in UserRow
    BY <1>2, <2>3
  <2>5. PICK row : row = Left(db.users[User(r)])
    OBVIOUS
  <2>6. row \in UserRow
    BY <2>4, <2>5 DEF Left, UserRow
  <2>7. [db.users EXCEPT ![User(r)] = row] \in Seq(UserRow)
    BY <1>2, <2>3, <2>6
  <2>8. /\ SoftDelete(db.posts, OwnedBy(db.posts, User(r)))
             \in Seq(PostRow(UserIds, Writers))
        /\ SoftDelete(db.images, UNION {FindImages(db, p) : p \in got[r]})
             \in Seq(ImageRow(PostIds, Writers))
        /\ SoftDelete(db.likes, OwnedBy(db.likes, User(r)))
             \in Seq(LikeRow(UserIds, PostIds, Writers))
        /\ SoftDelete(db.participants, OwnedBy(db.participants, User(r)))
             \in Seq(ParticipantRow(UserIds, ConversationIds))
        /\ SoftDelete(db.notifications, OwnedBy(db.notifications, User(r)))
             \in Seq(NotificationRow(UserIds, PostIds, Writers))
    BY <1>1, TableTypes, DeletedRow, SoftDeleteType
  <2>9. db' \in Tables(UserIds, PostIds, ConversationIds, Writers)
    BY <1>1, <1>3, <2>5, <2>7, <2>8, WithdrawEffect DEF Tables, Others, TableNames
  <2>10. /\ DOMAIN db'.users = DOMAIN db.users
         /\ DOMAIN db'.posts = DOMAIN db.posts
         /\ DOMAIN db'.participants = DOMAIN db.participants
         /\ db'.conversations = db.conversations
    BY <1>3, WithdrawEffect DEF SoftDelete, Write, Others, TableNames
  <2>11. QED
    BY <2>9, <2>10 DEF Typed, UserIds, PostIds, ConversationIds
<1>4. CASE UpdateSettings(r)
  <2>1. pc[r] = "settings"
    BY <1>4 DEF UpdateSettings
  <2>2. plan[r].on \in BOOLEAN
    BY <2>1, RequestTypes DEF StageInv, StageOps, StoreInv
  <2>3. \A i \in DOMAIN db.users : [db.users[i] EXCEPT !["priceOn"] = plan[r].on] \in UserRow
    <3>1. \A row \in UserRow : [row EXCEPT !["priceOn"] = plan[r].on] \in UserRow
      BY <2>2 DEF UserRow
    <3>2. QED
      BY <1>2, <3>1
  <2>4. /\ Write(db.users, {User(r)}, "priceOn", plan[r].on) \in Seq(UserRow)
        /\ DOMAIN Write(db.users, {User(r)}, "priceOn", plan[r].on) = DOMAIN db.users
    <3>1. Write(db.users, {User(r)}, "priceOn", plan[r].on) \in Seq(UserRow)
      BY <1>2, <2>3, WriteType
    <3>2. QED
      BY <3>1 DEF Write
  <2>5. /\ db'.users \in Seq(UserRow) /\ Others({"users"})
        /\ DOMAIN db'.users = DOMAIN db.users
    BY <1>2, <1>4, <2>4, SettingsEffect
  <2>6. QED
    BY <1>1, <2>5 DEF Typed, Tables, Others, TableNames, UserIds, PostIds,
       ConversationIds
<1>5. QED
  BY <1>3, <1>4

LEMMA TypedNotifications ==
  ASSUME StoreInv, NEW r \in Req,
         MarkNotificationAsRead(r) \/ DeleteNotifications(r)
  PROVE  Typed
<1>1. db \in Tables(UserIds, PostIds, ConversationIds, Writers)
  BY DEF StoreInv
<1>2. PICK Row : Row = NotificationRow(UserIds, PostIds, Writers)
  OBVIOUS
<1>3. db.notifications \in Seq(Row)
  BY <1>1, <1>2, TableTypes
<1>4. ASSUME NEW S PROVE SoftDelete(db.notifications, S) \in Seq(Row)
  BY <1>2, <1>3, DeletedRow, SoftDeleteType
<1>5. Write(db.notifications, {plan[r].id}, "read", TRUE) \in Seq(Row)
  <2>1. \A row \in Row : [row EXCEPT !["read"] = TRUE] \in Row
    BY <1>2 DEF NotificationRow
  <2>2. \A i \in DOMAIN db.notifications :
          [db.notifications[i] EXCEPT !["read"] = TRUE] \in Row
    BY <1>3, <2>1
  <2>3. QED
    BY <1>3, <2>2, WriteType
<1>6. Others({"notifications"}) /\ db'.notifications \in Seq(Row)
  BY <1>4, <1>5, NotificationsEffect
<1>7. QED
  BY <1>1, <1>2, <1>6 DEF Typed, Tables, Others, TableNames, UserIds, PostIds,
     ConversationIds

LEMMA TypedConversations ==
  ASSUME StoreInv, StageInv, GotInv, NEW r \in Req,
         InsertConversation(r) \/ LeaveConversation(r) \/ SaveMessage(r)
  PROVE  Typed
<1>1. /\ db \in Tables(UserIds, PostIds, ConversationIds, Writers)
      /\ r \in Writers /\ now \in Seconds
  BY MarketAssumption DEF StoreInv, Writers, Seconds
<1>2. /\ db.posts \in Seq(PostRow(UserIds, Writers)) /\ PostIds = 1 .. Len(db.posts)
      /\ db.conversations \in Seq(ConversationRow(PostIds, Writers))
      /\ Len(db.conversations) \in Nat
      /\ ConversationIds = 1 .. Len(db.conversations)
      /\ db.participants \in Seq(ParticipantRow(UserIds, ConversationIds))
      /\ db.messages \in Seq(MessageRow(UserIds, ConversationIds, Writers))
  BY <1>1, TableTypes DEF PostIds, ConversationIds
<1>3. CASE InsertConversation(r)
  <2>1. pc[r] = "insert"
    BY <1>3 DEF InsertConversation
  <2>2. Op(r) = "createConversation" /\ Post(r) \in PostIds
    BY <2>1 DEF StageInv, StageOps, GotInv, GotOk
  <2>3. User(r) \in UserIds
    BY <2>2, RequestTypes DEF StoreInv, UserIdsAtStart
  <2>4. db.posts[Post(r)] \in PostRow(UserIds, Writers)
    BY <1>2, <2>2
  <2>5. PICK c : c = Len(db.conversations) + 1
    OBVIOUS
  <2>6. PICK owner : owner = db.posts[Post(r)].user
    OBVIOUS
  <2>7. owner \in UserIds
    BY <2>4, <2>6 DEF PostRow
  <2>8. /\ Others({"conversations", "participants"})
        /\ db'.conversations = Append(db.conversations, NewConversation(r))
        /\ db'.participants = db.participants
             \o <<NewParticipant(c, User(r)), NewParticipant(c, owner)>>
    BY <1>3, <2>5, <2>6, InsertConversationEffect
  <2>9. NewConversation(r) \in ConversationRow(PostIds, Writers)
    BY <1>1, <2>2 DEF NewConversation, ConversationRow
  <2>10. /\ db'.conversations \in Seq(ConversationRow(PostIds, Writers))
         /\ Len(db'.conversations) = Len(db.conversations) + 1
    BY <1>2, <2>8, <2>9
  <2>11. ConversationIds \subseteq ConversationIds' /\ c \in ConversationIds'
    BY <1>2, <2>5, <2>10 DEF ConversationIds
  <2>12. /\ db.participants \in Seq(ParticipantRow(UserIds, ConversationIds'))
         /\ db.messages \in Seq(MessageRow(UserIds, ConversationIds', Writers))
    <3>1. /\ ParticipantRow(UserIds, ConversationIds)
               \subseteq ParticipantRow(UserIds, ConversationIds')
          /\ MessageRow(UserIds, ConversationIds, Writers)
               \subseteq MessageRow(UserIds, ConversationIds', Writers)
      BY <2>11 DEF ParticipantRow, MessageRow
    <3>2. QED
      BY <1>2, <3>1, SeqGrows
  <2>13. \A u \in UserIds :
           NewParticipant(c, u) \in ParticipantRow(UserIds, ConversationIds')
    BY <2>11 DEF NewParticipant, ParticipantRow
  <2>14. PICK a, b : a = NewParticipant(c, User(r)) /\ b = NewParticipant(c, owner)
    OBVIOUS
  <2>15. <<a, b>> \in Seq(ParticipantRow(UserIds, ConversationIds'))
    BY <2>3, <2>7, <2>13, <2>14
  <2>16. /\ db'.participants \in Seq(ParticipantRow(UserIds, ConversationIds'))
         /\ DOMAIN db.participants \subseteq DOMAIN db'.participants
    <3>1. PICK new : new = <<a, b>>
      OBVIOUS
    <3>2. PICK old : old = db.participants
      OBVIOUS
    <3>3. /\ new \in Seq(ParticipantRow(UserIds, ConversationIds'))
          /\ old \in Seq(ParticipantRow(UserIds, ConversationIds'))
          /\ db'.participants = old \o new
      BY <2>8, <2>12, <2>14, <2>15, <3>1, <3>2
    <3>4. Len(new) \in Nat /\ Len(old) \in Nat
      BY <3>3
    <3>5. QED
      BY <3>2, <3>3, <3>4
  <2>17. db \in Tables(UserIds, PostIds, ConversationIds', Writers)
    BY <1>1, <2>11, TablesGrow
  <2>18. db' \in Tables(UserIds, PostIds, ConversationIds', Writers)
    BY <2>8, <2>10, <2>16, <2>17 DEF Tables, Others, TableNames
  <2>19. UserIds' = UserIds /\ PostIds' = PostIds
    BY <2>8 DEF Others, TableNames, UserIds, PostIds
  <2>20. QED
    BY <2>11, <2>16, <2>18, <2>19 DEF Typed
<1>4. CASE LeaveConversation(r)
  <2>1. pc[r] = "leave"
    BY <1>4 DEF LeaveConversation
  <2>2. got[r].row \in DOMAIN db.participants /\ got[r].at \in Seconds
    BY <2>1 DEF GotInv, GotOk
  <2>3. PICK row :
          row = [db.participants[got[r].row] EXCEPT !["leftAt"] = got[r].at]
    OBVIOUS
  <2>4. db.participants[got[r].row] \in ParticipantRow(UserIds, ConversationIds)
    BY <1>2, <2>2
  <2>5. row \in ParticipantRow(UserIds, ConversationIds)
    BY <2>2, <2>3, <2>4 DEF ParticipantRow
  <2>6. /\ Others({"participants"})
        /\ db'.participants = [db.participants EXCEPT ![got[r].row] = row]
    BY <1>4, <2>3, LeaveEffect
  <2>7. /\ db'.participants \in Seq(ParticipantRow(UserIds, ConversationIds))
        /\ DOMAIN db'.participants = DOMAIN db.participants
    BY <1>2, <2>2, <2>5, <2>6
  <2>8. QED
    BY <1>1, <2>6, <2>7 DEF Typed, Tables, Others, TableNames, UserIds, PostIds,
       ConversationIds
<1>5. CASE SaveMessage(r)
  <2>1. PICK c : c = Conv(r)
    OBVIOUS
  <2>2. PICK n : n = db.conversations[c].last + 1
    OBVIOUS
  <2>3. /\ c \in ConversationIds
        /\ Others({"messages", "conversations"})
        /\ db'.messages = Append(db.messages, NewMessage(r, n))
        /\ db'.conversations =
             [db.conversations EXCEPT ![c] = Spoken(db.conversations[c], n)]
    BY <1>5, <2>1, <2>2, SaveMessageEffect
  <2>4. db.conversations[c] \in ConversationRow(PostIds, Writers)
    BY <1>2, <2>3
  <2>5. n \in Nat
    BY <2>2, <2>4 DEF ConversationRow
  <2>6. PICK row : row = Spoken(db.conversations[c], n)
    OBVIOUS
  <2>7. row \in ConversationRow(PostIds, Writers)
    BY <1>1, <2>4, <2>5, <2>6 DEF Spoken, ConversationRow
  <2>8. pc[r] = "save"
    BY <1>5 DEF SaveMessage
  <2>9. Op(r) = "send"
    BY <2>8 DEF StageInv, StageOps
  <2>10. NewMessage(r, n) \in MessageRow(UserIds, ConversationIds, Writers)
    BY <1>1, <2>1, <2>3, <2>5, <2>9, RequestTypes
       DEF NewMessage, MessageRow, StoreInv, UserIdsAtStart
  <2>11. db'.messages \in Seq(MessageRow(UserIds, ConversationIds, Writers))
    BY <1>2, <2>3, <2>10
  <2>12. /\ db'.conversations \in Seq(ConversationRow(PostIds, Writers))
         /\ DOMAIN db'.conversations = DOMAIN db.conversations
    BY <1>2, <2>3, <2>6, <2>7
  <2>13. QED
    BY <1>1, <2>3, <2>11, <2>12 DEF Typed, Tables, Others, TableNames, UserIds,
       PostIds, ConversationIds
<1>6. QED
  BY <1>3, <1>4, <1>5

LEMMA HandleTyped ==
  ASSUME StoreInv, StageInv, GotInv, NEW r \in Req, Handle(r)
  PROVE  Typed
<1>1. CASE UNCHANGED db
  BY <1>1 DEF Typed, StoreInv, UserIds, PostIds, ConversationIds
<1>2. QED
  BY <1>1, HandleWrites, TypedPosts, TypedLikes, TypedUsers, TypedNotifications,
     TypedConversations DEF Writing

-----------------------------------------------------------------------------
(* Which writers a table has.                                              *)

LEMMA TableWriters ==
  ASSUME DataInv, NEW r \in Req, Handle(r)
  PROVE  /\ Withdraw(r) \/ UpdateSettings(r) \/ db'.users = db.users
         /\ \/ InsertPost(r) \/ FlushEdit(r) \/ CommitEdit(r)
            \/ HideProductPost(r) \/ DeleteProductPost(r) \/ Withdraw(r)
            \/ db'.posts = db.posts
         /\ \/ InsertPost(r) \/ FlushEdit(r) \/ CommitEdit(r)
            \/ DeleteProductPost(r) \/ Withdraw(r) \/ db'.images = db.images
         /\ \/ InsertLike(r) \/ DeleteLike(r) \/ Withdraw(r)
            \/ db'.likes = db.likes
         /\ \/ InsertConversation(r) \/ SaveMessage(r)
            \/ db'.conversations = db.conversations
         /\ \/ InsertConversation(r) \/ LeaveConversation(r) \/ Withdraw(r)
            \/ db'.participants = db.participants
         /\ SaveMessage(r) \/ db'.messages = db.messages
         /\ \/ CommitEdit(r) \/ MarkNotificationAsRead(r) \/ DeleteNotifications(r)
            \/ Withdraw(r) \/ db'.notifications = db.notifications
         /\ db'.progress = db.progress /\ db'.blocks = db.blocks
<1>1. StoreInv /\ StageInv
  BY DEF DataInv
<1>2. CASE InsertPost(r)
  BY <1>1, <1>2, InsertPostEffect DEF Others, TableNames
<1>3. CASE FlushEdit(r)
  BY <1>1, <1>3, FlushEditEffect DEF Others, TableNames
<1>4. CASE CommitEdit(r)
  BY <1>1, <1>4, CommitEditEffect DEF Others, TableNames
<1>5. CASE HideProductPost(r)
  BY <1>1, <1>5, HideEffect DEF Others, TableNames
<1>6. CASE DeleteProductPost(r)
  BY <1>1, <1>6, DeletePostEffect DEF Others, TableNames
<1>7. CASE InsertLike(r)
  BY <1>1, <1>7, InsertLikeEffect DEF Others, TableNames
<1>8. CASE DeleteLike(r)
  BY <1>1, <1>8, DeleteLikeEffect DEF Others, TableNames
<1>9. CASE Withdraw(r)
  BY <1>1, <1>9, WithdrawEffect DEF Others, TableNames
<1>10. CASE MarkNotificationAsRead(r) \/ DeleteNotifications(r)
  BY <1>1, <1>10, NotificationsEffect DEF Others, TableNames
<1>11. CASE UpdateSettings(r)
  BY <1>1, <1>11, SettingsEffect DEF Others, TableNames
<1>12. CASE InsertConversation(r)
  BY <1>1, <1>12, InsertConversationEffect DEF Others, TableNames
<1>13. CASE LeaveConversation(r)
  BY <1>1, <1>13, LeaveEffect DEF Others, TableNames
<1>14. CASE SaveMessage(r)
  BY <1>1, <1>14, SaveMessageEffect DEF Others, TableNames
<1>15. CASE UNCHANGED db
  BY <1>15
<1>16. QED
  BY <1>2, <1>3, <1>4, <1>5, <1>6, <1>7, <1>8, <1>9, <1>10, <1>11, <1>12,
     <1>13, <1>14, <1>15, HandleWrites DEF Writing

\* The rows are of their types.
LEMMA RowTypes ==
  ASSUME DataInv
  PROVE  /\ db.users \in Seq(UserRow) /\ \A u \in UserIds : db.users[u] \in UserRow
         /\ db.posts \in Seq(PostRow(UserIds, Writers))
         /\ \A p \in PostIds : db.posts[p] \in PostRow(UserIds, Writers)
         /\ db.images \in Seq(ImageRow(PostIds, Writers))
         /\ \A i \in DOMAIN db.images : db.images[i] \in ImageRow(PostIds, Writers)
         /\ db.likes \in Seq(LikeRow(UserIds, PostIds, Writers))
         /\ \A i \in DOMAIN db.likes :
              db.likes[i] \in LikeRow(UserIds, PostIds, Writers)
         /\ db.conversations \in Seq(ConversationRow(PostIds, Writers))
         /\ \A c \in ConversationIds :
              db.conversations[c] \in ConversationRow(PostIds, Writers)
         /\ db.participants \in Seq(ParticipantRow(UserIds, ConversationIds))
         /\ \A i \in DOMAIN db.participants :
              db.participants[i] \in ParticipantRow(UserIds, ConversationIds)
         /\ db.messages \in Seq(MessageRow(UserIds, ConversationIds, Writers))
         /\ \A m \in DOMAIN db.messages :
              db.messages[m] \in MessageRow(UserIds, ConversationIds, Writers)
         /\ db.notifications \in Seq(NotificationRow(UserIds, PostIds, Writers))
         /\ \A i \in DOMAIN db.notifications :
              db.notifications[i] \in NotificationRow(UserIds, PostIds, Writers)
         /\ db.progress \in Seq(ProgressRow(UserIds, PostIds, ConversationIds))
         /\ \A i \in DOMAIN db.progress :
              db.progress[i] \in ProgressRow(UserIds, PostIds, ConversationIds)
<1>1. db \in Tables(UserIds, PostIds, ConversationIds, Writers)
  BY DEF DataInv, StoreInv
<1>2. ASSUME NEW R, NEW s \in Seq(R) PROVE \A i \in DOMAIN s : s[i] \in R
  OBVIOUS
<1>3. QED
  BY <1>1, <1>2, TableTypes DEF UserIds, PostIds, ConversationIds

\* The rows of a sequence and of what is appended to it.
LEMMA Concatenation ==
  ASSUME NEW R, NEW s \in Seq(R), NEW Q, NEW t \in Seq(Q)
  PROVE  /\ Len(s) \in Nat /\ Len(t) \in Nat
         /\ DOMAIN s = 1 .. Len(s)
         /\ DOMAIN (s \o t) = 1 .. Len(s) + Len(t)
         /\ \A i \in DOMAIN s : i \in DOMAIN (s \o t) /\ (s \o t)[i] = s[i]
         /\ \A i \in DOMAIN (s \o t) : i \notin DOMAIN s =>
              i - Len(s) \in 1 .. Len(t) /\ (s \o t)[i] = t[i - Len(s)]
OBVIOUS

LEMMA AppendRows ==
  ASSUME NEW R, NEW s \in Seq(R), NEW x
  PROVE  /\ Len(s) \in Nat /\ DOMAIN s = 1 .. Len(s)
         /\ DOMAIN Append(s, x) = 1 .. Len(s) + 1
         /\ \A i \in DOMAIN s : i # Len(s) + 1 /\ Append(s, x)[i] = s[i]
         /\ Append(s, x)[Len(s) + 1] = x
         /\ \A i \in DOMAIN Append(s, x) : i \in DOMAIN s \/ i = Len(s) + 1
OBVIOUS

-----------------------------------------------------------------------------
(* What a step leaves of the rows, table by table.                         *)

LEMMA UsersKept ==
  ASSUME DataInv, NEW r \in Req, Handle(r)
  PROVE  /\ UserIds' = UserIds
         /\ \A u \in UserIds :
              /\ db'.users[u].live => db.users[u].live
              /\ db.users[u].live /\ ~db'.users[u].live => Withdraw(r) /\ u = User(r)
              /\ \/ db'.users[u].priceOn = db.users[u].priceOn
                 \/ /\ UpdateSettings(r) /\ u = User(r)
                    /\ db'.users[u].priceOn = plan[r].on
<1>1. StoreInv /\ StageInv /\ GotInv
  BY DEF DataInv
<1>2. UserIds' = UserIds
  BY <1>1, HandleTyped DEF Typed
<1>3. ASSUME NEW u \in UserIds
      PROVE  /\ db'.users[u].live => db.users[u].live
             /\ db.users[u].live /\ ~db'.users[u].live => Withdraw(r) /\ u = User(r)
             /\ \/ db'.users[u].priceOn = db.users[u].priceOn
                \/ /\ UpdateSettings(r) /\ u = User(r)
                   /\ db'.users[u].priceOn = plan[r].on
  <2>1. db.users[u] \in UserRow /\ u \in DOMAIN db.users
    BY RowTypes DEF UserIds
  <2>2. CASE Withdraw(r)
    <3>1. db'.users[u] = IF u = User(r) THEN Left(db.users[u]) ELSE db.users[u]
      BY <1>1, <2>1, <2>2, WithdrawEffect
    <3>2. /\ ~Left(db.users[u]).live
          /\ Left(db.users[u]).priceOn = db.users[u].priceOn
      BY <2>1 DEF Left, UserRow
    <3>3. QED
      BY <2>2, <3>1, <3>2
  <2>3. CASE UpdateSettings(r)
    <3>1. PICK rows : rows = Write(db.users, {User(r)}, "priceOn", plan[r].on)
      OBVIOUS
    <3>2. /\ rows[u].live = db.users[u].live
          /\ rows[u].priceOn = IF u = User(r) THEN plan[r].on ELSE db.users[u].priceOn
      BY <2>1, <3>1 DEF Write, UserRow
    <3>3. QED
      BY <1>1, <2>3, <3>1, <3>2, SettingsEffect
  <2>4. QED
    BY <2>2, <2>3, TableWriters
<1>4. QED
  BY <1>2, <1>3

\* A price is no field of a post that anything here is said about.
LEMMA PostsKept ==
  ASSUME DataInv, NEW r \in Req, Handle(r)
  PROVE  /\ PostIds \subseteq PostIds'
         /\ \A p \in PostIds :
              /\ db'.posts[p].user = db.posts[p].user
              /\ db'.posts[p].status = db.posts[p].status
              /\ db'.posts[p].by = db.posts[p].by
              /\ db'.posts[p].live => db.posts[p].live
              /\ db.posts[p].live /\ ~db'.posts[p].live =>
                   \/ DeleteProductPost(r) /\ p = Post(r)
                   \/ Withdraw(r) /\ db.posts[p].user = User(r)
              /\ \/ db'.posts[p].hidden = db.posts[p].hidden
                 \/ /\ HideProductPost(r) /\ p = Post(r)
                    /\ db'.posts[p].hidden = (Op(r) = "hide")
         /\ \A p \in PostIds' : p \notin PostIds =>
              /\ InsertPost(r) /\ p = Len(db.posts) + 1
              /\ db'.posts[p] = NewPost(r)
<1>1. StoreInv /\ StageInv /\ GotInv
  BY DEF DataInv
<1>2. PostIds \subseteq PostIds'
  BY <1>1, HandleTyped DEF Typed
<1>3. ASSUME NEW p \in PostIds
      PROVE  /\ db'.posts[p].user = db.posts[p].user
             /\ db'.posts[p].status = db.posts[p].status
             /\ db'.posts[p].by = db.posts[p].by
             /\ db'.posts[p].live => db.posts[p].live
             /\ db.posts[p].live /\ ~db'.posts[p].live =>
                  \/ DeleteProductPost(r) /\ p = Post(r)
                  \/ Withdraw(r) /\ db.posts[p].user = User(r)
             /\ \/ db'.posts[p].hidden = db.posts[p].hidden
                \/ /\ HideProductPost(r) /\ p = Post(r)
                   /\ db'.posts[p].hidden = (Op(r) = "hide")
  <2>1. PICK old : old = db.posts[p]
    OBVIOUS
  <2>2. /\ db.posts \in Seq(PostRow(UserIds, Writers)) /\ p \in DOMAIN db.posts
        /\ old \in PostRow(UserIds, Writers)
    BY <2>1, RowTypes DEF PostIds
  <2>3. CASE InsertPost(r)
    <3>1. db'.posts = Append(db.posts, NewPost(r))
      BY <1>1, <2>3, InsertPostEffect
    <3>2. db'.posts[p] = old
      BY <2>1, <2>2, <3>1, AppendRows
    <3>3. QED
      BY <2>1, <3>2
  <2>4. CASE FlushEdit(r) \/ CommitEdit(r)
    <3>1. db'.posts = db.posts \/ db'.posts = NewPrice(r)
      BY <1>1, <2>4, FlushEditEffect, CommitEditEffect
    <3>2. PICK new : new = [db.posts[Post(r)] EXCEPT !["price"] = plan[r].price]
      OBVIOUS
    <3>3. p = Post(r) => /\ new.user = old.user /\ new.status = old.status
                         /\ new.by = old.by /\ new.live = old.live
                         /\ new.hidden = old.hidden
      BY <2>1, <2>2, <3>2 DEF PostRow
    <3>4. NewPrice(r)[p] = IF p = Post(r) THEN new ELSE old
      BY <2>1, <2>2, <3>2 DEF NewPrice
    <3>5. QED
      BY <2>1, <3>1, <3>3, <3>4
  <2>5. CASE HideProductPost(r)
    <3>1. PICK b : b = (Op(r) = "hide")
      OBVIOUS
    <3>2. PICK new : new = [db.posts[Post(r)] EXCEPT !["hidden"] = b]
      OBVIOUS
    <3>3. p = Post(r) => /\ new.user = old.user /\ new.status = old.status
                         /\ new.by = old.by /\ new.live = old.live
                         /\ new.hidden = b
      BY <2>1, <2>2, <3>2 DEF PostRow
    <3>4. db'.posts[p] = IF p = Post(r) THEN new ELSE old
      BY <1>1, <2>1, <2>2, <2>5, <3>1, <3>2, HideEffect
    <3>5. QED
      BY <2>1, <2>5, <3>1, <3>3, <3>4
  <2>6. ASSUME NEW S, db'.posts = SoftDelete(db.posts, S)
        PROVE  /\ db'.posts[p].user = old.user /\ db'.posts[p].status = old.status
               /\ db'.posts[p].by = old.by /\ db'.posts[p].hidden = old.hidden
               /\ db'.posts[p].live => old.live
               /\ old.live /\ ~db'.posts[p].live => p \in S
    BY <2>1, <2>2, <2>6 DEF SoftDelete, Write, PostRow
  <2>7. CASE DeleteProductPost(r)
    <3>1. db'.posts = SoftDelete(db.posts, {Post(r)})
      BY <1>1, <2>7, DeletePostEffect
    <3>2. QED
      BY <2>1, <2>6, <2>7, <3>1
  <2>8. CASE Withdraw(r)
    <3>1. db'.posts = SoftDelete(db.posts, OwnedBy(db.posts, User(r)))
      BY <1>1, <2>8, WithdrawEffect
    <3>2. p \in OwnedBy(db.posts, User(r)) => old.user = User(r)
      BY <2>1 DEF OwnedBy
    <3>3. QED
      BY <2>1, <2>6, <2>8, <3>1, <3>2
  <2>9. QED
    BY <2>1, <2>3, <2>4, <2>5, <2>7, <2>8, TableWriters
<1>4. ASSUME NEW p \in PostIds', p \notin PostIds
      PROVE  /\ InsertPost(r) /\ p = Len(db.posts) + 1
             /\ db'.posts[p] = NewPost(r)
  <2>1. db.posts \in Seq(PostRow(UserIds, Writers)) /\ Len(db.posts) \in Nat
    BY RowTypes
  <2>2. CASE InsertPost(r)
    <3>1. db'.posts = Append(db.posts, NewPost(r))
      BY <1>1, <2>2, InsertPostEffect
    <3>2. /\ DOMAIN db'.posts = 1 .. Len(db.posts) + 1
          /\ db'.posts[Len(db.posts) + 1] = NewPost(r)
      BY <2>1, <3>1
    <3>3. p = Len(db.posts) + 1
      BY <1>4, <2>1, <3>2 DEF PostIds
    <3>4. QED
      BY <2>2, <3>2, <3>3
  <2>3. CASE FlushEdit(r) \/ CommitEdit(r)
    <3>1. db'.posts = db.posts \/ db'.posts = NewPrice(r)
      BY <1>1, <2>3, FlushEditEffect, CommitEditEffect
    <3>2. QED
      BY <1>4, <3>1 DEF NewPrice, PostIds
  <2>4. CASE HideProductPost(r)
    BY <1>1, <1>4, <2>4, HideEffect DEF PostIds
  <2>5. CASE DeleteProductPost(r) \/ Withdraw(r)
    BY <1>1, <1>4, <2>5, DeletePostEffect, WithdrawEffect
       DEF PostIds, SoftDelete, Write
  <2>6. QED
    BY <1>4, <2>2, <2>3, <2>4, <2>5, TableWriters DEF PostIds
<1>5. QED
  BY <1>2, <1>3, <1>4

-----------------------------------------------------------------------------
(* What the handlers carry stays good, and what they read is.              *)

\* The users of a finite set in a row.
LEMMA UsersInARow ==
  ASSUME StoreInv, NEW S, S \subseteq UserIds
  PROVE  SetToSeq(S) \in Seq(UserIds) /\ Len(SetToSeq(S)) = Cardinality(S)
<1>1. PICK s : s = SetToSeq(S)
  OBVIOUS
<1>2. Cardinality(S) \in Nat /\ s \in [1 .. Cardinality(S) -> S]
  BY <1>1, UsersFinite, SetToSeqRange
<1>3. s = [i \in 1 .. Cardinality(S) |-> s[i]]
      /\ \A i \in 1 .. Cardinality(S) : s[i] \in UserIds
  BY <1>2
<1>4. QED
  BY <1>1, <1>2, <1>3, FunctionIsSeq

LEMMA InterestedType ==
  ASSUME DataInv, NEW p \in PostIds
  PROVE  Interested(db, p) \in [likers: SUBSET UserIds, enabled: SUBSET UserIds,
                                phones: SUBSET UserIds]
<1>1. \A i \in DOMAIN db.likes : db.likes[i].user \in UserIds
  BY RowTypes DEF LikeRow
<1>2. QED
  BY <1>1 DEF Interested, FindLikes, LiveRows, UserIds

\* The steps before which nothing is carried.
Carrying ==
  {"create", "edit", "notify", "push", "commit", "hide", "unhide", "delete",
   "like", "images", "count", "own", "seller", "existing", "mine", "insert",
   "progress", "withdraw", "offline", "leave", "join", "joined", "reader",
   "statuses", "messages", "post", "owner", "trade", "save", "online",
   "devices", "sqs", "emit"}

LEMMA NothingCarried ==
  ASSUME NEW r, NEW s, NEW v, s \notin Carrying
  PROVE  GotOk(r, s, v)
BY DEF GotOk, Carrying

LEMMA StepGot ==
  ASSUME RequestInv, NEW r \in Req, NEW from, NEW to, NEW v,
         Step(r, from, to, v), from \notin Ends, to # "idle", GotOk(r, to, v)
  PROVE  GotOk(r, pc'[r], got'[r])
BY StepMoves

LEMMA RefuseGot ==
  ASSUME RequestInv, NEW r \in Req, NEW from, Refuse(r, from), from \notin Ends
  PROVE  GotOk(r, pc'[r], got'[r])
BY StepMoves, NothingCarried DEF Refuse, Ends, Carrying

LEMMA EndGot ==
  ASSUME RequestInv, NEW r \in Req, NEW from, NEW v, Step(r, from, "done", v),
         from \notin Ends
  PROVE  GotOk(r, pc'[r], got'[r])
BY StepMoves, NothingCarried DEF Ends, Carrying

\* What a participant's row names.
LEMMA ParticipantNames ==
  ASSUME DataInv, NEW i \in DOMAIN db.participants
  PROVE  /\ db.participants[i] \in ParticipantRow(UserIds, ConversationIds)
         /\ db.participants[i].conv \in ConversationIds
         /\ db.participants[i].user \in UserIds
BY RowTypes DEF ParticipantRow

LEMMA ListGot ==
  ASSUME DataInv, NEW r \in Req, Advances(r),
         Op(r) \in Lists \cup {"readNotification", "settings", "getSettings",
                               "deleteNotifications", "deleteAllNotifications",
                               "priceRange", "categories"}
  PROVE  GotOk(r, pc'[r], got'[r])
<1>1. pc'[r] \notin Carrying
  BY DEF Advances, StageOps, Ends, Carrying, Lists, OfPosts, Paging
<1>2. QED
  BY <1>1, NothingCarried

\* What a step leaves with its handler, seen from before the step.
LEMMA GotMoves ==
  ASSUME DataInv, NEW r \in Req, Handle(r)
  PROVE  GotOk(r, pc'[r], got'[r])
<1>. /\ RequestInv /\ StageInv /\ StoreInv /\ GotOk(r, pc[r], got[r])
     /\ Advances(r) /\ now \in Seconds
  BY HandleAdvances, MarketAssumption DEF DataInv, GotInv, StoreInv, Seconds
<1>1. CASE NotifyProductPostUpdate(r)
  <2>1. PICK snap : snap = got[r].interested
    OBVIOUS
  <2>2. PICK targets : targets = Targets(r, snap.likers, snap.enabled)
    OBVIOUS
  <2>3. PICK unsent : unsent = SetToSeq(targets \cap snap.phones)
    OBVIOUS
  <2>4. PICK to : to = IF targets = {} THEN "commit" ELSE "push"
    OBVIOUS
  <2>5. pc[r] = "notify" /\ Step(r, "notify", to,
          [likers |-> snap.likers, targets |-> targets, unsent |-> unsent])
    BY <1>1, <2>1, <2>2, <2>3, <2>4 DEF NotifyProductPostUpdate
  <2>6. /\ Post(r) \in PostIds /\ IsOwner(db, Post(r), User(r))
        /\ plan[r].price \in Nat
        /\ snap.likers \subseteq UserIds /\ snap.enabled \subseteq UserIds
    BY <2>1, <2>5 DEF GotOk
  <2>7. targets \subseteq UserIds
    BY <2>2, <2>6 DEF Targets
  <2>8. unsent \in Seq(UserIds)
    BY <2>3, <2>7, UsersInARow
  <2>9. GotOk(r, to, [likers |-> snap.likers, targets |-> targets, unsent |-> unsent])
    BY <2>4, <2>6, <2>7, <2>8 DEF GotOk
  <2>10. QED
    BY <2>4, <2>5, <2>9, StepGot DEF Ends
<1>2. CASE SendMessageBatch(r)
  <2>1. PICK batch : batch = Window(got[r].unsent, 0, BatchSize)
    OBVIOUS
  <2>2. PICK rest : rest = SubSeq(got[r].unsent, Len(batch) + 1, Len(got[r].unsent))
    OBVIOUS
  <2>3. PICK to : to = IF rest = << >> THEN "commit" ELSE "push"
    OBVIOUS
  <2>4. pc[r] = "push" /\ Step(r, "push", to, [got[r] EXCEPT !.unsent = rest])
    BY <1>2, <2>1, <2>2, <2>3 DEF SendMessageBatch
  <2>5. /\ Post(r) \in PostIds /\ IsOwner(db, Post(r), User(r))
        /\ plan[r].price \in Nat /\ got[r].unsent \in Seq(UserIds)
        /\ got[r] \in [likers: SUBSET UserIds, targets: SUBSET UserIds,
                       unsent: Seq(UserIds)]
    BY <2>4 DEF GotOk
  <2>6. Len(batch) \in Nat
    BY <2>1, <2>5, WindowRows, MarketAssumption
  <2>7. rest \in Seq(UserIds)
    <3>1. \A i \in Len(batch) + 1 .. Len(got[r].unsent) : got[r].unsent[i] \in UserIds
      BY <2>5, <2>6
    <3>2. QED
      BY <2>2, <2>5, <2>6, <3>1, SubSeqProperties
  <2>8. [got[r] EXCEPT !.unsent = rest] \in
          [likers: SUBSET UserIds, targets: SUBSET UserIds, unsent: Seq(UserIds)]
    BY <2>5, <2>7
  <2>9. GotOk(r, to, [got[r] EXCEPT !.unsent = rest])
    BY <2>3, <2>5, <2>8 DEF GotOk
  <2>10. QED
    BY <2>3, <2>4, <2>9, StepGot DEF Ends
<1>3. CASE FindNotification(r)
  BY <1>3, ListGot DEF FindNotification
<1>4. CASE MarkNotificationAsRead(r)
  BY <1>4, EndGot, RefuseGot DEF MarkNotificationAsRead, Ends
<1>5. CASE DeleteNotifications(r)
  BY <1>5, ListGot DEF DeleteNotifications
<1>6. CASE ReadSettings(r)
  BY <1>6, ListGot DEF ReadSettings
<1>7. CASE UpdateSettings(r)
  BY <1>7, EndGot, RefuseGot DEF UpdateSettings, Ends
<1>8. CASE ReadAuthor(r)
  <2>1. PICK home : home = db.users[User(r)].primary
    OBVIOUS
  <2>2. CASE Refuse(r, "idle")
    BY <2>2, RefuseGot DEF Ends
  <2>3. CASE /\ Step(r, "idle", "create", home)
             /\ FindById(db, User(r)) /\ home # None
    <3>1. home \in Regions
      BY <2>1, <2>3, RowTypes DEF FindById, LiveRows, UserIds, UserRow
    <3>2. GotOk(r, "create", home)
      BY <3>1 DEF GotOk
    <3>3. QED
      BY <2>3, <3>2, StepGot DEF Ends
  <2>4. QED
    BY <1>8, <2>1, <2>2, <2>3 DEF ReadAuthor
<1>9. CASE InsertPost(r)
  BY <1>9, EndGot, RefuseGot DEF InsertPost, Ends
<1>10. CASE ReadPost(r)
  <2>1. PICK v : v = [price |-> db.posts[Post(r)].price,
                      hidden |-> db.posts[Post(r)].hidden,
                      interested |-> Interested(db, Post(r))]
    OBVIOUS
  <2>2. CASE MayUpdate(r) /\ Step(r, "idle", "edit", v)
    <3>1. Post(r) \in PostIds /\ IsOwner(db, Post(r), User(r))
      BY <2>2 DEF MayUpdate, FindPost, LiveRows, PostIds
    <3>2. db.posts[Post(r)].price \in Nat /\ db.posts[Post(r)].hidden \in BOOLEAN
      BY <3>1, RowTypes DEF PostRow
    <3>3. GotOk(r, "edit", v)
      BY <2>1, <3>1, <3>2, InterestedType DEF GotOk
    <3>4. QED
      BY <2>2, <3>3, StepGot DEF Ends
  <2>3. QED
    BY <1>10, <2>1, <2>2, RefuseGot DEF ReadPost, Ends
<1>11. CASE FlushEdit(r)
  <2>1. CASE PriceChanges(r) /\ Step(r, "edit", "notify", got[r])
    <3>1. pc[r] = "edit" /\ Op(r) = "edit"
      BY <1>11 DEF FlushEdit, StageInv, StageOps
    <3>2. plan[r].price \in Nat
      BY <2>1, <3>1, RequestTypes DEF PriceChanges, StoreInv
    <3>3. GotOk(r, "notify", got[r])
      BY <3>1, <3>2 DEF GotOk
    <3>4. QED
      BY <2>1, <3>3, StepGot DEF Ends
  <2>2. QED
    BY <1>11, <2>1, EndGot DEF FlushEdit, Ends
<1>12. CASE CommitEdit(r)
  BY <1>12, EndGot, RefuseGot DEF CommitEdit, Ends
<1>13. CASE ReadOwnPost(r)
  <2>1. CASE Allows(r) /\ Step(r, "idle", Op(r), None)
    <3>1. Post(r) \in PostIds /\ IsOwner(db, Post(r), User(r))
      BY <2>1 DEF Allows, FindPost, LiveRows, PostIds
    <3>2. Op(r) \in {"hide", "unhide", "delete"}
      BY <1>13 DEF ReadOwnPost
    <3>3. GotOk(r, Op(r), None)
      BY <3>1, <3>2 DEF GotOk
    <3>4. QED
      BY <2>1, <3>2, <3>3, StepGot DEF Ends
  <2>2. QED
    BY <1>13, <2>1, RefuseGot DEF ReadOwnPost, Ends
<1>14. CASE HideProductPost(r)
  <2>1. Step(r, Op(r), "done", None) /\ Op(r) \in {"hide", "unhide"}
    BY <1>14 DEF HideProductPost, Step
  <2>2. QED
    BY <2>1, EndGot DEF Ends
<1>15. CASE DeleteProductPost(r)
  BY <1>15, EndGot, RefuseGot DEF DeleteProductPost, Ends
<1>16. CASE ReadLike(r)
  <2>1. CASE FindPost(db, Post(r)) /\ Step(r, "idle", "like", None)
    <3>1. GotOk(r, "like", None)
      BY <2>1 DEF GotOk, FindPost, LiveRows, PostIds
    <3>2. QED
      BY <2>1, <3>1, StepGot DEF Ends
  <2>2. QED
    BY <1>16, <2>1, RefuseGot DEF ReadLike, Ends
<1>17. CASE InsertLike(r)
  BY <1>17, EndGot, RefuseGot DEF InsertLike, Ends
<1>18. CASE DeleteLike(r)
  BY <1>18, EndGot, RefuseGot DEF DeleteLike, Ends
<1>19. CASE ReadDetail(r)
  <2>1. PICK v : v = [NoDetail EXCEPT !.isOwner = IsOwner(db, Post(r), User(r))]
    OBVIOUS
  <2>2. CASE FindPost(db, Post(r)) /\ Step(r, "idle", "images", v)
    <3>1. GotOk(r, "images", v)
      BY <2>2 DEF GotOk, FindPost, LiveRows, PostIds
    <3>2. QED
      BY <2>2, <3>1, StepGot DEF Ends
  <2>3. QED
    BY <1>19, <2>1, <2>2, RefuseGot DEF ReadDetail, Ends
<1>20. CASE ReadRest(r)
  <2>1. ASSUME NEW v PROVE GotOk(r, "count", v) /\ GotOk(r, "own", v)
    <3>1. pc[r] \in {"images", "count", "own"}
      BY <1>20 DEF ReadRest, Step
    <3>2. Post(r) \in PostIds
      BY <3>1 DEF GotOk
    <3>3. QED
      BY <3>2 DEF GotOk
  <2>2. QED
    BY <1>20, <2>1, StepGot, EndGot DEF ReadRest, Ends
<1>21. CASE ReadWithdrawing(r)
  <2>1. PICK own : own = {p \in LiveRows(db.posts) : IsOwner(db, p, User(r))}
    OBVIOUS
  <2>2. GotOk(r, "withdraw", own)
    BY <2>1 DEF GotOk, LiveRows, PostIds
  <2>3. QED
    BY <1>21, <2>1, <2>2, StepGot, RefuseGot DEF ReadWithdrawing, Ends
<1>22. CASE Withdraw(r)
  BY <1>22, EndGot, RefuseGot DEF Withdraw, Ends
<1>23. CASE AskForPage(r)
  BY <1>23, ListGot DEF AskForPage
<1>24. CASE ReadFilter(r)
  BY <1>24, ListGot DEF ReadFilter, Awaits
<1>25. CASE ReadPage(r)
  BY <1>25, ListGot DEF ReadPage, Awaits
<1>26. CASE FindByIdsIncludingDeleted(r)
  BY <1>26, ListGot DEF FindByIdsIncludingDeleted, Awaits
<1>27. CASE CountLikes(r)
  BY <1>27, ListGot DEF CountLikes, Awaits
<1>28. CASE CountConversations(r)
  BY <1>28, ListGot DEF CountConversations, Awaits
<1>29. CASE FindLiked(r)
  BY <1>29, ListGot DEF FindLiked, Awaits
<1>30. CASE FindCategories(r)
  BY <1>30, ListGot DEF FindCategories
<1>31. CASE GetPriceRange(r)
  BY <1>31, ListGot DEF GetPriceRange
<1>32. CASE GetTradableUsers(r)
  <2>1. Op(r) = "tradable"
    BY <1>32 DEF GetTradableUsers
  <2>2. CASE FindPost(db, Post(r)) /\ Step(r, "idle", "mine", None)
    <3>1. GotOk(r, "mine", None)
      BY <2>1, <2>2 DEF GotOk, FindPost, LiveRows, PostIds
    <3>2. QED
      BY <2>2, <3>1, StepGot DEF Ends
  <2>3. ASSUME NEW v PROVE GotOk(r, "others", v) /\ GotOk(r, "users", v)
    BY NothingCarried DEF Carrying
  <2>4. QED
    BY <1>32, <2>2, <2>3, StepGot, RefuseGot, EndGot DEF GetTradableUsers, Ends
<1>33. CASE GetTradeProgress(r)
  <2>1. CASE FindPost(db, Post(r)) /\ Step(r, "idle", "progress", None)
    <3>1. GotOk(r, "progress", None)
      BY <2>1 DEF GotOk, FindPost, LiveRows, PostIds
    <3>2. QED
      BY <2>1, <3>1, StepGot DEF Ends
  <2>2. ASSUME NEW v PROVE GotOk(r, "buyer", v)
    BY NothingCarried DEF Carrying
  <2>3. QED
    BY <1>33, <2>1, <2>2, StepGot, RefuseGot, EndGot DEF GetTradeProgress, Ends
<1>34. CASE ReadTopic(r)
  <2>1. CASE FindPost(db, Post(r)) /\ Step(r, "idle", "seller", None)
    <3>1. GotOk(r, "seller", None)
      BY <2>1 DEF GotOk, FindPost, LiveRows, PostIds
    <3>2. QED
      BY <2>1, <3>1, StepGot DEF Ends
  <2>2. QED
    BY <1>34, <2>1, RefuseGot DEF ReadTopic, Ends
<1>35. CASE ReadSeller(r)
  <2>1. CASE ~IsOwner(db, Post(r), User(r)) /\ Step(r, "seller", "existing", None)
    <3>1. GotOk(r, "existing", None)
      BY <1>35, <2>1 DEF GotOk, ReadSeller
    <3>2. QED
      BY <2>1, <3>1, StepGot DEF Ends
  <2>2. QED
    BY <1>35, <2>1, RefuseGot DEF ReadSeller, Ends
<1>36. CASE FindExistingConversation(r)
  <2>1. pc[r] \in {"existing", "mine"} /\ Op(r) = "createConversation"
    BY <1>36 DEF FindExistingConversation
  <2>2. Post(r) \in PostIds /\ ~IsOwner(db, Post(r), User(r))
    BY <2>1 DEF GotOk
  <2>3. ASSUME NEW v PROVE GotOk(r, "mine", v) /\ GotOk(r, "insert", v)
    BY <2>2 DEF GotOk
  <2>4. PICK mine : mine = {c \in got[r] : FindParticipant(db, c, User(r)) # {}}
    OBVIOUS
  <2>5. \/ Step(r, "existing", "mine", FindConversations(db, Post(r)))
        \/ Step(r, "mine", "insert", None) \/ Step(r, "mine", "done", Min(mine))
    BY <1>36, <2>4 DEF FindExistingConversation
  <2>6. QED
    BY <2>3, <2>5, StepGot, EndGot DEF Ends
<1>37. CASE InsertConversation(r)
  BY <1>37, EndGot, RefuseGot DEF InsertConversation, Ends
<1>38. CASE JoinRoom(r)
  <2>1. CASE /\ Step(r, "idle", "join", None)
             /\ FindParticipant(db, Conv(r), User(r)) # {}
    <3>1. PICK i \in DOMAIN db.participants : db.participants[i].conv = Conv(r)
      BY <2>1 DEF FindParticipant, LiveRows
    <3>2. GotOk(r, "join", None)
      BY <3>1, ParticipantNames DEF GotOk
    <3>3. QED
      BY <2>1, <3>2, StepGot DEF Ends
  <2>2. CASE Step(r, "join", "joined", None)
    <3>1. GotOk(r, "joined", None)
      BY <2>2 DEF GotOk, Step
    <3>2. QED
      BY <2>2, <3>1, StepGot DEF Ends
  <2>3. QED
    BY <1>38, <2>1, <2>2, RefuseGot DEF JoinRoom, Ends
<1>39. CASE ReadConversation(r)
  <2>1. PICK from \in {"idle", "joined", "again"} :
          \/ Refuse(r, from)
          \/ Conv(r) \in ConversationIds /\ \E v : Step(r, from, "reader", v)
    BY <1>39 DEF ReadConversation
  <2>2. CASE Refuse(r, from)
    BY <2>2, RefuseGot DEF Ends
  <2>3. CASE Conv(r) \in ConversationIds /\ \E v : Step(r, from, "reader", v)
    <3>1. PICK v : Step(r, from, "reader", v)
      BY <2>3
    <3>2. GotOk(r, "reader", v)
      BY <2>3 DEF GotOk
    <3>3. QED
      BY <3>1, <3>2, StepGot DEF Ends
  <2>4. QED
    BY <2>1, <2>2, <2>3
<1>40. CASE ReadReader(r)
  <2>1. Conv(r) \in ConversationIds
    BY <1>40 DEF ReadReader, GotOk
  <2>2. ASSUME NEW v PROVE GotOk(r, "statuses", v)
    BY <2>1 DEF GotOk
  <2>3. Refuse(r, "reader") \/ \E v : Step(r, "reader", "statuses", v)
    BY <1>40 DEF ReadReader
  <2>4. QED
    BY <2>2, <2>3, StepGot, RefuseGot DEF Ends
<1>41. CASE ReadStatuses(r)
  <2>1. GotOk(r, "messages", got[r])
    BY <1>41 DEF ReadStatuses, GotOk
  <2>2. QED
    BY <1>41, <2>1, StepGot DEF ReadStatuses, Ends
<1>42. CASE ReadMessages(r)
  <2>1. \E v : Step(r, "messages", "again", v) \/ Step(r, "messages", "done", v)
    BY <1>42 DEF ReadMessages
  <2>2. ASSUME NEW v PROVE GotOk(r, "again", v)
    BY NothingCarried DEF Carrying
  <2>3. QED
    BY <2>1, <2>2, StepGot, EndGot DEF Ends
<1>43. CASE ReadLeaver(r)
  <2>1. CASE \E i \in FindParticipant(db, Conv(r), User(r)) :
               Step(r, "idle", "offline", [row |-> i, at |-> now])
    <3>1. PICK i \in DOMAIN db.participants :
            Step(r, "idle", "offline", [row |-> i, at |-> now])
      BY <2>1 DEF FindParticipant, LiveRows
    <3>2. GotOk(r, "offline", [row |-> i, at |-> now])
      BY DEF GotOk
    <3>3. QED
      BY <3>1, <3>2, StepGot DEF Ends
  <2>2. CASE Step(r, "offline", "leave", got[r])
    <3>1. GotOk(r, "leave", got[r])
      BY <2>2 DEF GotOk, Step
    <3>2. QED
      BY <2>2, <3>1, StepGot DEF Ends
  <2>3. QED
    BY <1>43, <2>1, <2>2, RefuseGot DEF ReadLeaver, AnyOf, Ends
<1>44. CASE LeaveConversation(r)
  BY <1>44, EndGot, RefuseGot DEF LeaveConversation, Ends
<1>45. CASE ReadSender(r)
  <2>1. CASE /\ Step(r, "idle", "post", None)
             /\ FindParticipant(db, Conv(r), User(r)) # {}
    <3>1. PICK i \in DOMAIN db.participants : db.participants[i].conv = Conv(r)
      BY <2>1 DEF FindParticipant, LiveRows
    <3>2. GotOk(r, "post", None)
      BY <3>1, ParticipantNames DEF GotOk
    <3>3. QED
      BY <2>1, <3>2, StepGot DEF Ends
  <2>2. QED
    BY <1>45, <2>1, RefuseGot DEF ReadSender, Ends
<1>46. CASE ReadWhetherClosed(r)
  <2>1. PICK post : post = db.posts[db.conversations[Conv(r)].post]
    OBVIOUS
  <2>2. Conv(r) \in ConversationIds
    BY <1>46 DEF ReadWhetherClosed, GotOk
  <2>3. post \in PostRow(UserIds, Writers)
    BY <2>1, <2>2, RowTypes DEF ConversationRow
  <2>4. post.user \in UserIds /\ Closed(post) \in BOOLEAN
    BY <2>3 DEF PostRow, Closed
  <2>5. GotOk(r, "owner", [user |-> post.user, closed |-> Closed(post)])
    BY <2>2, <2>4 DEF GotOk
  <2>6. QED
    BY <1>46, <2>1, <2>5, StepGot DEF ReadWhetherClosed, Ends
<1>47. CASE CheckSendMessagePermission(r)
  <2>1. Step(r, "owner", "trade", got[r]) => GotOk(r, "trade", got[r])
    BY DEF GotOk, Step
  <2>2. \/ Step(r, "owner", "trade", got[r])
        \/ \E v : Step(r, "owner", "done", v) \/ Step(r, "trade", "done", v)
    BY <1>47 DEF CheckSendMessagePermission
  <2>3. QED
    BY <2>1, <2>2, StepGot, EndGot DEF Ends
<1>48. CASE LoadParticipants(r)
  <2>1. PICK rows : rows = Loaded(Conv(r))
    OBVIOUS
  <2>2. rows \subseteq ParticipantRow(UserIds, ConversationIds)
    BY <2>1, ParticipantNames DEF Loaded, LiveRows
  <2>3. GotOk(r, "save", [rows |-> rows])
    BY <2>2 DEF GotOk
  <2>4. QED
    BY <1>48, <2>1, <2>3, StepGot, RefuseGot DEF LoadParticipants, Ends
<1>49. CASE SaveMessage(r)
  <2>1. GotOk(r, "online", got[r])
    BY <1>49 DEF SaveMessage, GotOk
  <2>2. QED
    BY <1>49, <2>1, StepGot DEF SaveMessage, Ends
<1>50. CASE MissConversation(r)
  BY <1>50, EndGot, RefuseGot DEF MissConversation, Ends
<1>51. CASE ReadOnlineUsers(r)
  <2>1. PICK v : v = [rows |-> got[r].rows, online |-> Watching(r), push |-> {}]
    OBVIOUS
  <2>2. Watching(r) \subseteq UserIds
    BY DEF Watching, OnlineIn
  <2>3. GotOk(r, "devices", v)
    BY <1>51, <2>1, <2>2 DEF ReadOnlineUsers, GotOk
  <2>4. QED
    BY <1>51, <2>1, <2>3, StepGot DEF ReadOnlineUsers, Ends
<1>52. CASE BuildPushMessages(r)
  <2>1. PICK push : push =
          {u \in Pushable(r, got[r].rows, got[r].online) : db.users[u].devices}
    OBVIOUS
  <2>2. /\ Conv(r) \in ConversationIds
        /\ got[r] \in [rows: SUBSET ParticipantRow(UserIds, ConversationIds),
                       online: SUBSET UserIds, push: SUBSET UserIds]
    BY <1>52 DEF BuildPushMessages, GotOk
  <2>3. push \subseteq UserIds
    BY <2>1, <2>2 DEF Pushable, ParticipantRow
  <2>4. GotOk(r, "sqs", [got[r] EXCEPT !.push = push])
    BY <2>2, <2>3 DEF GotOk
  <2>5. QED
    BY <1>52, <2>1, <2>4, StepGot DEF BuildPushMessages, Ends
<1>53. CASE SendPushMessages(r)
  <2>1. GotOk(r, "emit", got[r])
    BY <1>53 DEF SendPushMessages, GotOk
  <2>2. QED
    BY <1>53, <2>1, StepGot DEF SendPushMessages, Ends
<1>54. CASE Emit(r)
  BY <1>54, EndGot, RefuseGot DEF Emit, Ends
<1>55. QED
  BY <1>1, <1>2, <1>3, <1>4, <1>5, <1>6, <1>7, <1>8, <1>9, <1>10, <1>11, <1>12,
     <1>13, <1>14, <1>15, <1>16, <1>17, <1>18, <1>19, <1>20, <1>21, <1>22,
     <1>23, <1>24, <1>25, <1>26, <1>27, <1>28, <1>29, <1>30, <1>31, <1>32,
     <1>33, <1>34, <1>35, <1>36, <1>37, <1>38, <1>39, <1>40, <1>41, <1>42,
     <1>43, <1>44, <1>45, <1>46, <1>47, <1>48, <1>49, <1>50, <1>51, <1>52,
     <1>53, <1>54
     DEF Handle, FanoutNext, PostsNext, ListingNext, ConversationsNext

LEMMA GotStays ==
  ASSUME DataInv, NEW r \in Req, Handle(r), NEW q \in Req, NEW s, NEW v,
         GotOk(q, s, v)
  PROVE  GotOk(q, s, v)'
<1>1. /\ plan' = plan /\ UserIds' = UserIds
      /\ PostIds \subseteq PostIds' /\ ConversationIds \subseteq ConversationIds'
      /\ DOMAIN db.participants \subseteq DOMAIN db'.participants
  BY HandleTyped, HandleAdvances DEF DataInv, Typed, Advances, Moves
<1>2. \A p \in PostIds : db'.posts[p].user = db.posts[p].user
  BY PostsKept
<1>3. /\ User(q)' = User(q) /\ Op(q)' = Op(q)
      /\ Post(q)' = Post(q) /\ Conv(q)' = Conv(q)
  BY <1>1 DEF User, Op, Post, Conv
<1>4. ParticipantRow(UserIds, ConversationIds)
        \subseteq ParticipantRow(UserIds', ConversationIds')
  BY <1>1 DEF ParticipantRow
<1>5. \A p \in PostIds : IsOwner(db, p, User(q))' <=> IsOwner(db, p, User(q))
  BY <1>2, <1>3 DEF IsOwner
<1>6. PICK Old : Old = ParticipantRow(UserIds, ConversationIds)
  OBVIOUS
<1>7. PICK New : New = ParticipantRow(UserIds', ConversationIds')
  OBVIOUS
<1>8. s = "withdraw" => \A p \in v : p \in PostIds' /\ IsOwner(db, p, User(q))'
  BY <1>1, <1>5 DEF GotOk
<1>9. s \in {"save", "online"} => v.rows \subseteq New
  BY <1>4, <1>6, <1>7 DEF GotOk
<1>10. s \in {"devices", "sqs", "emit"} =>
         v \in [rows: SUBSET New, online: SUBSET UserIds, push: SUBSET UserIds]
  <2>1. s \in {"devices", "sqs", "emit"} =>
          v \in [rows: SUBSET Old, online: SUBSET UserIds, push: SUBSET UserIds]
    BY <1>6 DEF GotOk
  <2>2. QED
    BY <1>4, <1>6, <1>7, <2>1
<1>11. s \in {"offline", "leave"} => v \in [row: DOMAIN db'.participants, at: Seconds]
  <2>1. s \in {"offline", "leave"} => v \in [row: DOMAIN db.participants, at: Seconds]
    BY DEF GotOk
  <2>2. QED
    BY <1>1, <2>1
<1>12. /\ s \in {"edit", "notify", "push", "commit", "hide", "unhide", "delete"} =>
            Post(q)' \in PostIds' /\ IsOwner(db, Post(q), User(q))'
       /\ s \in {"existing", "mine", "insert"} /\ Op(q)' = "createConversation" =>
            ~IsOwner(db, Post(q), User(q))'
  BY <1>1, <1>2, <1>3 DEF GotOk, IsOwner
<1>13. QED
  BY <1>1, <1>3, <1>7, <1>8, <1>9, <1>10, <1>11, <1>12 DEF GotOk

LEMMA GotKept ==
  ASSUME DataInv, NEW r \in Req, Handle(r)
  PROVE  GotInv'
<1>1. RequestInv /\ Moves(r) /\ Req' = Req
  BY HandleAdvances DEF DataInv, Advances, Moves, Req
<1>2. ASSUME NEW q \in Req PROVE GotOk(q, pc'[q], got'[q])
  <2>1. CASE q = r
    BY <2>1, GotMoves
  <2>2. CASE q # r
    <3>1. pc'[q] = pc[q] /\ got'[q] = got[q]
      BY <1>1, <2>2, OthersStay
    <3>2. QED
      BY <3>1 DEF DataInv, GotInv
  <2>3. QED
    BY <2>1, <2>2
<1>3. ASSUME NEW q \in Req PROVE GotOk(q, pc[q], got[q])'
  <2>1. PICK s, v : s = pc'[q] /\ v = got'[q]
    OBVIOUS
  <2>2. GotOk(q, s, v)'
    BY <1>2, <2>1, GotStays
  <2>3. QED
    BY <2>1, <2>2 DEF GotOk
<1>4. QED
  BY <1>1, <1>3 DEF GotInv

-----------------------------------------------------------------------------
(* Redis, the sockets and the queue.                                       *)

\* Messages for the users of S.
PushedTo(r, S) ==
  [i \in 1 .. Cardinality(S) |-> [by |-> r, user |-> SetToSeq(S)[i]]]

LEMMA PushedType ==
  ASSUME StoreInv, NEW r \in Req, NEW S, S \subseteq UserIds
  PROVE  PushedTo(r, S) \in Seq([by: Req, user: UserIds])
<1>1. PICK s : s = SetToSeq(S)
  OBVIOUS
<1>2. PICK new : new = PushedTo(r, S)
  OBVIOUS
<1>3. Cardinality(S) \in Nat /\ s \in [1 .. Cardinality(S) -> S]
  BY <1>1, UsersFinite, SetToSeqRange
<1>4. new = [i \in 1 .. Cardinality(S) |-> [by |-> r, user |-> s[i]]]
  BY <1>1, <1>2 DEF PushedTo
<1>5. /\ new = [i \in 1 .. Cardinality(S) |-> new[i]]
      /\ \A i \in 1 .. Cardinality(S) : new[i] \in [by: Req, user: UserIds]
  BY <1>3, <1>4
<1>6. new \in Seq([by: Req, user: UserIds])
  BY <1>3, <1>5, FunctionIsSeq
<1>7. QED
  BY <1>2, <1>6

\* What SQS accepts of what it is sent.
LEMMA QueueEffect ==
  ASSUME DataInv, NEW r \in Req, SendMessageBatch(r) \/ SendPushMessages(r)
  PROVE  \E S : /\ S \subseteq UserIds
                /\ S \subseteq IF pc[r] = "push"
                               THEN ToSet(Window(got[r].unsent, 0, BatchSize))
                               ELSE got[r].push
                /\ queued' = queued \o PushedTo(r, S)
<1>1. CASE SendMessageBatch(r)
  <2>1. pc[r] = "push"
    BY <1>1 DEF SendMessageBatch
  <2>2. PICK batch : batch = Window(got[r].unsent, 0, BatchSize)
    OBVIOUS
  <2>3. got[r].unsent \in Seq(UserIds)
    BY <2>1 DEF DataInv, GotInv, GotOk
  <2>4. batch \in Seq(UserIds)
    BY <2>2, <2>3, WindowRows, MarketAssumption
  <2>5. ToSet(batch) \subseteq UserIds
    BY <2>4 DEF ToSet
  <2>6. PICK S \in SUBSET ToSet(batch) : queued' = queued \o PushedTo(r, S)
    BY <1>1, <2>2 DEF SendMessageBatch, PushedTo
  <2>7. QED
    BY <2>1, <2>2, <2>5, <2>6
<1>2. CASE SendPushMessages(r)
  <2>1. pc[r] = "sqs"
    BY <1>2 DEF SendPushMessages
  <2>2. got[r].push \subseteq UserIds
    BY <2>1 DEF DataInv, GotInv, GotOk
  <2>3. PICK S \in SUBSET got[r].push : queued' = queued \o PushedTo(r, S)
    BY <1>2 DEF SendPushMessages, PushedTo
  <2>4. QED
    BY <2>1, <2>2, <2>3
<1>3. QED
  BY <1>1, <1>2

LEMMA EmissionType ==
  ASSUME DataInv, NEW r \in Req, pc[r] = "emit"
  PROVE  Emissions(r, got[r].rows, got[r].online) \subseteq
           [by: Req, user: UserIds, event: {"newMessage", "chatRoomUpdated"}]
<1>1. \A row \in got[r].rows : row.user \in UserIds
  <2>1. got[r].rows \subseteq ParticipantRow(UserIds, ConversationIds)
    BY DEF DataInv, GotInv, GotOk
  <2>2. QED
    BY <2>1 DEF ParticipantRow
<1>2. QED
  BY <1>1 DEF Emissions, OnlineEmissions, OfflineEmissions

LEMMA StoreKept ==
  ASSUME DataInv, NEW r \in Req, Handle(r)
  PROVE  StoreInv'
<1>1. /\ plan' = plan /\ Req' = Req /\ Writers' = Writers
  BY HandleAdvances DEF DataInv, Advances, Moves, Req, Writers
<1>2. Typed /\ StoreInv
  BY HandleTyped DEF DataInv
<1>3. online' \subseteq ConversationIds' \X UserIds'
  <2>1. CASE UNCHANGED online
    BY <1>2, <2>1 DEF Typed, StoreInv
  <2>2. CASE JoinRoom(r)
    <3>1. CASE UNCHANGED online
      BY <1>2, <3>1 DEF Typed, StoreInv
    <3>2. CASE pc[r] = "join" /\ online' = online \cup {<<Conv(r), User(r)>>}
      <4>1. Conv(r) \in ConversationIds /\ Op(r) = "enter"
        BY <3>2 DEF DataInv, GotInv, GotOk, StageInv, StageOps
      <4>2. User(r) \in UserIds
        BY <1>2, <4>1, RequestTypes DEF StoreInv, UserIdsAtStart
      <4>3. QED
        BY <1>2, <3>2, <4>1, <4>2 DEF Typed, StoreInv
    <3>3. QED
      BY <2>2, <3>1, <3>2 DEF JoinRoom, Step
  <2>3. CASE ReadLeaver(r)
    <3>1. online' \subseteq online
      BY <2>3 DEF ReadLeaver
    <3>2. QED
      BY <1>2, <3>1 DEF Typed, StoreInv
  <2>4. QED
    BY <2>1, <2>2, <2>3, HandleWrites
<1>4. emitted' \subseteq
        [by: Req, user: UserIds, event: {"newMessage", "chatRoomUpdated"}]
  <2>1. CASE UNCHANGED emitted
    BY <1>2, <2>1 DEF StoreInv
  <2>2. CASE Emit(r)
    BY <1>2, <2>2, EmissionType DEF Emit, StoreInv
  <2>3. QED
    BY <2>1, <2>2, HandleWrites
<1>5. queued' \in Seq([by: Req, user: UserIds])
  <2>1. CASE UNCHANGED queued
    BY <1>2, <2>1 DEF StoreInv
  <2>2. CASE SendMessageBatch(r) \/ SendPushMessages(r)
    <3>1. PICK S : S \subseteq UserIds /\ queued' = queued \o PushedTo(r, S)
      BY <2>2, QueueEffect
    <3>2. PICK new : new = PushedTo(r, S)
      OBVIOUS
    <3>3. /\ queued \in Seq([by: Req, user: UserIds])
          /\ new \in Seq([by: Req, user: UserIds])
      BY <1>2, <3>1, <3>2, PushedType DEF StoreInv
    <3>4. QED
      BY <3>1, <3>2, <3>3
  <2>3. QED
    BY <2>1, <2>2, HandleWrites
<1>6. now' = now
  BY HandleWrites
<1>7. QED
  BY <1>1, <1>2, <1>3, <1>4, <1>5, <1>6 DEF Typed, StoreInv

LEMMA StagesKept ==
  ASSUME DataInv, NEW r \in Req, Advances(r)
  PROVE  StageInv'
<1>1. RequestInv /\ Moves(r) /\ Req' = Req /\ plan' = plan
  BY DEF DataInv, Advances, Moves, Req
<1>2. ASSUME NEW q \in Req
      PROVE  /\ pc'[q] \in DOMAIN StageOps \cup Ends \cup {"idle"}
             /\ pc'[q] \in DOMAIN StageOps => Op(q)' \in StageOps[pc'[q]]
  <2>1. Op(q)' = Op(q)
    BY <1>1 DEF Op
  <2>2. CASE q = r
    BY <2>1, <2>2 DEF Advances
  <2>3. CASE q # r
    BY <1>1, <2>1, <2>3, OthersStay DEF DataInv, StageInv
  <2>4. QED
    BY <2>2, <2>3
<1>3. QED
  BY <1>1, <1>2 DEF StageInv

-----------------------------------------------------------------------------

LEMMA DataHandle ==
  ASSUME DataInv, NEW r \in Req, Handle(r)
  PROVE  DataInv'
<1>1. Advances(r)
  BY HandleAdvances DEF DataInv
<1>2. RequestInv'
  BY <1>1, MovesKeeps DEF DataInv, Advances
<1>3. QED
  BY <1>1, <1>2, StagesKept, StoreKept, GotKept DEF DataInv

LEMMA FailMoves ==
  ASSUME DataInv, NEW r \in Req, Fail(r)
  PROVE  /\ Moves(r) /\ Advances(r) /\ pc'[r] = "failed" /\ got'[r] = None
         /\ pc[r] # "idle" /\ ~Ended(r)
         /\ UNCHANGED <<plan, past, db, now, online, emitted, queued>>
         /\ UserIds' = UserIds /\ PostIds' = PostIds
         /\ ConversationIds' = ConversationIds /\ Req' = Req
<1>1. Moves(r) /\ pc[r] # "idle" /\ pc'[r] = "failed" /\ got'[r] = None
  BY AbortMoves DEF DataInv, Fail
<1>2. UNCHANGED <<plan, past, db, now, online, emitted, queued>>
  BY DEF Fail, Abort
<1>3. Advances(r) /\ ~Ended(r)
  BY <1>1 DEF Advances, Moves, Ended, Ends, StageOps
<1>4. QED
  BY <1>1, <1>2, <1>3 DEF UserIds, PostIds, ConversationIds, Req

LEMMA DataFail ==
  ASSUME DataInv, NEW r \in Req, Fail(r)
  PROVE  DataInv'
<1>1. RequestInv' /\ StageInv'
  BY FailMoves, MovesKeeps, StagesKept DEF DataInv
<1>2. StoreInv'
  BY FailMoves DEF DataInv, StoreInv, Writers
<1>3. GotInv'
  <2>1. ASSUME NEW q \in Req PROVE GotOk(q, pc'[q], got'[q])
    <3>1. CASE q = r
      BY <3>1, FailMoves, NothingCarried DEF Carrying
    <3>2. CASE q # r
      BY <3>2, FailMoves, OthersStay DEF DataInv, GotInv
    <3>3. QED
      BY <3>1, <3>2
  <2>2. ASSUME NEW q \in Req PROVE GotOk(q, pc[q], got[q])'
    BY <2>1, FailMoves DEF GotOk, User, Op, Post, Conv
  <2>3. QED
    BY <2>2, FailMoves DEF GotInv
<1>4. QED
  BY <1>1, <1>2, <1>3 DEF DataInv

\* Between two steps the clock may move.
LEMMA DataTick ==
  ASSUME DataInv, Tick \/ UNCHANGED marketVars
  PROVE  DataInv'
<1>1. /\ UNCHANGED <<plan, pc, got, past, db, online, emitted, queued>>
      /\ now' \in FirstSecond .. Horizon
  BY MarketAssumption DEF Tick, marketVars, requestVars, DataInv, StoreInv, Seconds
<1>2. /\ Req' = Req /\ UserIds' = UserIds /\ PostIds' = PostIds
      /\ ConversationIds' = ConversationIds /\ Writers' = Writers
  BY <1>1 DEF Req, UserIds, PostIds, ConversationIds, Writers
<1>3. RequestInv' /\ StageInv'
  BY <1>1, <1>2 DEF DataInv, RequestInv, StageInv, Op, Ended
<1>4. StoreInv'
  BY <1>1, <1>2 DEF DataInv, StoreInv
<1>5. GotInv'
  <2>1. ASSUME NEW q \in Req PROVE GotOk(q, pc[q], got[q])'
    BY <1>1, <1>2 DEF DataInv, GotInv, GotOk, User, Op, Post, Conv
  <2>2. QED
    BY <1>2, <2>1 DEF GotInv
<1>6. QED
  BY <1>3, <1>4, <1>5 DEF DataInv

LEMMA DataStart ==
  ASSUME Init
  PROVE  DataInv
<1>1. RequestInv /\ StageInv
  <2>1. RequestInv
    BY RequestsStart DEF Init
  <2>2. \A r \in Req : pc[r] = "idle"
    BY DEF Init, RequestsInit
  <2>3. "idle" \notin DOMAIN StageOps
    BY DEF StageOps
  <2>4. QED
    BY <2>1, <2>2, <2>3 DEF StageInv
<1>2. GotInv
  BY NothingCarried DEF GotInv, Init, RequestsInit, Carrying
<1>3. plan \in Plans /\ db = StartDb /\ now = FirstSecond /\ online = {}
      /\ emitted = {} /\ queued = << >>
  BY DEF Init, RequestsInit
<1>4. db \in Tables(UserIds, PostIds, ConversationIds, {0})
  BY <1>3, StartAssumption DEF UserIds, PostIds, ConversationIds
<1>5. db \in Tables(UserIds, PostIds, ConversationIds, Writers)
  <2>1. /\ PostRow(UserIds, {0}) \subseteq PostRow(UserIds, Writers)
        /\ ImageRow(PostIds, {0}) \subseteq ImageRow(PostIds, Writers)
        /\ LikeRow(UserIds, PostIds, {0}) \subseteq LikeRow(UserIds, PostIds, Writers)
        /\ ConversationRow(PostIds, {0}) \subseteq ConversationRow(PostIds, Writers)
        /\ MessageRow(UserIds, ConversationIds, {0})
             \subseteq MessageRow(UserIds, ConversationIds, Writers)
        /\ NotificationRow(UserIds, PostIds, {0})
             \subseteq NotificationRow(UserIds, PostIds, Writers)
    BY DEF Writers, PostRow, ImageRow, LikeRow, ConversationRow, MessageRow,
       NotificationRow
  <2>2. QED
    BY <1>4, <2>1, SeqGrows DEF Tables
<1>6. queued \in Seq([by: Req, user: UserIds])
  BY <1>3
<1>7. FirstSecond \in FirstSecond .. Horizon
  BY MarketAssumption DEF Seconds
<1>8. StoreInv
  BY <1>3, <1>5, <1>6, <1>7 DEF StoreInv, UserIds, UserIdsAtStart
<1>9. QED
  BY <1>1, <1>2, <1>8 DEF DataInv

LEMMA DataStep ==
  ASSUME DataInv, [Next]_marketVars
  PROVE  DataInv'
BY DataHandle, DataFail, DataTick DEF Next

\* The rows of all tables stay of their types, with keys that name rows; no
\* row of a user, post or conversation goes; and what a handler has read, of
\* posts, participants and users, still names rows when it writes.
THEOREM DataInvariant == Spec => []DataInv
<1>1. Init => DataInv
  BY DataStart
<1>2. DataInv /\ [Next]_marketVars => DataInv'
  BY DataStep
<1>3. QED
  BY <1>1, <1>2, PTL DEF Spec

\* TypeOK, for any plans and tables: the types of the rows and keys, of what
\* goes to the sockets and the queue, and that past requests have ended.
THEOREM TypeCorrect == Spec => []TypeOK
<1>1. DataInv => TypeOK
  BY DEF DataInv, StoreInv, RequestInv, TypeOK
<1>2. QED
  BY <1>1, DataInvariant, PTL

-----------------------------------------------------------------------------
(* What a step leaves of the other tables' rows.                           *)

LEMMA LikesKept ==
  ASSUME DataInv, NEW r \in Req, Handle(r)
  PROVE  /\ \A i \in DOMAIN db.likes :
              /\ i \in DOMAIN db'.likes
              /\ db'.likes[i].user = db.likes[i].user
              /\ db'.likes[i].post = db.likes[i].post
              /\ db'.likes[i].by = db.likes[i].by
              /\ db'.likes[i].stored => db.likes[i].stored
              /\ db.likes[i].stored /\ ~db'.likes[i].stored =>
                   /\ DeleteLike(r) /\ db.likes[i].user = User(r)
                   /\ db.likes[i].post = Post(r)
         /\ \A i \in DOMAIN db'.likes : i \notin DOMAIN db.likes =>
              InsertLike(r) /\ i = Len(db.likes) + 1 /\ db'.likes[i] = NewLike(r)
         /\ DeleteLike(r) => FindLike(db', Post(r), User(r)) = {}
<1>1. StoreInv /\ StageInv
  BY DEF DataInv
<1>2. PICK Row : Row = LikeRow(UserIds, PostIds, Writers)
  OBVIOUS
<1>3. db.likes \in Seq(Row) /\ \A i \in DOMAIN db.likes : db.likes[i] \in Row
  BY <1>2, RowTypes
<1>4. ~DeleteLike(r) \/ ~InsertLike(r)
  BY DEF DeleteLike, InsertLike, Step
<1>5. ~DeleteLike(r) \/ ~Withdraw(r)
  BY DEF DeleteLike, Withdraw, Step
<1>6. CASE db'.likes = db.likes
  <2>1. FindLike(db', Post(r), User(r)) = FindLike(db, Post(r), User(r))
    BY <1>6 DEF FindLike, FindLikes
  <2>2. DeleteLike(r) => FindLike(db, Post(r), User(r)) = {}
    <3>1. SUFFICES ASSUME DeleteLike(r), NEW i \in FindLike(db, Post(r), User(r))
                   PROVE  FALSE
      OBVIOUS
    <3>2. PICK likes : likes =
            Write(db.likes, FindLike(db, Post(r), User(r)), "stored", FALSE)
      OBVIOUS
    <3>3. i \in DOMAIN db.likes /\ db.likes[i].stored
      BY <3>1 DEF FindLike, FindLikes
    <3>4. likes[i] = [db.likes[i] EXCEPT !["stored"] = FALSE]
      BY <3>1, <3>2, <3>3 DEF Write
    <3>5. ~likes[i].stored
      BY <1>2, <1>3, <3>3, <3>4 DEF LikeRow
    <3>6. QED
      BY <1>1, <1>6, <3>1, <3>2, <3>3, <3>5, DeleteLikeEffect
  <2>3. QED
    BY <1>6, <2>1, <2>2
<1>7. CASE InsertLike(r)
  <2>1. PICK new : new = NewLike(r)
    OBVIOUS
  <2>2. db'.likes = Append(db.likes, new)
    BY <1>1, <1>7, <2>1, InsertLikeEffect
  <2>3. QED
    BY <1>3, <1>4, <1>7, <2>1, <2>2, AppendRows
<1>8. CASE DeleteLike(r)
  <2>1. PICK mine : mine = FindLike(db, Post(r), User(r))
    OBVIOUS
  <2>2. db'.likes = Write(db.likes, mine, "stored", FALSE)
    BY <1>1, <1>8, <2>1, DeleteLikeEffect
  <2>3. /\ DOMAIN db'.likes = DOMAIN db.likes
        /\ \A i \in DOMAIN db.likes :
             db'.likes[i] = IF i \in mine THEN [db.likes[i] EXCEPT !["stored"] = FALSE]
                            ELSE db.likes[i]
    BY <2>2 DEF Write
  <2>4. ASSUME NEW i \in DOMAIN db.likes
        PROVE  /\ db'.likes[i].user = db.likes[i].user
               /\ db'.likes[i].post = db.likes[i].post
               /\ db'.likes[i].by = db.likes[i].by
               /\ db'.likes[i].stored => db.likes[i].stored
               /\ i \in mine => ~db'.likes[i].stored
               /\ i \notin mine => db'.likes[i].stored = db.likes[i].stored
    BY <1>2, <1>3, <2>3 DEF LikeRow
  <2>5. FindLike(db', Post(r), User(r)) = {}
    BY <2>1, <2>3, <2>4 DEF FindLike, FindLikes
  <2>6. \A i \in mine : db.likes[i].user = User(r) /\ db.likes[i].post = Post(r)
    BY <2>1 DEF FindLike, FindLikes
  <2>7. QED
    BY <1>8, <2>3, <2>4, <2>5, <2>6
<1>9. CASE Withdraw(r)
  <2>1. PICK mine : mine = OwnedBy(db.likes, User(r))
    OBVIOUS
  <2>2. db'.likes = SoftDelete(db.likes, mine)
    BY <1>1, <1>9, <2>1, WithdrawEffect
  <2>3. /\ DOMAIN db'.likes = DOMAIN db.likes
        /\ \A i \in DOMAIN db.likes :
             db'.likes[i] = IF i \in mine THEN [db.likes[i] EXCEPT !["live"] = FALSE]
                            ELSE db.likes[i]
    BY <2>2 DEF Write, SoftDelete
  <2>4. ASSUME NEW i \in DOMAIN db.likes
        PROVE  /\ db'.likes[i].user = db.likes[i].user
               /\ db'.likes[i].post = db.likes[i].post
               /\ db'.likes[i].by = db.likes[i].by
               /\ db'.likes[i].stored = db.likes[i].stored
    BY <1>2, <1>3, <2>3 DEF LikeRow
  <2>5. QED
    BY <1>5, <1>9, <2>3, <2>4
<1>10. QED
  BY <1>6, <1>7, <1>8, <1>9, TableWriters

\* The rows of new images.
LEMMA NewImageRows ==
  ASSUME NEW r, NEW p, NEW n \in Nat
  PROVE  /\ \E R : NewImages(r, p, n) \in Seq(R)
         /\ Len(NewImages(r, p, n)) = n
         /\ \A i \in 1 .. n :
              /\ NewImages(r, p, n)[i].post = p
              /\ NewImages(r, p, n)[i].by = r
              /\ NewImages(r, p, n)[i].live
              /\ NewImages(r, p, n)[i].thumb = (i = 1)
<1>1. PICK new : new = NewImages(r, p, n)
  OBVIOUS
<1>2. new = [i \in 1 .. n |-> new[i]]
  BY <1>1 DEF NewImages
<1>3. ASSUME NEW i \in 1 .. n
      PROVE  /\ new[i].post = p /\ new[i].by = r /\ new[i].live
             /\ new[i].thumb = (i = 1)
  <2>1. PICK b : b = (i = 1)
    OBVIOUS
  <2>2. new[i] = [post |-> p, thumb |-> b, live |-> TRUE, by |-> r]
    BY <1>1, <2>1 DEF NewImages
  <2>3. new[i].post = p /\ new[i].by = r /\ new[i].live /\ new[i].thumb = b
    BY <2>2
  <2>4. QED
    BY <2>1, <2>3
<1>4. PICK R : R = {new[i] : i \in 1 .. n}
  OBVIOUS
<1>5. \A i \in 1 .. n : new[i] \in R
  BY <1>4
<1>6. new \in Seq(R) /\ Len(new) = n
  BY <1>2, <1>5, FunctionIsSeq
<1>7. QED
  BY <1>1, <1>3, <1>6

\* The images after the rows of S went and n new ones of p came.
ImagesBecome(r, S, p, n) ==
  /\ \A i \in DOMAIN db.images :
       /\ i \in DOMAIN db'.images
       /\ db'.images[i].post = db.images[i].post
       /\ db'.images[i].thumb = db.images[i].thumb
       /\ db'.images[i].by = db.images[i].by
       /\ db'.images[i].live = (db.images[i].live /\ i \notin S)
  /\ \A i \in DOMAIN db'.images : i \notin DOMAIN db.images =>
       /\ i - Len(db.images) \in 1 .. n
       /\ db'.images[i].post = p /\ db'.images[i].by = r /\ db'.images[i].live
       /\ db'.images[i].thumb = (i - Len(db.images) = 1)
  /\ n > 0 => \E i \in DOMAIN db'.images : i \notin DOMAIN db.images

LEMMA DeletedImage ==
  ASSUME DataInv, NEW i \in DOMAIN db.images, NEW row,
         row = [db.images[i] EXCEPT !["live"] = FALSE]
  PROVE  /\ row \in ImageRow(PostIds, Writers)
         /\ row.post = db.images[i].post /\ row.thumb = db.images[i].thumb
         /\ row.by = db.images[i].by /\ row.live = FALSE
<1>1. PICK old : old = db.images[i]
  OBVIOUS
<1>2. old \in ImageRow(PostIds, Writers)
  BY <1>1, RowTypes
<1>3. row = [old EXCEPT !["live"] = FALSE]
  BY <1>1
<1>4. /\ row \in ImageRow(PostIds, Writers) /\ row.post = old.post
      /\ row.thumb = old.thumb /\ row.by = old.by /\ row.live = FALSE
  BY <1>2, <1>3 DEF ImageRow
<1>5. QED
  BY <1>1, <1>4

LEMMA ImagesAppended ==
  ASSUME DataInv, NEW r, NEW S, NEW p, NEW n \in Nat,
         db'.images = SoftDelete(db.images, S) \o NewImages(r, p, n)
  PROVE  ImagesBecome(r, S, p, n)
<1>1. PICK Row : Row = ImageRow(PostIds, Writers)
  OBVIOUS
<1>2. db.images \in Seq(Row)
  BY <1>1, RowTypes
<1>3. PICK gone : gone = SoftDelete(db.images, S)
  OBVIOUS
<1>4. gone = [i \in DOMAIN db.images |->
                IF i \in S THEN [db.images[i] EXCEPT !["live"] = FALSE]
                ELSE db.images[i]]
  BY <1>3 DEF SoftDelete, Write
<1>5. ASSUME NEW i \in DOMAIN db.images
      PROVE  /\ gone[i] \in Row
             /\ gone[i].post = db.images[i].post
             /\ gone[i].thumb = db.images[i].thumb
             /\ gone[i].by = db.images[i].by
             /\ gone[i].live = (db.images[i].live /\ i \notin S)
  <2>1. CASE i \in S
    <3>1. gone[i] = [db.images[i] EXCEPT !["live"] = FALSE]
      BY <1>4, <2>1
    <3>2. QED
      BY <1>1, <2>1, <3>1, DeletedImage
  <2>2. CASE i \notin S
    <3>1. gone[i] = db.images[i]
      BY <1>4, <2>2
    <3>2. db.images[i] \in Row /\ db.images[i].live \in BOOLEAN
      BY <1>1, RowTypes DEF ImageRow
    <3>3. QED
      BY <2>2, <3>1, <3>2
  <2>3. QED
    BY <2>1, <2>2
<1>6. /\ Len(db.images) \in Nat /\ DOMAIN db.images = 1 .. Len(db.images)
  BY <1>2
<1>7. gone = [i \in 1 .. Len(db.images) |-> gone[i]]
      /\ \A i \in 1 .. Len(db.images) : gone[i] \in Row
  BY <1>4, <1>5, <1>6
<1>8. gone \in Seq(Row) /\ Len(gone) = Len(db.images)
      /\ DOMAIN gone = DOMAIN db.images
  <2>1. gone \in Seq(Row) /\ Len(gone) = Len(db.images)
    BY <1>6, <1>7, FunctionIsSeq
  <2>2. DOMAIN gone = DOMAIN db.images
    BY <1>4
  <2>3. QED
    BY <2>1, <2>2
<1>9. PICK new : new = NewImages(r, p, n)
  OBVIOUS
<1>10. /\ Len(new) = n
       /\ \A i \in 1 .. n : /\ new[i].post = p /\ new[i].by = r /\ new[i].live
                            /\ new[i].thumb = (i = 1)
  BY <1>9, NewImageRows
<1>11. PICK R : new \in Seq(R)
  BY <1>9, NewImageRows
<1>12. PICK all : all = db'.images
  OBVIOUS
<1>13. all = gone \o new
  BY <1>3, <1>9, <1>12
<1>14. /\ DOMAIN all = 1 .. Len(gone) + Len(new)
       /\ \A i \in DOMAIN gone : i \in DOMAIN all /\ all[i] = gone[i]
       /\ \A i \in DOMAIN all : i \notin DOMAIN gone =>
            i - Len(gone) \in 1 .. Len(new) /\ all[i] = new[i - Len(gone)]
  BY <1>8, <1>11, <1>13, Concatenation
<1>15. n > 0 => \E i \in DOMAIN all : i \notin DOMAIN db.images
  <2>1. n > 0 => Len(db.images) + 1 \in 1 .. Len(db.images) + n
                 /\ Len(db.images) + 1 \notin DOMAIN db.images
    BY <1>6
  <2>2. DOMAIN all = 1 .. Len(db.images) + n
    BY <1>8, <1>10, <1>14
  <2>3. QED
    BY <2>1, <2>2
<1>16. \A i \in DOMAIN db.images :
         /\ i \in DOMAIN all
         /\ all[i].post = db.images[i].post
         /\ all[i].thumb = db.images[i].thumb
         /\ all[i].by = db.images[i].by
         /\ all[i].live = (db.images[i].live /\ i \notin S)
  BY <1>5, <1>8, <1>14
<1>17. ASSUME NEW i \in DOMAIN all, i \notin DOMAIN db.images
       PROVE  /\ i - Len(db.images) \in 1 .. n
              /\ all[i].post = p /\ all[i].by = r /\ all[i].live
              /\ all[i].thumb = (i - Len(db.images) = 1)
  <2>1. PICK k : k = i - Len(db.images)
    OBVIOUS
  <2>2. k \in 1 .. n /\ all[i] = new[k]
    BY <1>8, <1>10, <1>14, <1>17, <2>1
  <2>3. QED
    BY <1>10, <2>1, <2>2
<1>18. QED
  BY <1>12, <1>15, <1>16, <1>17 DEF ImagesBecome

\* No images come.
LEMMA ImagesDeleted ==
  ASSUME DataInv, NEW r, NEW S, NEW p, db'.images = SoftDelete(db.images, S)
  PROVE  ImagesBecome(r, S, p, 0)
<1>1. /\ DOMAIN db'.images = DOMAIN db.images
      /\ \A i \in DOMAIN db.images :
           db'.images[i] = IF i \in S THEN [db.images[i] EXCEPT !["live"] = FALSE]
                           ELSE db.images[i]
  BY DEF SoftDelete, Write
<1>2. ASSUME NEW i \in DOMAIN db.images
      PROVE  /\ db'.images[i].post = db.images[i].post
             /\ db'.images[i].thumb = db.images[i].thumb
             /\ db'.images[i].by = db.images[i].by
             /\ db'.images[i].live = (db.images[i].live /\ i \notin S)
  <2>1. CASE i \in S
    <3>1. db'.images[i] = [db.images[i] EXCEPT !["live"] = FALSE]
      BY <1>1, <2>1
    <3>2. QED
      BY <2>1, <3>1, DeletedImage
  <2>2. CASE i \notin S
    <3>1. db'.images[i] = db.images[i]
      BY <1>1, <2>2
    <3>2. db.images[i].live \in BOOLEAN
      BY RowTypes DEF ImageRow
    <3>3. QED
      BY <2>2, <3>1, <3>2
  <2>3. QED
    BY <2>1, <2>2
<1>3. QED
  BY <1>1, <1>2 DEF ImagesBecome

LEMMA ImagesKept ==
  ASSUME DataInv, NEW r \in Req, Handle(r)
  PROVE  \/ db'.images = db.images
         \/ /\ InsertPost(r) /\ plan[r].images \in Nat
            /\ ImagesBecome(r, {}, Len(db.posts) + 1, plan[r].images)
         \/ /\ FlushEdit(r) \/ CommitEdit(r)
            /\ plan[r].images \in Nat \ {0}
            /\ ImagesBecome(r, FindImages(db, Post(r)), Post(r), plan[r].images)
         \/ /\ DeleteProductPost(r)
            /\ ImagesBecome(r, FindImages(db, Post(r)), Post(r), 0)
         \/ /\ Withdraw(r)
            /\ ImagesBecome(r, UNION {FindImages(db, p) : p \in got[r]}, 0, 0)
<1>1. StoreInv /\ StageInv
  BY DEF DataInv
<1>2. CASE InsertPost(r)
  <2>1. pc[r] = "create"
    BY <1>2 DEF InsertPost
  <2>2. plan[r].images \in Nat
    BY <1>1, <2>1, RequestTypes DEF StageInv, StageOps, StoreInv
  <2>3. db'.images = db.images \o NewImages(r, Len(db.posts) + 1, plan[r].images)
    BY <1>1, <1>2, InsertPostEffect
  <2>4. SoftDelete(db.images, {}) = db.images
    <3>1. PICK rows : rows = db.images
      OBVIOUS
    <3>2. rows \in Seq(ImageRow(PostIds, Writers))
      BY <3>1, RowTypes
    <3>3. rows = [i \in DOMAIN rows |-> rows[i]]
      BY <3>2
    <3>4. SoftDelete(rows, {}) = rows
      BY <3>3 DEF SoftDelete, Write
    <3>5. QED
      BY <3>1, <3>4
  <2>5. QED
    BY <1>2, <2>2, <2>3, <2>4, ImagesAppended
<1>3. CASE FlushEdit(r) \/ CommitEdit(r)
  <2>1. pc[r] \in {"edit", "commit"}
    BY <1>3 DEF FlushEdit, CommitEdit
  <2>2. plan[r].images \in Nat
    BY <1>1, <2>1, RequestTypes DEF StageInv, StageOps, StoreInv
  <2>3. db' = db \/ db'.images = EditedImages(r)
    BY <1>1, <1>3, FlushEditEffect, CommitEditEffect
  <2>4. QED
    BY <1>3, <2>2, <2>3, ImagesAppended DEF EditedImages
<1>4. CASE DeleteProductPost(r)
  BY <1>1, <1>4, DeletePostEffect, ImagesDeleted
<1>5. CASE Withdraw(r)
  BY <1>1, <1>5, WithdrawEffect, ImagesDeleted
<1>6. QED
  BY <1>2, <1>3, <1>4, <1>5, TableWriters

LEMMA ConversationsKept ==
  ASSUME DataInv, NEW r \in Req, Handle(r)
  PROVE  /\ \A c \in ConversationIds :
              /\ c \in ConversationIds'
              /\ db'.conversations[c].post = db.conversations[c].post
              /\ db'.conversations[c].by = db.conversations[c].by
              /\ \/ db'.conversations[c] = db.conversations[c]
                 \/ /\ SaveMessage(r) /\ c = Conv(r)
                    /\ db'.conversations[c].sentAt = now
                    /\ db'.conversations[c].last = db.conversations[c].last + 1
         /\ \A c \in ConversationIds' : c \notin ConversationIds =>
              /\ InsertConversation(r) /\ c = Len(db.conversations) + 1
              /\ db'.conversations[c] = NewConversation(r)
         /\ InsertConversation(r) =>
              /\ Len(db.conversations) + 1 \in ConversationIds'
              /\ Len(db.conversations) + 1 \notin ConversationIds
         /\ SaveMessage(r) =>
              db'.conversations[Conv(r)].last = db.conversations[Conv(r)].last + 1
<1>1. StoreInv
  BY DEF DataInv
<1>2. PICK Row : Row = ConversationRow(PostIds, Writers)
  OBVIOUS
<1>3. db.conversations \in Seq(Row)
      /\ \A c \in DOMAIN db.conversations : db.conversations[c] \in Row
  BY <1>2, RowTypes DEF ConversationIds
<1>4. ~InsertConversation(r) \/ ~SaveMessage(r)
  BY DEF InsertConversation, SaveMessage, Step
<1>5. PICK rooms : rooms = db'.conversations
  OBVIOUS
<1>6. CASE InsertConversation(r)
  <2>1. PICK new : new = NewConversation(r)
    OBVIOUS
  <2>2. rooms = Append(db.conversations, new)
    BY <1>1, <1>5, <1>6, <2>1, InsertConversationEffect
  <2>3. /\ DOMAIN rooms = 1 .. Len(db.conversations) + 1
        /\ DOMAIN db.conversations = 1 .. Len(db.conversations)
        /\ Len(db.conversations) \in Nat
        /\ \A c \in DOMAIN db.conversations : rooms[c] = db.conversations[c]
        /\ rooms[Len(db.conversations) + 1] = new
    BY <1>3, <2>2, AppendRows
  <2>4. QED
    BY <1>4, <1>5, <1>6, <2>1, <2>3 DEF ConversationIds
<1>7. CASE SaveMessage(r)
  <2>1. PICK n : n = db.conversations[Conv(r)].last + 1
    OBVIOUS
  <2>2. PICK old : old = db.conversations[Conv(r)]
    OBVIOUS
  <2>3. PICK row : row = Spoken(old, n)
    OBVIOUS
  <2>4. /\ Conv(r) \in DOMAIN db.conversations
        /\ rooms = [db.conversations EXCEPT ![Conv(r)] = row]
    BY <1>1, <1>5, <1>7, <2>1, <2>2, <2>3, SaveMessageEffect DEF ConversationIds
  <2>5. row.post = old.post /\ row.by = old.by /\ row.sentAt = now /\ row.last = n
    <3>1. old \in Row
      BY <1>3, <2>2, <2>4
    <3>2. QED
      BY <1>2, <2>3, <3>1 DEF Spoken, ConversationRow
  <2>6. /\ DOMAIN rooms = DOMAIN db.conversations
        /\ \A c \in DOMAIN db.conversations :
             rooms[c] = IF c = Conv(r) THEN row ELSE db.conversations[c]
    BY <2>4
  <2>7. ASSUME NEW c \in DOMAIN db.conversations
        PROVE  /\ rooms[c].post = db.conversations[c].post
               /\ rooms[c].by = db.conversations[c].by
               /\ \/ rooms[c] = db.conversations[c]
                  \/ /\ c = Conv(r) /\ rooms[c].sentAt = now
                     /\ rooms[c].last = db.conversations[c].last + 1
    BY <2>1, <2>2, <2>5, <2>6
  <2>8. rooms[Conv(r)].last = db.conversations[Conv(r)].last + 1
    BY <2>1, <2>4, <2>5, <2>6
  <2>9. QED
    BY <1>4, <1>5, <1>7, <2>6, <2>7, <2>8 DEF ConversationIds
<1>8. CASE /\ db'.conversations = db.conversations
           /\ ~InsertConversation(r) /\ ~SaveMessage(r)
  BY <1>8 DEF ConversationIds
<1>9. CASE db'.conversations = db.conversations /\ InsertConversation(r)
  BY <1>6, <1>9
<1>10. QED
  BY <1>6, <1>7, <1>8, <1>9, TableWriters

LEMMA ParticipantsKept ==
  ASSUME DataInv, NEW r \in Req, Handle(r)
  PROVE  /\ \A i \in DOMAIN db.participants :
              /\ i \in DOMAIN db'.participants
              /\ db'.participants[i].conv = db.participants[i].conv
              /\ db'.participants[i].user = db.participants[i].user
              /\ db'.participants[i].blocking = db.participants[i].blocking
              /\ db'.participants[i].muted = db.participants[i].muted
              /\ db'.participants[i].live => db.participants[i].live
              /\ db.participants[i].live /\ ~db'.participants[i].live =>
                   Withdraw(r) /\ db.participants[i].user = User(r)
              /\ \/ db'.participants[i].leftAt = db.participants[i].leftAt
                 \/ /\ LeaveConversation(r) /\ i = got[r].row
                    /\ db'.participants[i].leftAt = got[r].at
         /\ \A i \in DOMAIN db'.participants : i \notin DOMAIN db.participants =>
              /\ InsertConversation(r)
              /\ db'.participants[i].conv = Len(db.conversations) + 1
              /\ db'.participants[i].user \in {User(r), db.posts[Post(r)].user}
              /\ \A j \in DOMAIN db'.participants : j \notin DOMAIN db.participants =>
                   (db'.participants[i].user = db'.participants[j].user => i = j)
         /\ InsertConversation(r) =>
              \E i \in DOMAIN db'.participants :
                /\ db'.participants[i].conv = Len(db.conversations) + 1
                /\ db'.participants[i].user = User(r)
<1>1. StoreInv /\ StageInv /\ GotInv
  BY DEF DataInv
<1>2. PICK Row : Row = ParticipantRow(UserIds, ConversationIds)
  OBVIOUS
<1>3. db.participants \in Seq(Row)
      /\ \A i \in DOMAIN db.participants : db.participants[i] \in Row
  BY <1>2, RowTypes
<1>4. PICK rows : rows = db'.participants
  OBVIOUS
<1>5. CASE InsertConversation(r)
  <2>1. PICK c : c = Len(db.conversations) + 1
    OBVIOUS
  <2>2. PICK one : one = NewParticipant(c, User(r))
    OBVIOUS
  <2>3. PICK two : two = NewParticipant(c, db.posts[Post(r)].user)
    OBVIOUS
  <2>4. PICK new : new = <<one, two>>
    OBVIOUS
  <2>5. rows = db.participants \o new
    BY <1>1, <1>4, <1>5, <2>1, <2>2, <2>3, <2>4, InsertConversationEffect
  <2>6. new \in Seq({one, two})
    BY <2>4
  <2>7. Len(new) = 2 /\ new[1] = one /\ new[2] = two
    BY <2>4
  <2>8. PICK old : old = db.participants
    OBVIOUS
  <2>9. old \in Seq(Row) /\ rows = old \o new
    BY <1>3, <2>5, <2>8
  <2>10. /\ Len(old) \in Nat /\ DOMAIN old = 1 .. Len(old)
         /\ DOMAIN rows = 1 .. Len(old) + Len(new)
         /\ \A i \in DOMAIN old : i \in DOMAIN rows /\ rows[i] = old[i]
         /\ \A i \in DOMAIN rows : i \notin DOMAIN old =>
              i - Len(old) \in 1 .. Len(new) /\ rows[i] = new[i - Len(old)]
    BY <2>6, <2>9, Concatenation
  <2>11. /\ one.conv = c /\ one.user = User(r)
         /\ two.conv = c /\ two.user = db.posts[Post(r)].user
    BY <2>2, <2>3 DEF NewParticipant
  <2>12. ASSUME NEW i \in DOMAIN rows, i \notin DOMAIN old
         PROVE  rows[i].conv = c /\ rows[i].user \in {User(r), db.posts[Post(r)].user}
    <3>1. PICK k : k = i - Len(old)
      OBVIOUS
    <3>2. (k = 1 \/ k = 2) /\ rows[i] = new[k]
      BY <2>7, <2>10, <2>12, <3>1
    <3>3. QED
      BY <2>7, <2>11, <3>2
  <2>13. User(r) # db.posts[Post(r)].user
    <3>1. pc[r] = "insert"
      BY <1>5 DEF InsertConversation
    <3>2. ~IsOwner(db, Post(r), User(r))
      BY <1>1, <3>1 DEF StageInv, StageOps, GotInv, GotOk
    <3>3. QED
      BY <3>2 DEF IsOwner
  <2>14. ASSUME NEW i \in DOMAIN rows, i \notin DOMAIN old,
                NEW j \in DOMAIN rows, j \notin DOMAIN old,
                rows[i].user = rows[j].user
         PROVE  i = j
    <3>1. PICK k, l : k = i - Len(old) /\ l = j - Len(old)
      OBVIOUS
    <3>2. k \in {1, 2} /\ l \in {1, 2} /\ rows[i] = new[k] /\ rows[j] = new[l]
      BY <2>7, <2>10, <2>14, <3>1
    <3>3. k = l
      BY <2>7, <2>11, <2>13, <2>14, <3>2
    <3>4. i \in Nat /\ j \in Nat
      BY <2>7, <2>10, <2>14
    <3>5. QED
      BY <2>10, <3>1, <3>3, <3>4
  <2>15. \E i \in DOMAIN rows : rows[i].conv = c /\ rows[i].user = User(r)
    <3>1. PICK i : i = Len(old) + 1
      OBVIOUS
    <3>2. i \in DOMAIN rows /\ i \notin DOMAIN old /\ i - Len(old) = 1
      BY <2>7, <2>10, <3>1
    <3>3. QED
      BY <2>7, <2>10, <2>11, <3>2
  <2>16. \A i \in DOMAIN db.participants :
           i \in DOMAIN rows /\ rows[i] = db.participants[i]
    BY <2>8, <2>10
  <2>17. ASSUME NEW i \in DOMAIN db.participants
         PROVE  /\ i \in DOMAIN db'.participants
                /\ db'.participants[i] = db.participants[i]
    BY <1>4, <2>16
  <2>18. ASSUME NEW i \in DOMAIN db'.participants, i \notin DOMAIN db.participants
         PROVE  /\ db'.participants[i].conv = Len(db.conversations) + 1
                /\ db'.participants[i].user \in {User(r), db.posts[Post(r)].user}
                /\ \A j \in DOMAIN db'.participants : j \notin DOMAIN db.participants =>
                     (db'.participants[i].user = db'.participants[j].user => i = j)
    BY <1>4, <2>1, <2>8, <2>12, <2>18, <2>14
  <2>19. \E i \in DOMAIN db'.participants :
           /\ db'.participants[i].conv = Len(db.conversations) + 1
           /\ db'.participants[i].user = User(r)
    BY <1>4, <2>1, <2>15
  <2>20. QED
    BY <1>5, <2>17, <2>18, <2>19
<1>6. CASE LeaveConversation(r)
  <2>1. PICK k : k = got[r].row
    OBVIOUS
  <2>2. PICK at : at = got[r].at
    OBVIOUS
  <2>3. PICK left : left = [db.participants[k] EXCEPT !["leftAt"] = at]
    OBVIOUS
  <2>4. /\ k \in DOMAIN db.participants
        /\ rows = [db.participants EXCEPT ![k] = left]
    BY <1>1, <1>4, <1>6, <2>1, <2>2, <2>3, LeaveEffect
       DEF LeaveConversation, GotInv, GotOk
  <2>5. /\ left.conv = db.participants[k].conv
        /\ left.user = db.participants[k].user
        /\ left.blocking = db.participants[k].blocking
        /\ left.muted = db.participants[k].muted
        /\ left.live = db.participants[k].live /\ left.leftAt = at
    <3>1. PICK old : old = db.participants[k]
      OBVIOUS
    <3>2. old \in Row /\ left = [old EXCEPT !["leftAt"] = at]
      BY <1>3, <2>3, <2>4, <3>1
    <3>3. QED
      BY <1>2, <3>1, <3>2 DEF ParticipantRow
  <2>6. /\ DOMAIN rows = DOMAIN db.participants
        /\ \A i \in DOMAIN db.participants :
             rows[i] = IF i = k THEN left ELSE db.participants[i]
    BY <2>4
  <2>7. ~InsertConversation(r)
    BY <1>6 DEF LeaveConversation, InsertConversation, Step
  <2>8. QED
    BY <1>4, <1>6, <2>1, <2>2, <2>5, <2>6, <2>7
<1>7. CASE Withdraw(r)
  <2>1. PICK mine : mine = OwnedBy(db.participants, User(r))
    OBVIOUS
  <2>2. rows = SoftDelete(db.participants, mine)
    BY <1>1, <1>4, <1>7, <2>1, WithdrawEffect
  <2>3. /\ DOMAIN rows = DOMAIN db.participants
        /\ \A i \in DOMAIN db.participants :
             rows[i] = IF i \in mine
                       THEN [db.participants[i] EXCEPT !["live"] = FALSE]
                       ELSE db.participants[i]
    BY <2>2 DEF SoftDelete, Write
  <2>4. ASSUME NEW i \in DOMAIN db.participants
        PROVE  /\ rows[i].conv = db.participants[i].conv
               /\ rows[i].user = db.participants[i].user
               /\ rows[i].blocking = db.participants[i].blocking
               /\ rows[i].muted = db.participants[i].muted
               /\ rows[i].live => db.participants[i].live
               /\ rows[i].leftAt = db.participants[i].leftAt
               /\ i \notin mine => rows[i] = db.participants[i]
    <3>1. PICK old : old = db.participants[i]
      OBVIOUS
    <3>2. old \in Row
      BY <1>3, <3>1
    <3>3. rows[i] = [old EXCEPT !["live"] = FALSE] \/ rows[i] = old
      BY <2>3, <3>1
    <3>4. QED
      BY <1>2, <2>3, <3>1, <3>2, <3>3 DEF ParticipantRow
  <2>5. \A i \in mine : db.participants[i].user = User(r)
    BY <2>1 DEF OwnedBy
  <2>6. ~InsertConversation(r)
    BY <1>7 DEF Withdraw, InsertConversation, Step
  <2>7. QED
    BY <1>4, <1>7, <2>3, <2>4, <2>5, <2>6
<1>8. CASE db'.participants = db.participants /\ ~InsertConversation(r)
  BY <1>8
<1>9. QED
  BY <1>5, <1>6, <1>7, <1>8, TableWriters

LEMMA MessagesKept ==
  ASSUME DataInv, NEW r \in Req, Handle(r)
  PROVE  /\ \A m \in DOMAIN db.messages :
              m \in DOMAIN db'.messages /\ db'.messages[m] = db.messages[m]
         /\ \A m \in DOMAIN db'.messages : m \notin DOMAIN db.messages =>
              /\ SaveMessage(r)
              /\ db'.messages[m]
                   = NewMessage(r, db.conversations[Conv(r)].last + 1)
         /\ SaveMessage(r) => \E m \in DOMAIN db'.messages :
              db'.messages[m] = NewMessage(r, db.conversations[Conv(r)].last + 1)
<1>1. StoreInv
  BY DEF DataInv
<1>2. PICK Row : db.messages \in Seq(Row)
  BY RowTypes
<1>3. CASE SaveMessage(r)
  <2>1. PICK new : new = NewMessage(r, db.conversations[Conv(r)].last + 1)
    OBVIOUS
  <2>2. db'.messages = Append(db.messages, new)
    BY <1>1, <1>3, <2>1, SaveMessageEffect
  <2>3. QED
    BY <1>2, <1>3, <2>1, <2>2, AppendRows
<1>4. QED
  BY <1>3, TableWriters

-----------------------------------------------------------------------------
(* Which steps an operation has.                                           *)

LEMMA HandlerOps ==
  ASSUME DataInv, NEW r \in Req, Handle(r)
  PROVE  /\ Op(r) = "edit" =>
              \/ NotifyProductPostUpdate(r) \/ SendMessageBatch(r)
              \/ ReadPost(r) \/ FlushEdit(r) \/ CommitEdit(r)
         /\ Op(r) = "create" => ReadAuthor(r) \/ InsertPost(r)
         /\ Op(r) = "hide" => ReadOwnPost(r) \/ HideProductPost(r)
         /\ Op(r) = "unhide" => ReadOwnPost(r) \/ HideProductPost(r)
         /\ Op(r) = "delete" => ReadOwnPost(r) \/ DeleteProductPost(r)
         /\ Op(r) = "like" => ReadLike(r) \/ InsertLike(r)
         /\ Op(r) = "unlike" => DeleteLike(r)
         /\ Op(r) = "withdraw" => ReadWithdrawing(r) \/ Withdraw(r)
         /\ Op(r) = "createConversation" =>
              \/ ReadTopic(r) \/ ReadSeller(r)
              \/ FindExistingConversation(r) \/ InsertConversation(r)
         /\ Op(r) = "leave" => ReadLeaver(r) \/ LeaveConversation(r)
         /\ Op(r) = "permission" =>
              \/ ReadSender(r) \/ ReadWhetherClosed(r)
              \/ CheckSendMessagePermission(r)
         /\ Op(r) = "send" =>
              \/ LoadParticipants(r) \/ SaveMessage(r)
              \/ MissConversation(r) \/ ReadOnlineUsers(r)
              \/ BuildPushMessages(r) \/ SendPushMessages(r) \/ Emit(r)
         /\ Op(r) = "settings" => ReadSettings(r) \/ UpdateSettings(r)
         /\ Op(r) = "detail" => ReadDetail(r) \/ ReadRest(r)
         /\ Op(r) = "tradable" => GetTradableUsers(r)
         /\ Op(r) \in Lists =>
              \/ AskForPage(r) \/ ReadFilter(r) \/ ReadPage(r)
              \/ FindByIdsIncludingDeleted(r) \/ CountLikes(r)
              \/ CountConversations(r) \/ FindLiked(r)
         /\ Op(r) \in Paging =>
              \/ JoinRoom(r) \/ ReadConversation(r) \/ ReadReader(r)
              \/ ReadStatuses(r) \/ ReadMessages(r)
<1>. StageInv
  BY DEF DataInv
<1>1. NotifyProductPostUpdate(r) => Op(r) \in {"edit"}
  BY DEF NotifyProductPostUpdate, Step, Refuse, StageInv, StageOps
<1>2. SendMessageBatch(r) => Op(r) \in {"edit"}
  BY DEF SendMessageBatch, Step, Refuse, StageInv, StageOps
<1>3. FindNotification(r) => Op(r) \in {"readNotification"}
  BY DEF FindNotification, Step, Refuse, StageInv, StageOps
<1>4. MarkNotificationAsRead(r) => Op(r) \in {"readNotification"}
  BY DEF MarkNotificationAsRead, Step, Refuse, StageInv, StageOps
<1>5. DeleteNotifications(r) => Op(r) \in {"deleteNotifications", "deleteAllNotifications"}
  BY DEF DeleteNotifications, Step, Refuse, StageInv, StageOps
<1>6. ReadSettings(r) => Op(r) \in {"getSettings", "settings"}
  BY DEF ReadSettings, Step, Refuse, StageInv, StageOps
<1>7. UpdateSettings(r) => Op(r) \in {"settings"}
  BY DEF UpdateSettings, Step, Refuse, StageInv, StageOps
<1>8. ReadAuthor(r) => Op(r) \in {"create"}
  BY DEF ReadAuthor, Step, Refuse, StageInv, StageOps
<1>9. InsertPost(r) => Op(r) \in {"create"}
  BY DEF InsertPost, Step, Refuse, StageInv, StageOps
<1>10. ReadPost(r) => Op(r) \in {"edit"}
  BY DEF ReadPost, Step, Refuse, StageInv, StageOps
<1>11. FlushEdit(r) => Op(r) \in {"edit"}
  BY DEF FlushEdit, Step, Refuse, StageInv, StageOps
<1>12. CommitEdit(r) => Op(r) \in {"edit"}
  BY DEF CommitEdit, Step, Refuse, StageInv, StageOps
<1>13. ReadOwnPost(r) => Op(r) \in {"hide", "unhide", "delete"}
  BY DEF ReadOwnPost, Step, Refuse, StageInv, StageOps
<1>14. HideProductPost(r) => Op(r) \in {"hide", "unhide"}
  BY DEF HideProductPost, Step, Refuse, StageInv, StageOps
<1>15. DeleteProductPost(r) => Op(r) \in {"delete"}
  BY DEF DeleteProductPost, Step, Refuse, StageInv, StageOps
<1>16. ReadLike(r) => Op(r) \in {"like"}
  BY DEF ReadLike, Step, Refuse, StageInv, StageOps
<1>17. InsertLike(r) => Op(r) \in {"like"}
  BY DEF InsertLike, Step, Refuse, StageInv, StageOps
<1>18. DeleteLike(r) => Op(r) \in {"unlike"}
  BY DEF DeleteLike, Step, Refuse, StageInv, StageOps
<1>19. ReadDetail(r) => Op(r) \in {"detail"}
  BY DEF ReadDetail, Step, Refuse, StageInv, StageOps
<1>20. ReadRest(r) => Op(r) \in {"detail"}
  BY DEF ReadRest, Step, Refuse, StageInv, StageOps
<1>21. ReadWithdrawing(r) => Op(r) \in {"withdraw"}
  BY DEF ReadWithdrawing, Step, Refuse, StageInv, StageOps
<1>22. Withdraw(r) => Op(r) \in {"withdraw"}
  BY DEF Withdraw, Step, Refuse, StageInv, StageOps
<1>23. AskForPage(r) => Op(r) \in Lists
  BY DEF AskForPage, Step, Refuse, StageInv, StageOps, Awaits
<1>24. ReadFilter(r) => Op(r) \in Lists
  BY DEF ReadFilter, Step, Refuse, StageInv, StageOps, Awaits
<1>25. ReadPage(r) => Op(r) \in Lists
  BY DEF ReadPage, Step, Refuse, StageInv, StageOps, Awaits
<1>26. FindByIdsIncludingDeleted(r) => Op(r) \in Lists
  BY DEF FindByIdsIncludingDeleted, Step, Refuse, StageInv, StageOps, Awaits
<1>27. CountLikes(r) => Op(r) \in Lists
  BY DEF CountLikes, Step, Refuse, StageInv, StageOps, Awaits
<1>28. CountConversations(r) => Op(r) \in Lists
  BY DEF CountConversations, Step, Refuse, StageInv, StageOps, Awaits
<1>29. FindLiked(r) => Op(r) \in Lists
  BY DEF FindLiked, Step, Refuse, StageInv, StageOps, Awaits
<1>30. FindCategories(r) => Op(r) \in {"categories"}
  BY DEF FindCategories, Step, Refuse, StageInv, StageOps
<1>31. GetPriceRange(r) => Op(r) \in {"priceRange"}
  BY DEF GetPriceRange, Step, Refuse, StageInv, StageOps
<1>32. GetTradableUsers(r) => Op(r) \in {"tradable"}
  BY DEF GetTradableUsers, Step, Refuse, StageInv, StageOps
<1>33. GetTradeProgress(r) => Op(r) \in {"tradeProgress"}
  BY DEF GetTradeProgress, Step, Refuse, StageInv, StageOps
<1>34. ReadTopic(r) => Op(r) \in {"createConversation"}
  BY DEF ReadTopic, Step, Refuse, StageInv, StageOps
<1>35. ReadSeller(r) => Op(r) \in {"createConversation"}
  BY DEF ReadSeller, Step, Refuse, StageInv, StageOps
<1>36. FindExistingConversation(r) => Op(r) \in {"createConversation"}
  BY DEF FindExistingConversation, Step, Refuse, StageInv, StageOps
<1>37. InsertConversation(r) => Op(r) \in {"createConversation"}
  BY DEF InsertConversation, Step, Refuse, StageInv, StageOps
<1>38. JoinRoom(r) => Op(r) \in {"enter"}
  BY DEF JoinRoom, Step, Refuse, StageInv, StageOps
<1>39. ReadConversation(r) => Op(r) \in Paging
  BY DEF ReadConversation, Step, Refuse, StageInv, StageOps, Paging
<1>40. ReadReader(r) => Op(r) \in Paging
  BY DEF ReadReader, Step, Refuse, StageInv, StageOps, Paging
<1>41. ReadStatuses(r) => Op(r) \in Paging
  BY DEF ReadStatuses, Step, Refuse, StageInv, StageOps, Paging
<1>42. ReadMessages(r) => Op(r) \in Paging
  BY DEF ReadMessages, Step, Refuse, StageInv, StageOps, Paging
<1>43. ReadLeaver(r) => Op(r) \in {"leave"}
  BY DEF ReadLeaver, Step, Refuse, StageInv, StageOps
<1>44. LeaveConversation(r) => Op(r) \in {"leave"}
  BY DEF LeaveConversation, Step, Refuse, StageInv, StageOps
<1>45. ReadSender(r) => Op(r) \in {"permission"}
  BY DEF ReadSender, Step, Refuse, StageInv, StageOps
<1>46. ReadWhetherClosed(r) => Op(r) \in {"permission"}
  BY DEF ReadWhetherClosed, Step, Refuse, StageInv, StageOps
<1>47. CheckSendMessagePermission(r) => Op(r) \in {"permission"}
  BY DEF CheckSendMessagePermission, Step, Refuse, StageInv, StageOps
<1>48. LoadParticipants(r) => Op(r) \in {"send"}
  BY DEF LoadParticipants, Step, Refuse, StageInv, StageOps
<1>49. SaveMessage(r) => Op(r) \in {"send"}
  BY DEF SaveMessage, Step, Refuse, StageInv, StageOps
<1>50. MissConversation(r) => Op(r) \in {"send"}
  BY DEF MissConversation, Step, Refuse, StageInv, StageOps
<1>51. ReadOnlineUsers(r) => Op(r) \in {"send"}
  BY DEF ReadOnlineUsers, Step, Refuse, StageInv, StageOps
<1>52. BuildPushMessages(r) => Op(r) \in {"send"}
  BY DEF BuildPushMessages, Step, Refuse, StageInv, StageOps
<1>53. SendPushMessages(r) => Op(r) \in {"send"}
  BY DEF SendPushMessages, Step, Refuse, StageInv, StageOps
<1>54. Emit(r) => Op(r) \in {"send"}
  BY DEF Emit, Step, Refuse, StageInv, StageOps
<1>55. QED
  BY <1>1, <1>2, <1>3, <1>4, <1>5, <1>6, <1>7, <1>8, <1>9, <1>10, <1>11, <1>12,
     <1>13, <1>14, <1>15, <1>16, <1>17, <1>18, <1>19, <1>20, <1>21, <1>22,
     <1>23, <1>24, <1>25, <1>26, <1>27, <1>28, <1>29, <1>30, <1>31, <1>32,
     <1>33, <1>34, <1>35, <1>36, <1>37, <1>38, <1>39, <1>40, <1>41, <1>42,
     <1>43, <1>44, <1>45, <1>46, <1>47, <1>48, <1>49, <1>50, <1>51, <1>52,
     <1>53, <1>54
     DEF Handle, FanoutNext, PostsNext, ListingNext, ConversationsNext, Lists,
         OfPosts, Paging

LEMMA HandleMoves ==
  ASSUME DataInv, NEW r \in Req, Handle(r)
  PROVE  /\ RequestInv /\ Moves(r) /\ Advances(r) /\ DataInv'
         /\ ~Ended(r) /\ plan' = plan /\ Req' = Req
<1>1. Advances(r) /\ RequestInv
  BY HandleAdvances DEF DataInv
<1>2. QED
  BY <1>1, DataHandle DEF Advances, Moves, Ended, Req

\* Requests that met stay so ...
LEMMA MetKept ==
  ASSUME DataInv, NEW r \in Req, Moves(r)
  PROVE  \A p, q \in Req : Met(p, q) => Met(p, q)'
BY MetStays DEF DataInv

\* ... and one that runs when another makes a step has met that one.
LEMMA MovingMeet ==
  ASSUME DataInv, NEW r \in Req, Advances(r), NEW q \in Req, q # r, Running(q)
  PROVE  Met(q, r)' /\ Met(r, q)'
<1>1. /\ RequestInv /\ Moves(r) /\ RequestInv'
      /\ pc'[r] # "idle" /\ Req' = Req
  BY MovesKeeps DEF DataInv, Advances, Moves, Req
<1>2. pc'[q] = pc[q] /\ past'[q] = past[q] /\ ~Ended(q) /\ pc[q] # "idle"
  BY <1>1, OthersStay DEF Running, Ended
<1>3. r \notin past[q] /\ r \notin past'[q]
  BY <1>1, <1>2 DEF RequestInv, Moves, Ended
<1>4. ~Ended(q)' /\ pc'[q] # "idle"
  BY <1>2 DEF Ended
<1>5. q \notin past'[r]
  BY <1>1, <1>4 DEF RequestInv
<1>6. QED
  BY <1>1, <1>3, <1>4, <1>5 DEF Met

\* Nothing but the clock, or the failure of a handler.
Still ==
  /\ plan' = plan /\ db' = db /\ past' = past /\ Req' = Req
  /\ online' = online /\ emitted' = emitted /\ queued' = queued
  /\ \A q \in Req : \/ pc'[q] = pc[q] /\ got'[q] = got[q]
                    \/ pc'[q] = "failed" /\ Running(q)
  /\ \A p, q \in Req : Met(p, q) => Met(p, q)'

LEMMA StillStep ==
  ASSUME DataInv, [Next]_marketVars
  PROVE  Still \/ \E r \in Req : Handle(r)
<1>1. ASSUME NEW r \in Req, Fail(r) PROVE Still
  <2>1. RequestInv /\ Moves(r) /\ pc'[r] = "failed"
    BY <1>1, FailMoves DEF DataInv
  <2>2. /\ plan' = plan /\ db' = db /\ past' = past /\ Req' = Req
        /\ online' = online /\ emitted' = emitted /\ queued' = queued
    BY <1>1, FailMoves
  <2>3. Running(r)
    BY <1>1 DEF Fail, Abort
  <2>4. \A q \in Req : \/ pc'[q] = pc[q] /\ got'[q] = got[q]
                       \/ pc'[q] = "failed" /\ Running(q)
    BY <2>1, <2>3, OthersStay
  <2>5. QED
    BY <2>1, <2>2, <2>4, MetKept DEF Still
<1>2. CASE Tick \/ UNCHANGED marketVars
  <2>1. UNCHANGED <<plan, pc, got, past, db, online, emitted, queued>>
    BY <1>2 DEF Tick, marketVars, requestVars
  <2>2. QED
    BY <2>1 DEF Still, Req, Met
<1>3. QED
  BY <1>1, <1>2 DEF Next

\* What is found of likes after a step was found before, or is the new row.
LEMMA FoundLikes ==
  ASSUME DataInv, NEW r \in Req, Handle(r), NEW p, NEW u,
         NEW i \in FindLike(db', p, u)
  PROVE  \/ i \in FindLike(db, p, u) /\ db'.likes[i].by = db.likes[i].by
         \/ /\ InsertLike(r) /\ p = Post(r) /\ u = User(r)
            /\ i = Len(db.likes) + 1 /\ db'.likes[i].by = r
<1>1. /\ i \in DOMAIN db'.likes /\ db'.likes[i].stored
      /\ db'.likes[i].post = p /\ db'.likes[i].user = u
  BY DEF FindLike, FindLikes
<1>2. CASE i \in DOMAIN db.likes
  <2>1. /\ db.likes[i].stored /\ db.likes[i].post = p /\ db.likes[i].user = u
        /\ db'.likes[i].by = db.likes[i].by
    BY <1>1, <1>2, LikesKept
  <2>2. QED
    BY <1>2, <2>1 DEF FindLike, FindLikes
<1>3. CASE i \notin DOMAIN db.likes
  <2>1. InsertLike(r) /\ i = Len(db.likes) + 1 /\ db'.likes[i] = NewLike(r)
    BY <1>1, <1>3, LikesKept
  <2>2. QED
    BY <1>1, <2>1 DEF NewLike
<1>4. QED
  BY <1>2, <1>3

-----------------------------------------------------------------------------
(* Likes.                                                                  *)

\* Whoever is about to insert a like found none: what there is by now is of
\* likes that met it.
LikeInv ==
  /\ \A r \in Req : pc[r] = "like" =>
       \A i \in FindLike(db, Post(r), User(r)) :
         \E q \in Req : db.likes[i].by = q /\ Op(q) = "like" /\ Met(q, r)
  /\ LikesUnique

LEMMA LikeStart ==
  ASSUME Init
  PROVE  LikeInv
<1>1. /\ db = StartDb /\ \A r \in Req : pc[r] = "idle"
  BY DEF Init, RequestsInit
<1>2. ASSUME NEW p \in PostIds, NEW u \in UserIds, NEW i \in FindLike(db, p, u),
             NEW j \in FindLike(db, p, u)
      PROVE  i = j
  BY <1>1, <1>2, StartAssumption DEF PostIds, UserIds
<1>3. QED
  BY <1>1, <1>2 DEF LikeInv, LikesUnique, Done

LEMMA LikeStill ==
  ASSUME LikeInv, Still
  PROVE  LikeInv'
<1>1. \A q \in Req : /\ Op(q)' = Op(q) /\ Post(q)' = Post(q) /\ User(q)' = User(q)
                     /\ pc'[q] = "like" => pc[q] = "like"
                     /\ Done(q)' => Done(q)
  BY DEF Still, Op, Post, User, Done
<1>2. ASSUME NEW q \in Req, pc'[q] = "like", NEW i \in FindLike(db', Post(q), User(q))
      PROVE  \E s \in Req : db'.likes[i].by = s /\ Op(s) = "like" /\ Met(s, q)'
  <2>1. pc[q] = "like" /\ i \in FindLike(db, Post(q), User(q)) /\ db' = db
    BY <1>1, <1>2 DEF Still
  <2>2. PICK s \in Req : db.likes[i].by = s /\ Op(s) = "like" /\ Met(s, q)
    BY <2>1 DEF LikeInv
  <2>3. QED
    BY <2>1, <2>2 DEF Still
<1>3. LikesUnique'
  <2>1. ASSUME NEW p \in PostIds, NEW u \in UserIds, NEW i \in FindLike(db, p, u),
               NEW j \in FindLike(db, p, u), i # j
        PROVE  \E q, r \in Req : Op(q)' = "like" /\ Op(r)' = "like" /\ Met(q, r)'
    BY <1>1, <2>1 DEF LikeInv, LikesUnique, Still
  <2>2. ASSUME NEW q \in Req, Op(q)' = "unlike", Done(q)',
               NEW i \in FindLike(db, Post(q), User(q))
        PROVE  db.likes[i].by \in Req \ past[q]
    BY <1>1, <2>2 DEF LikeInv, LikesUnique
  <2>3. PostIds' = PostIds /\ UserIds' = UserIds
    BY DEF Still, PostIds, UserIds
  <2>4. QED
    BY <1>1, <2>1, <2>2, <2>3 DEF LikesUnique, Still
<1>4. QED
  BY <1>1, <1>2, <1>3 DEF LikeInv, Still

LEMMA LikeHandle ==
  ASSUME DataInv, LikeInv, NEW r \in Req, Handle(r)
  PROVE  LikeInv'
<1>1. /\ RequestInv /\ StageInv /\ Moves(r) /\ Advances(r) /\ ~Ended(r)
      /\ plan' = plan /\ Req' = Req
  BY HandleMoves DEF DataInv
<1>2. \A q \in Req : Op(q)' = Op(q) /\ Post(q)' = Post(q) /\ User(q)' = User(q)
  BY <1>1 DEF Op, Post, User
<1>3. ASSUME NEW q \in Req, pc'[q] = "like",
             NEW i \in FindLike(db', Post(q), User(q))
      PROVE  \E s \in Req : db'.likes[i].by = s /\ Op(s) = "like" /\ Met(s, q)'
  <2>1. CASE q = r
    <3>1. Op(r) = "like"
      BY <1>1, <1>3, <2>1 DEF Advances, StageOps
    <3>2. ReadLike(r)
      <4>1. ~InsertLike(r)
        BY <1>1, <1>3, <2>1, StepMoves DEF InsertLike, Ends
      <4>2. QED
        BY <3>1, <4>1, HandlerOps
    <3>3. Step(r, "idle", "like", None) \/ Refuse(r, "idle")
      BY <3>2 DEF ReadLike
    <3>4. ~Refuse(r, "idle")
      BY <1>1, <1>3, <2>1, StepMoves DEF Refuse, Ends
    <3>5. FindLike(db, Post(r), User(r)) = {} /\ db' = db
      BY <3>2, <3>4 DEF ReadLike, OnlyReads, NoWrite
    <3>6. QED
      BY <1>3, <2>1, <3>5
  <2>2. CASE q # r
    <3>1. pc[q] = "like" /\ Running(q)
      BY <1>1, <1>3, <2>2, OthersStay DEF Running, Ends
    <3>2. CASE i \in FindLike(db, Post(q), User(q)) /\ db'.likes[i].by = db.likes[i].by
      <4>1. PICK s \in Req : db.likes[i].by = s /\ Op(s) = "like" /\ Met(s, q)
        BY <3>1, <3>2 DEF LikeInv
      <4>2. QED
        BY <1>1, <3>2, <4>1, MetKept
    <3>3. CASE InsertLike(r) /\ db'.likes[i].by = r
      <4>1. Op(r) = "like"
        BY <1>1, <3>3 DEF InsertLike, Step, StageInv, StageOps
      <4>2. Met(r, q)'
        BY <1>1, <2>2, <3>1, MovingMeet
      <4>3. QED
        BY <3>3, <4>1, <4>2
    <3>4. QED
      BY <3>2, <3>3, FoundLikes
  <2>3. QED
    BY <2>1, <2>2
<1>4. ASSUME NEW p, NEW u, NEW i \in FindLike(db', p, u),
             NEW j \in FindLike(db', p, u), i # j
      PROVE  \E q, s \in Req : Op(q) = "like" /\ Op(s) = "like" /\ Met(q, s)'
  <2>1. CASE i \in FindLike(db, p, u) /\ j \in FindLike(db, p, u)
    <3>1. p \in PostIds /\ u \in UserIds
      BY <2>1, RowTypes DEF FindLike, FindLikes, LikeRow
    <3>2. PICK q \in Req, s \in Req : Op(q) = "like" /\ Op(s) = "like" /\ Met(q, s)
      BY <1>4, <2>1, <3>1 DEF LikeInv, LikesUnique
    <3>3. QED
      BY <1>1, <3>2, MetKept
  <2>2. ASSUME NEW k \in FindLike(db, p, u), InsertLike(r), p = Post(r), u = User(r)
        PROVE  \E q, s \in Req : Op(q) = "like" /\ Op(s) = "like" /\ Met(q, s)'
    <3>1. pc[r] = "like" /\ Op(r) = "like"
      BY <1>1, <2>2 DEF InsertLike, Step, StageInv, StageOps
    <3>2. PICK q \in Req : Op(q) = "like" /\ Met(q, r)
      BY <2>2, <3>1 DEF LikeInv
    <3>3. QED
      BY <1>1, <3>1, <3>2, MetKept
  <2>3. QED
    BY <1>4, <2>1, <2>2, FoundLikes
<1>5. ASSUME NEW q \in Req, Op(q) = "unlike", Done(q)',
             NEW i \in FindLike(db', Post(q), User(q))
      PROVE  db'.likes[i].by \in Req \ past'[q]
  <2>1. CASE q = r
    <3>1. DeleteLike(r)
      BY <1>5, <2>1, HandlerOps
    <3>2. QED
      BY <1>5, <2>1, <3>1, LikesKept
  <2>2. CASE q # r
    <3>1. Done(q) /\ past'[q] = past[q]
      BY <1>1, <1>5, <2>2, OthersStay DEF Done
    <3>2. r \notin past[q]
      BY <1>1 DEF RequestInv
    <3>3. CASE i \in FindLike(db, Post(q), User(q)) /\ db'.likes[i].by = db.likes[i].by
      BY <1>5, <3>1, <3>3 DEF LikeInv, LikesUnique
    <3>4. QED
      BY <3>1, <3>2, <3>3, FoundLikes
  <2>3. QED
    BY <2>1, <2>2
<1>6. LikesUnique'
  BY <1>1, <1>2, <1>4, <1>5 DEF LikesUnique
<1>7. QED
  BY <1>1, <1>2, <1>3, <1>6 DEF LikeInv

\* A user likes a post once but for like requests that met, since each looks
\* for a like before it inserts one; and when an unlike is done, the user's
\* likes of the post are of requests that it did not follow.
THEOREM LikesInvariant == Spec => []LikeInv
<1>1. Init => LikeInv
  BY LikeStart
<1>2. DataInv /\ LikeInv /\ [Next]_marketVars => LikeInv'
  BY StillStep, LikeStill, LikeHandle
<1>3. QED
  BY <1>1, <1>2, DataInvariant, PTL DEF Spec

-----------------------------------------------------------------------------
(* Images.                                                                 *)

MetDeath(q) ==
  \E x \in Req : Op(x) \in {"delete", "withdraw"} /\ Met(x, q)
MetWithdrawal(q) == \E x \in Req : Op(x) = "withdraw" /\ Met(x, q)

Editing == {"edit", "notify", "push", "commit"}

\* A live post with images shows some, one of them as its thumbnail; a dead
\* one shows none, a dead user's post is dead.  The exceptions come from
\* handlers that saw the post or the user alive and met the request that ended
\* it: those that edit, create, or withdraw with posts they did not find.
PostInv(p) ==
  /\ \A i, j \in Thumbnails(db, p) : i = j
  /\ \A i \in DOMAIN db.images :
       db.images[i].post = p /\ FindPost(db, p) => FindImages(db, p) # {}
  /\ ~FindPost(db, p) => \A i \in FindImages(db, p) :
       \E q \in Req : db.images[i].by = q /\ MetDeath(q)
  /\ FindPost(db, p) /\ ~FindById(db, db.posts[p].user) =>
       \E q \in Req : db.posts[p].by = q /\ MetWithdrawal(q)

\* What the withdrawal of r did not find.
Unfound(r) ==
  \A p \in LiveRows(db.posts) : IsOwner(db, p, User(r)) /\ p \notin got[r] =>
    \A i \in FindImages(db, p) : \E q \in Req : db.images[i].by = q /\ Met(q, r)

ImageInv ==
  /\ \A p \in PostIds : PostInv(p)
  /\ \A r \in Req : /\ pc[r] = "withdraw" => Unfound(r)
                    /\ pc[r] \in Editing /\ ~FindPost(db, Post(r)) => MetDeath(r)
                    /\ pc[r] = "create" /\ ~FindById(db, User(r)) => MetWithdrawal(r)

LEMMA PostsEnded ==
  ASSUME DataInv, NEW r \in Req, Handle(r)
  PROVE  /\ DeleteProductPost(r) => ~FindPost(db', Post(r))
         /\ Withdraw(r) => \A p \in PostIds :
              db.posts[p].user = User(r) => ~FindPost(db', p)
<1>1. StoreInv /\ StageInv
  BY DEF DataInv
<1>2. ASSUME NEW S, db'.posts = SoftDelete(db.posts, S), NEW p \in DOMAIN db.posts,
             p \in S \/ ~db.posts[p].live
      PROVE  ~FindPost(db', p)
  <2>1. PICK old : old = db.posts[p]
    OBVIOUS
  <2>2. old \in PostRow(UserIds, Writers)
    BY <2>1, RowTypes DEF PostIds
  <2>3. db'.posts[p] = IF p \in S THEN [old EXCEPT !["live"] = FALSE] ELSE old
    BY <1>2, <2>1 DEF SoftDelete, Write
  <2>4. ~db'.posts[p].live
    BY <1>2, <2>1, <2>2, <2>3 DEF PostRow
  <2>5. QED
    BY <2>4 DEF FindPost, LiveRows
<1>3. DeleteProductPost(r) => ~FindPost(db', Post(r))
  <2>1. SUFFICES ASSUME DeleteProductPost(r) PROVE ~FindPost(db', Post(r))
    OBVIOUS
  <2>2. db'.posts = SoftDelete(db.posts, {Post(r)})
    BY <1>1, <2>1, DeletePostEffect
  <2>3. CASE Post(r) \in DOMAIN db.posts
    BY <1>2, <2>2, <2>3
  <2>4. CASE Post(r) \notin DOMAIN db.posts
    BY <2>2, <2>4 DEF FindPost, LiveRows, SoftDelete, Write
  <2>5. QED
    BY <2>3, <2>4
<1>4. ASSUME Withdraw(r), NEW p \in PostIds, db.posts[p].user = User(r)
      PROVE  ~FindPost(db', p)
  <2>1. db'.posts = SoftDelete(db.posts, OwnedBy(db.posts, User(r)))
    BY <1>1, <1>4, WithdrawEffect
  <2>2. p \in OwnedBy(db.posts, User(r)) \/ ~db.posts[p].live
    BY <1>4 DEF OwnedBy, LiveRows, PostIds
  <2>3. QED
    BY <1>2, <2>1, <2>2 DEF PostIds
<1>5. QED
  BY <1>3, <1>4

LEMMA PostsFound ==
  ASSUME DataInv, NEW r \in Req, Handle(r), NEW p \in PostIds
  PROVE  /\ p \in PostIds'
         /\ FindPost(db', p) => FindPost(db, p)
         /\ FindPost(db, p) /\ ~FindPost(db', p) =>
              \/ DeleteProductPost(r) /\ p = Post(r)
              \/ Withdraw(r) /\ db.posts[p].user = User(r)
         /\ db'.posts[p].user = db.posts[p].user /\ db'.posts[p].by = db.posts[p].by
<1>1. p \in DOMAIN db.posts /\ p \in DOMAIN db'.posts
  BY PostsKept DEF PostIds
<1>2. QED
  BY <1>1, PostsKept DEF FindPost, LiveRows, PostIds

LEMMA UsersFound ==
  ASSUME DataInv, NEW r \in Req, Handle(r), NEW u \in UserIds
  PROVE  /\ FindById(db', u) => FindById(db, u)
         /\ FindById(db, u) /\ ~FindById(db', u) => Withdraw(r) /\ u = User(r)
BY UsersKept DEF FindById, LiveRows, UserIds

\* A new post, of a new number.
LEMMA PostAdded ==
  ASSUME DataInv, NEW r \in Req, Handle(r), NEW p \in PostIds', p \notin PostIds
  PROVE  /\ InsertPost(r) /\ p = Len(db.posts) + 1
         /\ FindPost(db', p) /\ db'.posts[p].user = User(r) /\ db'.posts[p].by = r
<1>1. InsertPost(r) /\ p = Len(db.posts) + 1 /\ db'.posts[p] = NewPost(r)
  BY PostsKept
<1>2. QED
  BY <1>1 DEF FindPost, LiveRows, PostIds, NewPost


\* What a deletion and a withdrawal do to the images.
LEMMA ImagesGone ==
  ASSUME DataInv, NEW r \in Req, Handle(r)
  PROVE  /\ DeleteProductPost(r) =>
              ImagesBecome(r, FindImages(db, Post(r)), Post(r), 0)
         /\ Withdraw(r) =>
              ImagesBecome(r, UNION {FindImages(db, p) : p \in got[r]}, 0, 0)
<1>1. StoreInv /\ StageInv
  BY DEF DataInv
<1>2. QED
  BY <1>1, DeletePostEffect, WithdrawEffect, ImagesDeleted

\* A row of before that is found after a step was found before it.
LEMMA OldImage ==
  ASSUME DataInv, NEW r \in Req, Handle(r), NEW p, NEW i \in FindImages(db', p),
         i \in DOMAIN db.images
  PROVE  /\ i \in FindImages(db, p) /\ p \in PostIds
         /\ db'.images[i].by = db.images[i].by
         /\ db'.images[i].thumb = db.images[i].thumb
         /\ DeleteProductPost(r) => p # Post(r)
         /\ Withdraw(r) => p \notin got[r]
<1>1. db'.images[i].live /\ db'.images[i].post = p
  BY DEF FindImages, LiveRows
<1>2. /\ db.images[i].live /\ db.images[i].post = p
      /\ db'.images[i].by = db.images[i].by
      /\ db'.images[i].thumb = db.images[i].thumb
  BY <1>1, ImagesKept DEF ImagesBecome
<1>3. i \in FindImages(db, p) /\ p \in PostIds
  BY <1>2, RowTypes DEF FindImages, LiveRows, ImageRow
<1>4. ASSUME DeleteProductPost(r) PROVE p # Post(r)
  <2>1. i \notin FindImages(db, Post(r))
    BY <1>1, <1>4, ImagesGone DEF ImagesBecome
  <2>2. QED
    BY <1>3, <2>1
<1>5. ASSUME Withdraw(r) PROVE p \notin got[r]
  <2>1. i \notin UNION {FindImages(db, q) : q \in got[r]}
    BY <1>1, <1>5, ImagesGone DEF ImagesBecome
  <2>2. QED
    BY <1>3, <2>1
<1>6. QED
  BY <1>2, <1>3, <1>4, <1>5

\* A new row is of a new post, or replaces those of an edited one.
LEMMA NewImage ==
  ASSUME DataInv, NEW r \in Req, Handle(r),
         NEW i \in DOMAIN db'.images, i \notin DOMAIN db.images
  PROVE  /\ i \in FindImages(db', db'.images[i].post)
         /\ db'.images[i].by = r
         /\ db'.images[i].thumb = (i - Len(db.images) = 1)
         /\ i - Len(db.images) \in Nat
         /\ \/ InsertPost(r) /\ db'.images[i].post = Len(db.posts) + 1
            \/ /\ FlushEdit(r) \/ CommitEdit(r)
               /\ db'.images[i].post = Post(r)
               /\ \A j \in FindImages(db', Post(r)) : j \notin DOMAIN db.images
<1>1. db'.images # db.images
  OBVIOUS
<1>2. CASE /\ InsertPost(r) /\ plan[r].images \in Nat
           /\ ImagesBecome(r, {}, Len(db.posts) + 1, plan[r].images)
  BY <1>2 DEF ImagesBecome, FindImages, LiveRows
<1>3. CASE /\ FlushEdit(r) \/ CommitEdit(r)
           /\ plan[r].images \in Nat \ {0}
           /\ ImagesBecome(r, FindImages(db, Post(r)), Post(r), plan[r].images)
  <2>1. ASSUME NEW j \in FindImages(db', Post(r)), j \in DOMAIN db.images PROVE FALSE
    <3>1. j \notin FindImages(db, Post(r))
      BY <1>3, <2>1 DEF ImagesBecome, FindImages, LiveRows
    <3>2. QED
      BY <2>1, <3>1, OldImage
  <2>2. QED
    BY <1>3, <2>1 DEF ImagesBecome, FindImages, LiveRows
<1>4. CASE DeleteProductPost(r)
  BY <1>4, ImagesGone DEF ImagesBecome
<1>5. CASE Withdraw(r)
  BY <1>5, ImagesGone DEF ImagesBecome
<1>6. QED
  BY <1>1, <1>2, <1>3, <1>4, <1>5, ImagesKept

\* What is found before a step is found after it, or was replaced or removed.
LEMMA KeptImage ==
  ASSUME DataInv, NEW r \in Req, Handle(r), NEW p, NEW i \in FindImages(db, p)
  PROVE  \/ i \in FindImages(db', p)
         \/ /\ FlushEdit(r) \/ CommitEdit(r)
            /\ p = Post(r) /\ FindImages(db', p) # {}
         \/ DeleteProductPost(r) /\ p = Post(r)
         \/ Withdraw(r) /\ p \in got[r]
<1>1. i \in DOMAIN db.images /\ db.images[i].live /\ db.images[i].post = p
  BY DEF FindImages, LiveRows
<1>2. CASE db'.images = db.images
  BY <1>1, <1>2 DEF FindImages, LiveRows
<1>3. CASE InsertPost(r) /\ ImagesBecome(r, {}, Len(db.posts) + 1, plan[r].images)
  BY <1>1, <1>3 DEF FindImages, LiveRows, ImagesBecome
<1>4. CASE /\ FlushEdit(r) \/ CommitEdit(r)
           /\ plan[r].images \in Nat \ {0}
           /\ ImagesBecome(r, FindImages(db, Post(r)), Post(r), plan[r].images)
  <2>1. CASE p = Post(r)
    <3>1. PICK j \in DOMAIN db'.images : j \notin DOMAIN db.images
      BY <1>4 DEF ImagesBecome
    <3>2. j \in FindImages(db', p)
      BY <1>4, <2>1, <3>1 DEF ImagesBecome, FindImages, LiveRows
    <3>3. QED
      BY <1>4, <2>1, <3>2
  <2>2. CASE p # Post(r)
    BY <1>1, <1>4, <2>2 DEF FindImages, LiveRows, ImagesBecome
  <2>3. QED
    BY <2>1, <2>2
<1>5. CASE DeleteProductPost(r)
  <2>1. p # Post(r) => i \notin FindImages(db, Post(r))
    BY <1>1 DEF FindImages
  <2>2. QED
    BY <1>1, <1>5, <2>1, ImagesGone DEF FindImages, LiveRows, ImagesBecome
<1>6. CASE Withdraw(r)
  <2>1. p \notin got[r] => i \notin UNION {FindImages(db, q) : q \in got[r]}
    BY <1>1 DEF FindImages
  <2>2. QED
    BY <1>1, <1>6, <2>1, ImagesGone DEF FindImages, LiveRows, ImagesBecome
<1>7. QED
  BY <1>2, <1>3, <1>4, <1>5, <1>6, ImagesKept

LEMMA ImageStart ==
  ASSUME Init
  PROVE  ImageInv
<1>1. /\ db = StartDb /\ \A r \in Req : pc[r] = "idle"
  BY DEF Init, RequestsInit
<1>2. ASSUME NEW p \in PostIds PROVE PostInv(p)
  BY <1>1, <1>2, StartAssumption DEF PostInv, PostIds, IsOwner
<1>3. QED
  BY <1>1, <1>2 DEF ImageInv, Editing

LEMMA ImageStill ==
  ASSUME ImageInv, Still
  PROVE  ImageInv'
<1>1. \A q \in Req : /\ Op(q)' = Op(q) /\ Post(q)' = Post(q) /\ User(q)' = User(q)
  BY DEF Still, Op, Post, User
<1>2. db' = db /\ Req' = Req /\ PostIds' = PostIds
  BY DEF Still, PostIds
<1>3. ASSUME NEW q \in Req
      PROVE  /\ MetDeath(q) => MetDeath(q)'
             /\ MetWithdrawal(q) => MetWithdrawal(q)'
  BY <1>1 DEF MetDeath, MetWithdrawal, Still
<1>4. ASSUME NEW p \in PostIds PROVE PostInv(p)'
  <2>1. PostInv(p)
    BY DEF ImageInv
  <2>2. ASSUME ~FindPost(db, p), NEW i \in FindImages(db, p)
        PROVE  \E q \in Req : db.images[i].by = q /\ MetDeath(q)'
    BY <1>3, <2>1, <2>2 DEF PostInv
  <2>3. ASSUME FindPost(db, p), ~FindById(db, db.posts[p].user)
        PROVE  \E q \in Req : db.posts[p].by = q /\ MetWithdrawal(q)'
    BY <1>3, <2>1, <2>3 DEF PostInv
  <2>4. QED
    BY <1>2, <2>1, <2>2, <2>3 DEF PostInv
<1>5. ASSUME NEW r \in Req
      PROVE  /\ pc'[r] = "withdraw" => Unfound(r)'
             /\ pc'[r] \in Editing /\ ~FindPost(db, Post(r)) => MetDeath(r)'
             /\ pc'[r] = "create" /\ ~FindById(db, User(r)) => MetWithdrawal(r)'
  <2>1. (pc'[r] = pc[r] /\ got'[r] = got[r]) \/ pc'[r] = "failed"
    BY DEF Still
  <2>2. ASSUME pc'[r] = "withdraw", NEW p \in LiveRows(db.posts),
               IsOwner(db, p, User(r)), p \notin got'[r], NEW i \in FindImages(db, p)
        PROVE  \E q \in Req : db.images[i].by = q /\ Met(q, r)'
    <3>1. Unfound(r) /\ got'[r] = got[r]
      BY <2>1, <2>2 DEF ImageInv
    <3>2. PICK q \in Req : db.images[i].by = q /\ Met(q, r)
      BY <2>2, <3>1 DEF Unfound
    <3>3. QED
      BY <3>2 DEF Still
  <2>3. pc'[r] = "withdraw" => Unfound(r)'
    BY <1>1, <1>2, <2>2 DEF Unfound
  <2>4. QED
    BY <1>3, <2>1, <2>3 DEF ImageInv, Editing
<1>6. QED
  BY <1>1, <1>2, <1>4, <1>5 DEF ImageInv

\* A post there is stays right, ...
LEMMA PostStays ==
  ASSUME DataInv, ImageInv, NEW r \in Req, Handle(r), NEW p \in PostIds
  PROVE  PostInv(p)'
<1>1. /\ StoreInv /\ StageInv /\ Moves(r) /\ Req' = Req /\ plan' = plan
  BY HandleMoves DEF DataInv
<1>2. PostInv(p)
  BY DEF ImageInv
<1>3. ASSUME NEW q \in Req
      PROVE  /\ MetDeath(q) => MetDeath(q)'
             /\ MetWithdrawal(q) => MetWithdrawal(q)'
  BY <1>1, MetKept DEF MetDeath, MetWithdrawal, Op
<1>4. ~(InsertPost(r) /\ p = Len(db.posts) + 1)
  <2>1. Len(db.posts) \in Nat /\ PostIds = 1 .. Len(db.posts)
    BY RowTypes DEF PostIds
  <2>2. QED
    BY <2>1
<1>5. ASSUME NEW i \in Thumbnails(db', p), NEW j \in Thumbnails(db', p)
      PROVE  i = j
  <2>1. /\ i \in FindImages(db', p) /\ db'.images[i].thumb
        /\ j \in FindImages(db', p) /\ db'.images[j].thumb
        /\ i \in DOMAIN db'.images /\ db'.images[i].post = p
        /\ j \in DOMAIN db'.images /\ db'.images[j].post = p
    BY DEF Thumbnails, FindImages, LiveRows
  <2>2. CASE i \in DOMAIN db.images /\ j \in DOMAIN db.images
    <3>1. i \in Thumbnails(db, p) /\ j \in Thumbnails(db, p)
      BY <2>1, <2>2, OldImage DEF Thumbnails
    <3>2. QED
      BY <1>2, <3>1 DEF PostInv
  <2>3. CASE i \notin DOMAIN db.images
    <3>1. i - Len(db.images) = 1 /\ p = Post(r)
          /\ \A k \in FindImages(db', p) : k \notin DOMAIN db.images
      BY <1>4, <2>1, <2>3, NewImage
    <3>2. j - Len(db.images) = 1
      BY <2>1, <3>1, NewImage
    <3>3. Len(db.images) \in Nat /\ i \in Nat /\ j \in Nat
      <4>1. db.images \in Seq(ImageRow(PostIds, Writers))
        BY RowTypes
      <4>2. DataInv'
        BY HandleMoves
      <4>3. PICK all : all = db'.images
        OBVIOUS
      <4>4. all \in Seq(ImageRow(PostIds', Writers'))
        BY <4>2, <4>3 DEF DataInv, StoreInv, Tables
      <4>5. DOMAIN all \subseteq Nat
        BY <4>4
      <4>6. QED
        BY <2>1, <4>1, <4>3, <4>5
    <3>4. QED
      BY <3>1, <3>2, <3>3
  <2>4. CASE j \notin DOMAIN db.images
    <3>1. j - Len(db.images) = 1 /\ p = Post(r)
          /\ \A k \in FindImages(db', p) : k \notin DOMAIN db.images
      BY <1>4, <2>1, <2>4, NewImage
    <3>2. i \notin DOMAIN db.images
      BY <2>1, <3>1
    <3>3. QED
      BY <2>3, <3>2
  <2>5. QED
    BY <2>2, <2>3, <2>4
<1>6. ASSUME NEW i \in DOMAIN db'.images, db'.images[i].post = p, FindPost(db', p)
      PROVE  FindImages(db', p) # {}
  <2>1. CASE i \notin DOMAIN db.images
    BY <1>6, <2>1, NewImage
  <2>2. CASE i \in DOMAIN db.images
    <3>1. db.images[i].post = p
      BY <1>6, <2>2, ImagesKept DEF ImagesBecome
    <3>2. PICK j : j \in FindImages(db, p)
      BY <1>2, <1>6, <2>2, <3>1, PostsFound DEF PostInv
    <3>3. ~(DeleteProductPost(r) /\ p = Post(r))
      BY <1>6, PostsEnded
    <3>4. ~(Withdraw(r) /\ p \in got[r])
      <4>1. SUFFICES ASSUME Withdraw(r), p \in got[r] PROVE FALSE
        OBVIOUS
      <4>2. db.posts[p].user = User(r)
        BY <4>1 DEF DataInv, GotInv, GotOk, Withdraw, IsOwner
      <4>3. QED
        BY <1>6, <4>1, <4>2, PostsEnded
    <3>5. QED
      BY <3>2, <3>3, <3>4, KeptImage
  <2>3. QED
    BY <2>1, <2>2
<1>7. ASSUME ~FindPost(db', p), NEW i \in FindImages(db', p)
      PROVE  \E q \in Req : db'.images[i].by = q /\ MetDeath(q)'
  <2>1. i \in DOMAIN db'.images /\ db'.images[i].post = p
    BY DEF FindImages, LiveRows
  <2>2. CASE i \notin DOMAIN db.images
    <3>1. /\ FlushEdit(r) \/ CommitEdit(r)
          /\ p = Post(r) /\ db'.images[i].by = r
      BY <1>4, <2>1, <2>2, NewImage
    <3>2. pc[r] \in Editing /\ Op(r) = "edit"
      <4>1. pc[r] \in {"edit", "commit"}
        BY <3>1 DEF FlushEdit, CommitEdit
      <4>2. QED
        BY <1>1, <4>1 DEF Editing, StageInv, StageOps
    <3>3. ~FindPost(db, p)
      <4>1. ~DeleteProductPost(r) /\ ~Withdraw(r)
        BY <1>1, <3>2 DEF DeleteProductPost, Withdraw, StageInv, StageOps
      <4>2. QED
        BY <1>7, <4>1, PostsFound
    <3>4. MetDeath(r)
      BY <3>1, <3>2, <3>3 DEF ImageInv
    <3>5. QED
      BY <1>3, <3>1, <3>4
  <2>3. CASE i \in DOMAIN db.images
    <3>1. /\ i \in FindImages(db, p) /\ db'.images[i].by = db.images[i].by
          /\ DeleteProductPost(r) => p # Post(r)
          /\ Withdraw(r) => p \notin got[r]
      BY <2>3, OldImage
    <3>2. CASE ~FindPost(db, p)
      <4>1. PICK q \in Req : db.images[i].by = q /\ MetDeath(q)
        BY <1>2, <3>1, <3>2 DEF PostInv
      <4>2. QED
        BY <1>3, <3>1, <4>1
    <3>3. CASE FindPost(db, p)
      <4>1. Withdraw(r) /\ db.posts[p].user = User(r)
        BY <1>7, <3>1, <3>3, PostsFound
      <4>2. pc[r] = "withdraw" /\ Op(r) = "withdraw"
        BY <1>1, <4>1 DEF Withdraw, StageInv, StageOps
      <4>3. Unfound(r)
        BY <4>2 DEF ImageInv
      <4>4. PICK q \in Req : db.images[i].by = q /\ Met(q, r)
        BY <3>1, <3>3, <4>1, <4>3 DEF Unfound, FindPost, IsOwner
      <4>5. MetDeath(q)
        BY <4>2, <4>4 DEF MetDeath, Met
      <4>6. QED
        BY <1>3, <3>1, <4>4, <4>5
    <3>4. QED
      BY <3>2, <3>3
  <2>4. QED
    BY <2>2, <2>3
<1>8. ASSUME FindPost(db', p), ~FindById(db', db'.posts[p].user)
      PROVE  \E q \in Req : db'.posts[p].by = q /\ MetWithdrawal(q)'
  <2>1. /\ FindPost(db, p) /\ db'.posts[p].user = db.posts[p].user
        /\ db'.posts[p].by = db.posts[p].by
    BY <1>8, PostsFound
  <2>2. db.posts[p].user \in UserIds
    BY RowTypes DEF PostRow
  <2>3. ~FindById(db, db.posts[p].user)
    <3>1. SUFFICES ASSUME FindById(db, db.posts[p].user) PROVE FALSE
      OBVIOUS
    <3>2. Withdraw(r) /\ db.posts[p].user = User(r)
      BY <1>8, <2>1, <2>2, <3>1, UsersFound
    <3>3. QED
      BY <1>8, <3>2, PostsEnded
  <2>4. PICK q \in Req : db.posts[p].by = q /\ MetWithdrawal(q)
    BY <1>2, <2>1, <2>3 DEF PostInv
  <2>5. QED
    BY <1>3, <2>1, <2>4
<1>9. QED
  BY <1>1, <1>5, <1>6, <1>7, <1>8 DEF PostInv

\* ... and so is a new one.
LEMMA PostStarts ==
  ASSUME DataInv, ImageInv, NEW r \in Req, Handle(r),
         NEW p \in PostIds', p \notin PostIds
  PROVE  PostInv(p)'
<1>1. /\ StoreInv /\ StageInv /\ Moves(r) /\ Req' = Req /\ plan' = plan
  BY HandleMoves DEF DataInv
<1>2. /\ InsertPost(r) /\ p = Len(db.posts) + 1
      /\ FindPost(db', p) /\ db'.posts[p].user = User(r) /\ db'.posts[p].by = r
  BY PostAdded
<1>3. ASSUME NEW i \in DOMAIN db'.images, db'.images[i].post = p
      PROVE  i \notin DOMAIN db.images
  <2>1. SUFFICES ASSUME i \in DOMAIN db.images PROVE FALSE
    OBVIOUS
  <2>2. db.images[i].post = p
    BY <1>3, <2>1, ImagesKept DEF ImagesBecome
  <2>3. QED
    BY <2>1, <2>2, RowTypes DEF ImageRow
<1>4. ASSUME NEW i \in Thumbnails(db', p), NEW j \in Thumbnails(db', p)
      PROVE  i = j
  <2>1. /\ i \in DOMAIN db'.images /\ db'.images[i].post = p /\ db'.images[i].thumb
        /\ j \in DOMAIN db'.images /\ db'.images[j].post = p /\ db'.images[j].thumb
    BY DEF Thumbnails, FindImages, LiveRows
  <2>2. i - Len(db.images) = 1 /\ j - Len(db.images) = 1
    BY <1>3, <2>1, NewImage
  <2>3. Len(db.images) \in Nat /\ i \in Nat /\ j \in Nat
    <3>1. db.images \in Seq(ImageRow(PostIds, Writers))
      BY RowTypes
    <3>2. DataInv'
      BY HandleMoves
    <3>3. PICK all : all = db'.images
      OBVIOUS
    <3>4. all \in Seq(ImageRow(PostIds', Writers'))
      BY <3>2, <3>3 DEF DataInv, StoreInv, Tables
    <3>5. DOMAIN all \subseteq Nat
      BY <3>4
    <3>6. QED
      BY <2>1, <3>1, <3>3, <3>5
  <2>4. QED
    BY <2>2, <2>3
<1>5. ASSUME NEW i \in DOMAIN db'.images, db'.images[i].post = p
      PROVE  FindImages(db', p) # {}
  BY <1>3, <1>5, NewImage
<1>6. ASSUME ~FindById(db', User(r)) PROVE MetWithdrawal(r)'
  <2>1. pc[r] = "create" /\ Op(r) = "create"
    BY <1>1, <1>2 DEF InsertPost, StageInv, StageOps
  <2>2. User(r) \in UserIds
    <3>1. plan \in Plans /\ UserIds = UserIdsAtStart
      BY <1>1 DEF StoreInv
    <3>2. User(r) \in DOMAIN StartDb.users
      BY <2>1, <3>1, RequestTypes
    <3>3. QED
      BY <3>1, <3>2 DEF UserIdsAtStart
  <2>3. ~Withdraw(r)
    BY <1>1, <2>1 DEF Withdraw, StageInv, StageOps
  <2>4. MetWithdrawal(r)
    BY <1>6, <2>1, <2>2, <2>3, UsersFound DEF ImageInv
  <2>5. QED
    BY <1>1, <2>4, MetKept DEF MetWithdrawal, Op
<1>7. QED
  BY <1>1, <1>2, <1>4, <1>5, <1>6 DEF PostInv

LEMMA ImageHandle ==
  ASSUME DataInv, ImageInv, NEW r \in Req, Handle(r)
  PROVE  ImageInv'
<1>1. /\ RequestInv /\ StoreInv /\ StageInv /\ GotInv
      /\ Moves(r) /\ Advances(r) /\ ~Ended(r) /\ Req' = Req /\ plan' = plan
  BY HandleMoves DEF DataInv
<1>2. \A q \in Req : /\ Op(q)' = Op(q) /\ Post(q)' = Post(q) /\ User(q)' = User(q)
  BY <1>1 DEF Op, Post, User
<1>3. \A p \in PostIds' : PostInv(p)'
  BY PostStays, PostStarts
<1>4. ASSUME NEW q \in Req
      PROVE  /\ MetDeath(q) => MetDeath(q)'
             /\ MetWithdrawal(q) => MetWithdrawal(q)'
  BY <1>1, <1>2, MetKept DEF MetDeath, MetWithdrawal
<1>5. ASSUME NEW q \in Req, q # r
      PROVE  /\ pc'[q] = pc[q] /\ got'[q] = got[q]
             /\ pc[q] \notin Ends \cup {"idle"} => Met(q, r)' /\ Met(r, q)'
  BY <1>1, <1>5, OthersStay, MovingMeet DEF Running
<1>6. ASSUME NEW q \in Req, pc'[q] = "withdraw",
             NEW p \in LiveRows(db'.posts), IsOwner(db', p, User(q)),
             p \notin got'[q], NEW i \in FindImages(db', p)
      PROVE  \E s \in Req : db'.images[i].by = s /\ Met(s, q)'
  <2>1. CASE q = r
    <3>1. Op(r) = "withdraw"
      BY <1>1, <1>6, <2>1 DEF Advances, StageOps
    <3>2. ReadWithdrawing(r)
      <4>1. ~Withdraw(r)
        BY <1>1, <1>6, <2>1, StepMoves DEF Withdraw, Ends
      <4>2. QED
        BY <3>1, <4>1, HandlerOps
    <3>3. ~Refuse(r, "idle")
      BY <1>1, <1>6, <2>1, StepMoves DEF Refuse, Ends
    <3>4. /\ got'[r] = {s \in LiveRows(db.posts) : IsOwner(db, s, User(r))}
          /\ db' = db
      BY <1>1, <3>2, <3>3, StepMoves
         DEF ReadWithdrawing, OnlyReads, NoWrite, Ends
    <3>5. QED
      BY <1>6, <2>1, <3>4
  <2>2. CASE q # r
    <3>1. pc[q] = "withdraw" /\ p \notin got[q] /\ Unfound(q) /\ Met(r, q)'
      BY <1>5, <1>6, <2>2 DEF ImageInv, Ends
    <3>2. i \in DOMAIN db'.images
      BY DEF FindImages, LiveRows
    <3>3. CASE i \notin DOMAIN db.images
      BY <3>1, <3>2, <3>3, NewImage
    <3>4. CASE i \in DOMAIN db.images
      <4>1. /\ i \in FindImages(db, p) /\ p \in PostIds
            /\ db'.images[i].by = db.images[i].by
        BY <3>4, OldImage
      <4>2. p \in LiveRows(db.posts) /\ IsOwner(db, p, User(q))
        BY <1>6, <4>1, PostsFound DEF FindPost, IsOwner
      <4>3. PICK s \in Req : db.images[i].by = s /\ Met(s, q)
        BY <3>1, <4>1, <4>2 DEF Unfound
      <4>4. QED
        BY <1>1, <4>1, <4>3, MetKept
    <3>5. QED
      BY <3>3, <3>4
  <2>3. QED
    BY <2>1, <2>2
<1>7. ASSUME NEW q \in Req, pc'[q] = "withdraw" PROVE Unfound(q)'
  <2>1. User(q)' = User(q)
    BY <1>2
  <2>2. QED
    BY <1>1, <1>6, <1>7, <2>1 DEF Unfound
<1>8. ASSUME NEW q \in Req, pc'[q] \in Editing, ~FindPost(db', Post(q))
      PROVE  MetDeath(q)'
  <2>1. CASE q = r
    <3>1. Op(r) = "edit"
      BY <1>1, <1>8, <2>1 DEF Advances, Editing, StageOps
    <3>2. ~ReadPost(r)
      <4>1. SUFFICES ASSUME ReadPost(r) PROVE FALSE
        OBVIOUS
      <4>2. ~Refuse(r, "idle")
        BY <1>1, <1>8, <2>1, StepMoves DEF Refuse, Ends, Editing
      <4>3. FindPost(db, Post(r)) /\ db' = db
        BY <4>1, <4>2 DEF ReadPost, MayUpdate, OnlyReads, NoWrite
      <4>4. QED
        BY <1>8, <2>1, <4>3
    <3>3. pc[r] \in Editing
      <4>1. NotifyProductPostUpdate(r) \/ SendMessageBatch(r)
              \/ FlushEdit(r) \/ CommitEdit(r)
        BY <3>1, <3>2, HandlerOps
      <4>2. NotifyProductPostUpdate(r) => pc[r] = "notify"
        BY DEF NotifyProductPostUpdate
      <4>3. SendMessageBatch(r) => pc[r] = "push"
        BY DEF SendMessageBatch, Step
      <4>4. FlushEdit(r) => pc[r] = "edit"
        BY DEF FlushEdit
      <4>5. CommitEdit(r) => pc[r] = "commit"
        BY DEF CommitEdit
      <4>6. QED
        BY <4>1, <4>2, <4>3, <4>4, <4>5 DEF Editing
    <3>4. Post(r) \in PostIds
      BY <1>1, <3>3 DEF GotInv, GotOk, Editing
    <3>5. ~DeleteProductPost(r) /\ ~Withdraw(r)
      BY <1>1, <3>1 DEF DeleteProductPost, Withdraw, StageInv, StageOps
    <3>6. ~FindPost(db, Post(r))
      BY <1>8, <2>1, <3>4, <3>5, PostsFound
    <3>7. QED
      BY <1>4, <2>1, <3>3, <3>6 DEF ImageInv
  <2>2. CASE q # r
    <3>1. pc[q] \in Editing /\ Met(r, q)'
      BY <1>5, <1>8, <2>2 DEF Editing, Ends
    <3>2. CASE ~FindPost(db, Post(q))
      BY <1>4, <3>1, <3>2 DEF ImageInv
    <3>3. CASE FindPost(db, Post(q))
      <4>1. Post(q) \in PostIds
        BY <1>1, <3>1 DEF GotInv, GotOk, Editing
      <4>2. DeleteProductPost(r) \/ Withdraw(r)
        BY <1>8, <3>3, <4>1, PostsFound
      <4>3. Op(r) \in {"delete", "withdraw"}
        BY <1>1, <4>2 DEF DeleteProductPost, Withdraw, StageInv, StageOps
      <4>4. QED
        BY <1>1, <1>2, <3>1, <4>3 DEF MetDeath
    <3>4. QED
      BY <3>2, <3>3
  <2>3. QED
    BY <2>1, <2>2
<1>9. ASSUME NEW q \in Req, pc'[q] = "create", ~FindById(db', User(q))
      PROVE  MetWithdrawal(q)'
  <2>1. CASE q = r
    <3>1. Op(r) = "create"
      BY <1>1, <1>9, <2>1 DEF Advances, StageOps
    <3>2. ReadAuthor(r)
      <4>1. ~InsertPost(r)
        BY <1>1, <1>9, <2>1, StepMoves DEF InsertPost, Ends
      <4>2. QED
        BY <3>1, <4>1, HandlerOps
    <3>3. ~Refuse(r, "idle")
      BY <1>1, <1>9, <2>1, StepMoves DEF Refuse, Ends
    <3>4. FindById(db, User(r)) /\ db' = db
      BY <3>2, <3>3 DEF ReadAuthor, OnlyReads, NoWrite
    <3>5. QED
      BY <1>9, <2>1, <3>4
  <2>2. CASE q # r
    <3>1. pc[q] = "create" /\ Met(r, q)'
      BY <1>5, <1>9, <2>2 DEF Ends
    <3>2. CASE ~FindById(db, User(q))
      BY <1>4, <3>1, <3>2 DEF ImageInv
    <3>3. CASE FindById(db, User(q))
      <4>1. User(q) \in UserIds
        BY <3>3 DEF FindById, LiveRows, UserIds
      <4>2. Withdraw(r)
        BY <1>9, <3>3, <4>1, UsersFound
      <4>3. Op(r) = "withdraw"
        BY <1>1, <4>2 DEF Withdraw, StageInv, StageOps
      <4>4. QED
        BY <1>1, <1>2, <3>1, <4>3 DEF MetWithdrawal
    <3>4. QED
      BY <3>2, <3>3
  <2>3. QED
    BY <2>1, <2>2
<1>10. QED
  BY <1>1, <1>2, <1>3, <1>7, <1>8, <1>9 DEF ImageInv

\* What editing, deleting and withdrawing leave of images and posts, whatever
\* they do to each other on the way.
THEOREM ImagesInvariant == Spec => []ImageInv
<1>1. Init => ImageInv
  BY ImageStart
<1>2. DataInv /\ ImageInv /\ [Next]_marketVars => ImageInv'
  BY StillStep, ImageStill, ImageHandle
<1>3. QED
  BY <1>1, <1>2, DataInvariant, PTL DEF Spec

\* Sets of one element at most are finite and of size one at most.
LEMMA AtMostOne ==
  ASSUME NEW S, \A i, j \in S : i = j
  PROVE  Cardinality(S) <= 1
<1>1. CASE S = {}
  BY <1>1, FS_EmptySet
<1>2. CASE S # {}
  <2>1. PICK x : S = {x}
    BY <1>2
  <2>2. QED
    BY <2>1, FS_Singleton
<1>3. QED
  BY <1>1, <1>2

\* A live post that was given images shows some, one of them its thumbnail; an
\* image outlives its post, and a post its seller, only when the request that
\* stored it met the one that ended the other: updateProductPost,
\* createProductPost and withdrawUser look before they write.
THEOREM ImagesFollow == Spec => []ImagesFollowPost
<1>1. ASSUME DataInv, ImageInv PROVE ImagesFollowPost
  <2>1. ASSUME NEW q \in Req, MetDeath(q)
        PROVE  MetAny(q, {x \in Req : Op(x) \in {"delete", "withdraw"}})
    BY <2>1 DEF MetDeath, MetAny, Met
  <2>2. ASSUME NEW q \in Req, MetWithdrawal(q)
        PROVE  MetAny(q, {x \in Req : Op(x) \in {"withdraw"}})
    BY <2>2 DEF MetWithdrawal, MetAny, Met
  <2>3. ASSUME NEW p \in PostIds
        PROVE  /\ Cardinality(Thumbnails(db, p)) <= 1
               /\ FindPost(db, p) /\ FindImages(db, p) = {}
                    => \A i \in DOMAIN db.images : db.images[i].post # p
               /\ ~FindPost(db, p) => \A i \in FindImages(db, p) :
                    /\ db.images[i].by \in Req
                    /\ MetAny(db.images[i].by,
                              {x \in Req : Op(x) \in {"delete", "withdraw"}})
               /\ FindPost(db, p) /\ ~FindById(db, db.posts[p].user)
                    => /\ db.posts[p].by \in Req
                       /\ MetAny(db.posts[p].by, {x \in Req : Op(x) \in {"withdraw"}})
    <3>1. PostInv(p)
      BY <1>1 DEF ImageInv
    <3>2. Cardinality(Thumbnails(db, p)) <= 1
      BY <3>1, AtMostOne DEF PostInv
    <3>3. QED
      BY <2>1, <2>2, <3>1, <3>2 DEF PostInv
  <2>4. QED
    BY <2>3 DEF ImagesFollowPost
<1>2. QED
  BY <1>1, ImagesInvariant, DataInvariant, PTL

-----------------------------------------------------------------------------
(* Conversations.                                                          *)

ConversationOf(r, c) == db.conversations[c].post = Post(r)

\* Who is in a conversation, and who may have created those that a request
\* which looks for its own has not found.
ConvInv ==
  /\ \A i \in DOMAIN db.participants, c \in ConversationIds, q \in Req :
       db.participants[i].conv = c /\ db.conversations[c].by = q =>
         /\ Op(q) = "createConversation"
         /\ \/ db.participants[i].user = User(q)
            \/ IsOwner(db, db.conversations[c].post, db.participants[i].user)
  /\ \A r \in Req : Op(r) = "createConversation" /\ pc[r] = "mine" =>
       /\ \A c \in got[r] : c \in ConversationIds /\ ConversationOf(r, c)
       /\ \A c \in ConversationIds : ConversationOf(r, c) /\ c \notin got[r] =>
            \E q \in Req : db.conversations[c].by = q /\ Met(q, r)
  /\ \A r \in Req : pc[r] = "insert" =>
       \A c \in ConversationIds :
         ConversationOf(r, c) /\ FindParticipant(db, c, User(r)) # {} =>
           \E q \in Req : /\ db.conversations[c].by = q /\ Met(q, r)
                          /\ Op(q) = "createConversation" /\ User(q) = User(r)
  /\ ConversationsUnique

LEMMA ConvStart ==
  ASSUME Init
  PROVE  ConvInv
<1>1. /\ db = StartDb /\ plan \in Plans /\ \A r \in Req : pc[r] = "idle"
  BY DEF Init, RequestsInit
<1>2. StartDb \in Tables(DOMAIN StartDb.users, DOMAIN StartDb.posts,
                         DOMAIN StartDb.conversations, {0})
  BY StartAssumption
<1>3. ASSUME NEW c \in ConversationIds PROVE db.conversations[c].by \notin Req
  <2>1. db.conversations \in Seq(ConversationRow(PostIds, {0}))
    BY <1>1, <1>2, TableTypes DEF PostIds
  <2>2. db.conversations[c] \in ConversationRow(PostIds, {0})
    BY <2>1 DEF ConversationIds
  <2>3. db.conversations[c].by = 0
    BY <2>2 DEF ConversationRow
  <2>4. QED
    BY <1>1, <2>3, RequestNumbers
<1>4. ASSUME NEW c \in ConversationIds, NEW e \in ConversationIds, NEW u,
             c < e, db.conversations[c].post = db.conversations[e].post,
             NEW i \in FindParticipant(db, c, u), NEW j \in FindParticipant(db, e, u)
      PROVE  IsOwner(db, db.conversations[c].post, u)
  <2>1. /\ i \in LiveRows(db.participants) /\ j \in LiveRows(db.participants)
        /\ db.participants[i].conv = c /\ db.participants[j].conv = e
        /\ db.participants[i].user = u /\ db.participants[j].user = u
    BY DEF FindParticipant
  <2>2. c # e
    <3>1. ConversationIds \subseteq Nat
      <4>1. db.conversations \in Seq(ConversationRow(PostIds, {0}))
        BY <1>1, <1>2, TableTypes DEF PostIds
      <4>2. QED
        BY <4>1 DEF ConversationIds
    <3>2. QED
      BY <1>4, <3>1
  <2>3. i # j
    BY <2>1, <2>2
  <2>4. QED
    BY <1>1, <1>4, <2>1, <2>3, StartAssumption
<1>5. ConversationsUnique
  BY <1>1, <1>4 DEF ConversationsUnique, Done
<1>6. QED
  BY <1>1, <1>3, <1>5 DEF ConvInv

LEMMA ConvStill ==
  ASSUME ConvInv, Still
  PROVE  ConvInv'
<1>1. \A q \in Req : /\ Op(q)' = Op(q) /\ Post(q)' = Post(q) /\ User(q)' = User(q)
                     /\ Done(q)' => Done(q) /\ got'[q] = got[q]
  BY DEF Still, Op, Post, User, Done
<1>2. db' = db /\ Req' = Req /\ ConversationIds' = ConversationIds /\ UserIds' = UserIds
  BY DEF Still, ConversationIds, UserIds
<1>3. ASSUME NEW r \in Req, Op(r) = "createConversation", pc'[r] = "mine"
      PROVE  /\ \A c \in got'[r] : c \in ConversationIds /\ ConversationOf(r, c)
             /\ \A c \in ConversationIds : ConversationOf(r, c) /\ c \notin got'[r] =>
                  \E q \in Req : db.conversations[c].by = q /\ Met(q, r)'
  <2>1. pc[r] = "mine" /\ got'[r] = got[r]
    BY <1>3 DEF Still
  <2>2. QED
    BY <1>3, <2>1 DEF ConvInv, Still
<1>4. ASSUME NEW r \in Req, pc'[r] = "insert", NEW c \in ConversationIds,
             ConversationOf(r, c), FindParticipant(db, c, User(r)) # {}
      PROVE  \E q \in Req : /\ db.conversations[c].by = q /\ Met(q, r)'
                            /\ Op(q) = "createConversation" /\ User(q) = User(r)
  <2>1. pc[r] = "insert"
    BY <1>4 DEF Still
  <2>2. QED
    BY <1>4, <2>1 DEF ConvInv, Still
<1>5. ConversationsUnique'
  <2>1. ASSUME NEW c \in ConversationIds, NEW e \in ConversationIds, NEW u \in UserIds,
               c < e, db.conversations[c].post = db.conversations[e].post,
               FindParticipant(db, c, u) # {}, FindParticipant(db, e, u) # {},
               ~IsOwner(db, db.conversations[c].post, u)
        PROVE  \E q, r \in Req : /\ Op(q) = "createConversation" /\ User(q) = u
                                 /\ Op(r) = "createConversation" /\ User(r) = u
                                 /\ Met(q, r)'
    BY <2>1 DEF ConvInv, ConversationsUnique, Still
  <2>2. ASSUME NEW r \in Req, Op(r) = "createConversation", Done(r)'
        PROVE  /\ db.conversations[got'[r]].post = Post(r)
               /\ \E i \in DOMAIN db.participants :
                    db.participants[i].conv = got'[r] /\ db.participants[i].user = User(r)
    BY <1>1, <2>2 DEF ConvInv, ConversationsUnique
  <2>3. QED
    BY <1>1, <1>2, <2>1, <2>2 DEF ConversationsUnique
<1>6. QED
  BY <1>1, <1>2, <1>3, <1>4, <1>5 DEF ConvInv, ConversationOf

\* The conversations and their participants after a step.
LEMMA ConversationNumbers ==
  ASSUME DataInv
  PROVE  /\ Len(db.conversations) \in Nat
         /\ ConversationIds = 1 .. Len(db.conversations)
         /\ \A c \in ConversationIds : db.conversations[c].post \in PostIds
         /\ \A i \in DOMAIN db.participants :
              db.participants[i].conv \in ConversationIds
BY RowTypes DEF ConversationIds, ConversationRow, ParticipantRow

LEMMA FoundParticipants ==
  ASSUME DataInv, NEW r \in Req, Handle(r), NEW c \in ConversationIds', NEW u,
         NEW i \in FindParticipant(db', c, u)
  PROVE  \/ /\ c \in ConversationIds /\ i \in FindParticipant(db, c, u)
            /\ i \in DOMAIN db.participants
         \/ /\ c \notin ConversationIds /\ InsertConversation(r)
            /\ c = Len(db.conversations) + 1
            /\ u \in {User(r), db.posts[Post(r)].user}
<1>1. /\ i \in DOMAIN db'.participants /\ db'.participants[i].live
      /\ db'.participants[i].conv = c /\ db'.participants[i].user = u
  BY DEF FindParticipant, LiveRows
<1>2. CASE i \in DOMAIN db.participants
  <2>1. /\ db.participants[i].live /\ db.participants[i].conv = c
        /\ db.participants[i].user = u
    BY <1>1, <1>2, ParticipantsKept
  <2>2. QED
    BY <1>2, <2>1, ConversationNumbers DEF FindParticipant, LiveRows
<1>3. CASE i \notin DOMAIN db.participants
  <2>1. /\ InsertConversation(r) /\ c = Len(db.conversations) + 1
        /\ u \in {User(r), db.posts[Post(r)].user}
    BY <1>1, <1>3, ParticipantsKept
  <2>2. QED
    BY <2>1, ConversationsKept
<1>4. QED
  BY <1>2, <1>3

LEMMA ConvHandle ==
  ASSUME DataInv, ConvInv, NEW r \in Req, Handle(r)
  PROVE  ConvInv'
<1>1. /\ RequestInv /\ StoreInv /\ StageInv /\ GotInv
      /\ Moves(r) /\ Advances(r) /\ ~Ended(r) /\ Req' = Req /\ plan' = plan
  BY HandleMoves DEF DataInv
<1>2. \A q \in Req : /\ Op(q)' = Op(q) /\ Post(q)' = Post(q) /\ User(q)' = User(q)
  BY <1>1 DEF Op, Post, User
<1>3. ASSUME NEW q \in Req, q # r
      PROVE  /\ pc'[q] = pc[q] /\ got'[q] = got[q]
             /\ pc[q] \notin Ends \cup {"idle"} => Met(r, q)'
  BY <1>1, <1>3, OthersStay, MovingMeet DEF Running
<1>4. InsertConversation(r) => pc[r] = "insert" /\ Op(r) = "createConversation"
  <2>1. InsertConversation(r) => pc[r] = "insert"
    BY DEF InsertConversation
  <2>2. QED
    BY <1>1, <2>1 DEF StageInv, StageOps
<1>5. ASSUME NEW c \in ConversationIds
      PROVE  /\ c \in ConversationIds'
             /\ db'.conversations[c].post = db.conversations[c].post
             /\ db'.conversations[c].by = db.conversations[c].by
             /\ \A u : IsOwner(db', db.conversations[c].post, u)
                         = IsOwner(db, db.conversations[c].post, u)
  <2>1. db.conversations[c].post \in PostIds
    BY ConversationNumbers
  <2>2. QED
    BY <2>1, ConversationsKept, PostsKept DEF IsOwner
<1>6. ASSUME NEW c \in ConversationIds', c \notin ConversationIds
      PROVE  /\ InsertConversation(r) /\ c = Len(db.conversations) + 1
             /\ db'.conversations[c].post = Post(r) /\ db'.conversations[c].by = r
             /\ pc[r] = "insert" /\ Op(r) = "createConversation"
             /\ Post(r) \in PostIds /\ ~IsOwner(db, Post(r), User(r))
             /\ \A u : IsOwner(db', Post(r), u) = IsOwner(db, Post(r), u)
  <2>1. /\ InsertConversation(r) /\ c = Len(db.conversations) + 1
        /\ db'.conversations[c] = NewConversation(r)
    BY <1>6, ConversationsKept
  <2>2. /\ db'.conversations[c].post = Post(r) /\ db'.conversations[c].by = r
    BY <2>1 DEF NewConversation
  <2>3. Post(r) \in PostIds /\ ~IsOwner(db, Post(r), User(r))
    BY <1>1, <1>4, <2>1 DEF GotInv, GotOk
  <2>4. QED
    BY <1>4, <2>1, <2>2, <2>3, PostsKept DEF IsOwner
<1>7. ASSUME NEW i \in DOMAIN db'.participants, NEW c \in ConversationIds',
             NEW q \in Req, db'.participants[i].conv = c, db'.conversations[c].by = q
      PROVE  /\ Op(q) = "createConversation"
             /\ \/ db'.participants[i].user = User(q)
                \/ IsOwner(db', db'.conversations[c].post, db'.participants[i].user)
  <2>1. CASE i \in DOMAIN db.participants
    <3>1. /\ db.participants[i].conv = c /\ c \in ConversationIds
          /\ db'.participants[i].user = db.participants[i].user
      BY <1>7, <2>1, ParticipantsKept, ConversationNumbers
    <3>2. QED
      BY <1>5, <1>7, <2>1, <3>1 DEF ConvInv
  <2>2. CASE i \notin DOMAIN db.participants
    <3>1. /\ InsertConversation(r) /\ c = Len(db.conversations) + 1
          /\ db'.participants[i].user \in {User(r), db.posts[Post(r)].user}
      BY <1>7, <2>2, ParticipantsKept
    <3>2. c \notin ConversationIds
      BY <3>1, ConversationNumbers
    <3>3. q = r
      BY <1>6, <1>7, <3>2
    <3>4. IsOwner(db, Post(r), db.posts[Post(r)].user)
      BY DEF IsOwner
    <3>5. QED
      BY <1>6, <3>1, <3>2, <3>3, <3>4
  <2>3. QED
    BY <2>1, <2>2
<1>8. ASSUME NEW q \in Req, Op(q) = "createConversation", pc'[q] = "mine"
      PROVE  /\ \A c \in got'[q] :
                  c \in ConversationIds' /\ db'.conversations[c].post = Post(q)
             /\ \A c \in ConversationIds' :
                  db'.conversations[c].post = Post(q) /\ c \notin got'[q] =>
                    \E s \in Req : db'.conversations[c].by = s /\ Met(s, q)'
  <2>1. CASE q = r
    <3>1. FindExistingConversation(r)
      <4>1. ~ReadTopic(r)
        BY <1>1, <1>8, <2>1, StepMoves DEF ReadTopic, Refuse, Ends
      <4>2. ~ReadSeller(r)
        BY <1>1, <1>8, <2>1, StepMoves DEF ReadSeller, Refuse, Ends
      <4>3. ~InsertConversation(r)
        BY <1>1, <1>8, <2>1, StepMoves DEF InsertConversation, Ends
      <4>4. QED
        BY <1>8, <2>1, <4>1, <4>2, <4>3, HandlerOps
    <3>2. pc[r] = "existing"
      BY <1>1, <1>8, <2>1, <3>1, StepMoves DEF FindExistingConversation, Ends
    <3>3. got'[r] = FindConversations(db, Post(r)) /\ db' = db
      BY <1>1, <3>1, <3>2, StepMoves
         DEF FindExistingConversation, OnlyReads, NoWrite, Ends
    <3>4. QED
      BY <2>1, <3>3 DEF FindConversations, ConversationIds
  <2>2. CASE q # r
    <3>1. pc[q] = "mine" /\ got'[q] = got[q] /\ Met(r, q)'
      BY <1>3, <1>8, <2>2 DEF Ends
    <3>2. ASSUME NEW c \in got[q]
          PROVE  c \in ConversationIds' /\ db'.conversations[c].post = Post(q)
      BY <1>5, <1>8, <3>1, <3>2 DEF ConvInv, ConversationOf
    <3>3. ASSUME NEW c \in ConversationIds', db'.conversations[c].post = Post(q),
                 c \notin got[q]
          PROVE  \E s \in Req : db'.conversations[c].by = s /\ Met(s, q)'
      <4>1. CASE c \in ConversationIds
        <5>1. ConversationOf(q, c)
          BY <1>5, <3>3, <4>1 DEF ConversationOf
        <5>2. PICK s \in Req : db.conversations[c].by = s /\ Met(s, q)
          BY <1>8, <3>1, <3>3, <4>1, <5>1 DEF ConvInv
        <5>3. QED
          BY <1>1, <1>5, <4>1, <5>2, MetKept
      <4>2. CASE c \notin ConversationIds
        BY <1>6, <3>1, <4>2
      <4>3. QED
        BY <4>1, <4>2
    <3>4. QED
      BY <3>1, <3>2, <3>3
  <2>3. QED
    BY <2>1, <2>2
<1>9. ASSUME NEW q \in Req, pc'[q] = "insert", NEW c \in ConversationIds',
             db'.conversations[c].post = Post(q), NEW i \in FindParticipant(db', c, User(q))
      PROVE  \E s \in Req : /\ db'.conversations[c].by = s /\ Met(s, q)'
                            /\ Op(s) = "createConversation" /\ User(s) = User(q)
  <2>1. CASE q = r
    <3>1. Op(r) = "createConversation"
      BY <1>1, <1>9, <2>1 DEF Advances, StageOps
    <3>2. FindExistingConversation(r)
      <4>1. ~ReadTopic(r)
        BY <1>1, <1>9, <2>1, StepMoves DEF ReadTopic, Refuse, Ends
      <4>2. ~ReadSeller(r)
        BY <1>1, <1>9, <2>1, StepMoves DEF ReadSeller, Refuse, Ends
      <4>3. ~InsertConversation(r)
        BY <1>1, <1>9, <2>1, StepMoves DEF InsertConversation, Ends
      <4>4. QED
        BY <3>1, <4>1, <4>2, <4>3, HandlerOps
    <3>3. pc[r] = "mine"
      BY <1>1, <1>9, <2>1, <3>2, StepMoves DEF FindExistingConversation, Ends
    <3>4. {e \in got[r] : FindParticipant(db, e, User(r)) # {}} = {} /\ db' = db
      BY <1>1, <1>9, <2>1, <3>2, <3>3, StepMoves
         DEF FindExistingConversation, OnlyReads, NoWrite, Ends
    <3>5. /\ c \in ConversationIds /\ ConversationOf(r, c) /\ c \notin got[r]
          /\ i \in FindParticipant(db, c, User(r))
      BY <1>9, <2>1, <3>4 DEF ConversationIds, ConversationOf
    <3>6. PICK s \in Req : db.conversations[c].by = s /\ Met(s, r)
      BY <3>1, <3>3, <3>5 DEF ConvInv
    <3>7. /\ i \in DOMAIN db.participants /\ db.participants[i].conv = c
          /\ db.participants[i].user = User(r)
      BY <3>5 DEF FindParticipant, LiveRows
    <3>8. ~IsOwner(db, db.conversations[c].post, User(r))
      BY <1>1, <3>1, <3>3, <3>5 DEF GotInv, GotOk, ConversationOf
    <3>9. Op(s) = "createConversation" /\ User(s) = User(r)
      BY <3>5, <3>6, <3>7, <3>8 DEF ConvInv
    <3>10. QED
      BY <1>1, <2>1, <3>4, <3>6, <3>9, MetKept
  <2>2. CASE q # r
    <3>1. pc[q] = "insert" /\ Met(r, q)'
      BY <1>3, <1>9, <2>2 DEF Ends
    <3>2. CASE c \in ConversationIds
      <4>1. ConversationOf(q, c)
        BY <1>5, <1>9, <3>2 DEF ConversationOf
      <4>2. FindParticipant(db, c, User(q)) # {}
        BY <3>2, FoundParticipants
      <4>3. PICK s \in Req : /\ db.conversations[c].by = s /\ Met(s, q)
                             /\ Op(s) = "createConversation" /\ User(s) = User(q)
        BY <3>1, <3>2, <4>1, <4>2 DEF ConvInv
      <4>4. QED
        BY <1>1, <1>5, <3>2, <4>3, MetKept
    <3>3. CASE c \notin ConversationIds
      <4>1. User(q) \in {User(r), db.posts[Post(r)].user} /\ Post(q) = Post(r)
        BY <1>6, <1>9, <3>3, FoundParticipants
      <4>2. Op(q) = "createConversation"
        BY <1>1, <3>1 DEF StageInv, StageOps
      <4>3. ~IsOwner(db, Post(q), User(q))
        BY <1>1, <3>1, <4>2 DEF GotInv, GotOk
      <4>4. User(q) = User(r)
        BY <4>1, <4>3 DEF IsOwner
      <4>5. QED
        BY <1>6, <3>1, <3>3, <4>4
    <3>4. QED
      BY <3>2, <3>3
  <2>3. QED
    BY <2>1, <2>2
<1>10. ASSUME NEW c \in ConversationIds', NEW e \in ConversationIds', NEW u \in UserIds,
              c < e, db'.conversations[c].post = db'.conversations[e].post,
              NEW i \in FindParticipant(db', c, u), NEW j \in FindParticipant(db', e, u),
              ~IsOwner(db', db'.conversations[c].post, u)
       PROVE  \E q, s \in Req : /\ Op(q) = "createConversation" /\ User(q) = u
                                /\ Op(s) = "createConversation" /\ User(s) = u
                                /\ Met(q, s)'
  <2>1. c \in ConversationIds
    <3>1. SUFFICES ASSUME c \notin ConversationIds PROVE FALSE
      OBVIOUS
    <3>2. c = Len(db.conversations) + 1
      BY <1>6, <3>1
    <3>3. CASE e \in ConversationIds
      BY <1>10, <3>2, <3>3, ConversationNumbers
    <3>4. CASE e \notin ConversationIds
      BY <1>6, <1>10, <3>2, <3>4, ConversationNumbers
    <3>5. QED
      BY <3>3, <3>4
  <2>2. FindParticipant(db, c, u) # {} /\ ~IsOwner(db, db.conversations[c].post, u)
    BY <1>5, <1>10, <2>1, FoundParticipants
  <2>3. CASE e \in ConversationIds
    <3>1. FindParticipant(db, e, u) # {}
      BY <2>3, FoundParticipants
    <3>2. PICK q \in Req, s \in Req :
            /\ Op(q) = "createConversation" /\ User(q) = u
            /\ Op(s) = "createConversation" /\ User(s) = u /\ Met(q, s)
      BY <1>5, <1>10, <2>1, <2>2, <2>3, <3>1 DEF ConvInv, ConversationsUnique
    <3>3. QED
      BY <1>1, <3>2, MetKept
  <2>4. CASE e \notin ConversationIds
    <3>1. /\ pc[r] = "insert" /\ Op(r) = "createConversation"
          /\ db.conversations[c].post = Post(r)
      BY <1>5, <1>6, <1>10, <2>1, <2>4
    <3>2. u = User(r)
      BY <2>2, <2>4, <3>1, FoundParticipants DEF IsOwner
    <3>3. PICK s \in Req : /\ Met(s, r)
                           /\ Op(s) = "createConversation" /\ User(s) = User(r)
      BY <2>1, <2>2, <3>1, <3>2 DEF ConvInv, ConversationOf
    <3>4. QED
      BY <1>1, <3>1, <3>2, <3>3, MetKept
  <2>5. QED
    BY <2>3, <2>4
<1>11. ASSUME NEW q \in Req, Op(q) = "createConversation", pc'[q] = "done"
       PROVE  /\ db'.conversations[got'[q]].post = Post(q)
              /\ \E i \in DOMAIN db'.participants :
                   db'.participants[i].conv = got'[q] /\ db'.participants[i].user = User(q)
  <2>1. ASSUME NEW c, NEW i \in DOMAIN db.participants, db.conversations[c].post = Post(q),
               db.participants[i].conv = c, db.participants[i].user = User(q)
        PROVE  /\ db'.conversations[c].post = Post(q)
               /\ \E j \in DOMAIN db'.participants :
                    db'.participants[j].conv = c /\ db'.participants[j].user = User(q)
    BY <1>5, <2>1, ConversationNumbers, ParticipantsKept
  <2>2. CASE q # r
    <3>1. Done(q) /\ got'[q] = got[q]
      BY <1>3, <1>11, <2>2 DEF Done
    <3>2. PICK i \in DOMAIN db.participants :
            db.participants[i].conv = got[q] /\ db.participants[i].user = User(q)
      BY <1>11, <3>1 DEF ConvInv, ConversationsUnique
    <3>3. db.conversations[got[q]].post = Post(q)
      BY <1>11, <3>1 DEF ConvInv, ConversationsUnique
    <3>4. QED
      BY <2>1, <3>1, <3>2, <3>3
  <2>3. CASE q = r
    <3>1. ~ReadTopic(r)
      BY <1>1, <1>11, <2>3, StepMoves DEF ReadTopic, Refuse, Ends
    <3>2. ~ReadSeller(r)
      BY <1>1, <1>11, <2>3, StepMoves DEF ReadSeller, Refuse, Ends
    <3>3. CASE FindExistingConversation(r)
      <4> DEFINE mine == {c \in got[r] : FindParticipant(db, c, User(r)) # {}}
      <4>1. pc[r] = "mine"
        BY <1>1, <1>11, <2>3, <3>3, StepMoves DEF FindExistingConversation, Ends
      <4>2. mine # {} /\ got'[r] = Min(mine)
        BY <1>1, <1>11, <2>3, <3>3, <4>1, StepMoves
           DEF FindExistingConversation, Ends
      <4>3. \A c \in got[r] : c \in ConversationIds /\ ConversationOf(r, c)
        BY <1>11, <2>3, <4>1 DEF ConvInv
      <4>4. mine \subseteq Nat
        BY <4>3, ConversationNumbers
      <4>5. Min(mine) \in mine
        <5> HIDE DEF mine
        <5>1. QED
          BY <4>2, <4>4, Least
      <4>6. PICK i : i \in FindParticipant(db, got'[r], User(r))
        BY <4>2, <4>5
      <4>7. /\ i \in DOMAIN db.participants /\ db.participants[i].conv = got'[r]
            /\ db.participants[i].user = User(r)
        BY <4>6 DEF FindParticipant, LiveRows
      <4>8. db.conversations[got'[r]].post = Post(r)
        BY <4>2, <4>3, <4>5 DEF ConversationOf
      <4>9. QED
        BY <2>1, <2>3, <4>7, <4>8
    <3>4. CASE InsertConversation(r)
      <4>1. got'[r] = Len(db.conversations) + 1
        BY <1>1, <3>4, StepMoves DEF InsertConversation, Ends
      <4>2. /\ got'[r] \in ConversationIds' /\ got'[r] \notin ConversationIds
        BY <3>4, <4>1, ConversationsKept
      <4>3. db'.conversations[got'[r]].post = Post(r)
        BY <1>6, <4>2
      <4>4. QED
        BY <2>3, <3>4, <4>1, <4>3, ParticipantsKept
    <3>5. QED
      BY <1>11, <2>3, <3>1, <3>2, <3>3, <3>4, HandlerOps
  <2>4. QED
    BY <2>2, <2>3
<1>12. ConversationsUnique'
  <2>1. UserIds' = UserIds
    BY UsersKept
  <2>2. QED
    BY <1>1, <1>2, <1>10, <1>11, <2>1 DEF ConversationsUnique, Done
<1>13. QED
  BY <1>1, <1>2, <1>7, <1>8, <1>9, <1>12 DEF ConvInv, ConversationOf

\* Whoever asks for a conversation about a post gets theirs, and a second one
\* only when two requests of theirs met.
THEOREM ConversationsInvariant == Spec => []ConvInv
<1>1. Init => ConvInv
  BY ConvStart
<1>2. DataInv /\ ConvInv /\ [Next]_marketVars => ConvInv'
  BY StillStep, ConvStill, ConvHandle
<1>3. QED
  BY <1>1, <1>2, DataInvariant, PTL DEF Spec

\* One like per user and post and one conversation per user and post, but for
\* requests that met; and unliking takes back what was there: likeProductPost
\* and createConversation look before they insert, and no unique key helps.
THEOREM ChecksTrue == Spec => []ChecksHold
<1>1. LikeInv /\ ConvInv => ChecksHold
  BY DEF LikeInv, ConvInv, ChecksHold
<1>2. QED
  BY <1>1, LikesInvariant, ConversationsInvariant, PTL

-----------------------------------------------------------------------------
(* Closed posts.                                                           *)

Shuts(q) == Op(q) \in {"hide", "delete"}

\* Nobody asks to show the post again.
StaysShut(p) == ~\E q \in Req : Op(q) = "unhide" /\ Post(q) = p

\* q hid or deleted, for good, the post that the conversation of r is about.
ShutBy(q, r) == /\ Done(q) /\ Shuts(q) /\ StaysShut(Post(q))
                /\ db.conversations[Conv(r)].post = Post(q)

\* A post is closed from when it is hidden or deleted, a request that came
\* later carries so, and answers accordingly.
ClosedInv ==
  /\ \A q \in Req : Done(q) /\ Shuts(q) =>
       /\ Post(q) \in PostIds
       /\ StaysShut(Post(q)) => Closed(db.posts[Post(q)])
  /\ \A r \in Req : pc[r] \in {"owner", "trade"} =>
       /\ IsOwner(db, db.conversations[Conv(r)].post, got[r].user)
       /\ \A q \in past[r] : ShutBy(q, r) => got[r].closed
  /\ \A r \in Req : Op(r) = "permission" /\ Done(r) /\ got[r] = TRUE =>
       /\ Conv(r) \in ConversationIds
       /\ \A q \in past[r] : ShutBy(q, r) =>
            \/ IsOwner(db, Post(q), User(r))
            \/ \E i \in FindProgress(db, Post(q)) : db.progress[i].buyer = User(r)

LEMMA ClosedStart ==
  ASSUME Init
  PROVE  ClosedInv
BY DEF Init, RequestsInit, ClosedInv, Done

LEMMA ClosedStill ==
  ASSUME DataInv, ClosedInv, Still
  PROVE  ClosedInv'
<1>1. /\ \A q : Op(q)' = Op(q) /\ Post(q)' = Post(q) /\ User(q)' = User(q)
                /\ Conv(q)' = Conv(q)
      /\ \A q \in Req : /\ Done(q)' => Done(q) /\ got'[q] = got[q]
                        /\ pc'[q] \in {"owner", "trade"} => pc'[q] = pc[q] /\ got'[q] = got[q]
      /\ db' = db /\ Req' = Req /\ past' = past
  BY DEF Still, Op, Post, User, Conv, Done
<1>2. \A q \in Req : past[q] \subseteq Req
  BY DEF DataInv, RequestInv
<1>3. \A q : /\ Shuts(q)' = Shuts(q)
             /\ StaysShut(Post(q))' = StaysShut(Post(q))
  BY <1>1 DEF Shuts, StaysShut
<1>4. ASSUME NEW r \in Req, NEW q \in Req, ShutBy(q, r)' PROVE ShutBy(q, r)
  BY <1>1, <1>3, <1>4 DEF ShutBy
<1>5. ASSUME NEW q \in Req, Done(q)', Shuts(q)
      PROVE  /\ Post(q) \in PostIds
             /\ StaysShut(Post(q)) => Closed(db.posts[Post(q)])
  BY <1>1, <1>5 DEF ClosedInv
<1>6. ASSUME NEW r \in Req, pc'[r] \in {"owner", "trade"}
      PROVE  /\ IsOwner(db, db.conversations[Conv(r)].post, got'[r].user)
             /\ \A q \in past[r] : ShutBy(q, r)' => got'[r].closed
  BY <1>1, <1>2, <1>4, <1>6 DEF ClosedInv
<1>7. ASSUME NEW r \in Req, Op(r) = "permission", Done(r)', got'[r] = TRUE
      PROVE  /\ Conv(r) \in ConversationIds
             /\ \A q \in past[r] : ShutBy(q, r)' =>
                  \/ IsOwner(db, Post(q), User(r))
                  \/ \E i \in FindProgress(db, Post(q)) : db.progress[i].buyer = User(r)
  BY <1>1, <1>2, <1>4, <1>7 DEF ClosedInv
<1>8. PostIds' = PostIds /\ ConversationIds' = ConversationIds
  BY <1>1 DEF PostIds, ConversationIds
<1>9. QED
  BY <1>1, <1>3, <1>5, <1>6, <1>7, <1>8 DEF ClosedInv

LEMMA ClosedHandle ==
  ASSUME DataInv, ClosedInv, NEW r \in Req, Handle(r)
  PROVE  ClosedInv'
<1>1. /\ RequestInv /\ StoreInv /\ StageInv /\ GotInv
      /\ Moves(r) /\ Advances(r) /\ ~Ended(r) /\ Req' = Req /\ plan' = plan
  BY HandleMoves DEF DataInv
<1>2. \A q : /\ Op(q)' = Op(q) /\ Post(q)' = Post(q) /\ User(q)' = User(q)
             /\ Conv(q)' = Conv(q) /\ Shuts(q)' = Shuts(q)
  BY <1>1 DEF Op, Post, User, Conv, Shuts
<1>3. \A q : StaysShut(Post(q))' = StaysShut(Post(q))
  BY <1>1, <1>2 DEF StaysShut
<1>4. ASSUME NEW q \in Req, q # r
      PROVE  /\ pc'[q] = pc[q] /\ got'[q] = got[q] /\ past'[q] = past[q]
             /\ r \notin past[q] /\ past[q] \subseteq Req
  BY <1>1, <1>4, OthersStay DEF RequestInv, Ended
<1>5. ASSUME NEW q \in Req, Done(q)', Shuts(q)
      PROVE  /\ Post(q) \in PostIds
             /\ StaysShut(Post(q)) => Closed(db'.posts[Post(q)])
  <2>1. CASE q = r
    <3>1. (HideProductPost(r) /\ Op(r) = "hide") \/ DeleteProductPost(r)
      <4>1. Op(r) \in {"hide", "delete"}
        BY <1>5, <2>1 DEF Shuts
      <4>2. ReadOwnPost(r) => pc'[r] \in {"refused", "hide", "delete"}
        BY <1>1, <4>1, StepMoves DEF ReadOwnPost, Refuse, Ends
      <4>3. ~ReadOwnPost(r)
        BY <1>5, <2>1, <4>2 DEF Done
      <4>4. QED
        BY <4>1, <4>3, HandlerOps
    <3>2. pc[r] \in {"hide", "unhide", "delete"}
      BY <3>1 DEF HideProductPost, DeleteProductPost
    <3>3. Post(r) \in PostIds
      BY <1>1, <3>2 DEF GotInv, GotOk
    <3>4. CASE DeleteProductPost(r)
      <4>1. ~FindPost(db', Post(r)) /\ Post(r) \in PostIds'
        BY <3>3, <3>4, PostsEnded, PostsFound
      <4>2. QED
        BY <2>1, <3>3, <4>1 DEF FindPost, LiveRows, PostIds, Closed
    <3>5. CASE HideProductPost(r) /\ Op(r) = "hide"
      <4>1. PICK posts, old : posts = db.posts /\ old = db.posts[Post(r)]
        OBVIOUS
      <4>2. old \in PostRow(UserIds, Writers) /\ Post(r) \in DOMAIN posts
        BY <3>3, <4>1, RowTypes DEF PostIds
      <4>3. db'.posts = [posts EXCEPT ![Post(r)] = [old EXCEPT !["hidden"] = TRUE]]
        BY <1>1, <3>5, <4>1, HideEffect
      <4>4. db'.posts[Post(r)] = [old EXCEPT !["hidden"] = TRUE]
        BY <4>2, <4>3
      <4>5. db'.posts[Post(r)].hidden = TRUE
        BY <4>2, <4>4 DEF PostRow
      <4>6. QED
        BY <2>1, <3>3, <4>5 DEF Closed
    <3>6. QED
      BY <3>1, <3>4, <3>5
  <2>2. CASE q # r
    <3>1. Done(q)
      BY <1>4, <1>5, <2>2 DEF Done
    <3>2. /\ Post(q) \in PostIds
          /\ StaysShut(Post(q)) => Closed(db.posts[Post(q)])
      BY <1>5, <3>1 DEF ClosedInv
    <3>3. ASSUME StaysShut(Post(q)) PROVE Closed(db'.posts[Post(q)])
      <4>1. /\ db'.posts[Post(q)].live => db.posts[Post(q)].live
            /\ db'.posts[Post(q)].status = db.posts[Post(q)].status
            /\ \/ db'.posts[Post(q)].hidden = db.posts[Post(q)].hidden
               \/ /\ HideProductPost(r) /\ Post(q) = Post(r)
                  /\ db'.posts[Post(q)].hidden = (Op(r) = "hide")
        BY <3>2, PostsKept
      <4>2. HideProductPost(r) /\ Post(q) = Post(r) => Op(r) = "hide"
        BY <1>1, <3>3, HideEffect DEF StaysShut
      <4>3. QED
        BY <3>2, <3>3, <4>1, <4>2 DEF Closed
    <3>4. QED
      BY <3>2, <3>3
  <2>3. QED
    BY <2>1, <2>2
<1>6. ASSUME NEW c \in ConversationIds
      PROVE  /\ db.conversations[c].post \in PostIds
             /\ db'.conversations[c].post = db.conversations[c].post
             /\ c \in ConversationIds'
  BY ConversationsKept, ConversationNumbers
<1>7. ASSUME NEW p \in PostIds, NEW u PROVE IsOwner(db', p, u) = IsOwner(db, p, u)
  BY PostsKept DEF IsOwner
<1>8. ASSUME NEW s \in Req, s # r, Conv(s) \in ConversationIds,
             NEW q \in past'[s], ShutBy(q, s)'
      PROVE  q \in past[s] /\ ShutBy(q, s) /\ Post(q) \in PostIds
  <2>1. q \in past[s] /\ q \in Req /\ q # r
    BY <1>4, <1>8
  <2>2. Done(q)
    BY <1>4, <1>8, <2>1 DEF ShutBy, Done
  <2>3. db.conversations[Conv(s)].post = Post(q)
    BY <1>2, <1>6, <1>8 DEF ShutBy
  <2>4. Shuts(q) /\ StaysShut(Post(q))
    BY <1>2, <1>3, <1>8 DEF ShutBy
  <2>5. QED
    BY <1>6, <1>8, <2>1, <2>2, <2>3, <2>4 DEF ShutBy
<1>9. ASSUME NEW s \in Req, pc'[s] \in {"owner", "trade"}
      PROVE  /\ IsOwner(db', db'.conversations[Conv(s)].post, got'[s].user)
             /\ \A q \in past'[s] : ShutBy(q, s)' => got'[s].closed
  <2>1. CASE s # r
    <3>1. pc[s] \in {"owner", "trade"} /\ got'[s] = got[s]
      BY <1>4, <1>9, <2>1
    <3>2. Conv(s) \in ConversationIds
      BY <1>1, <3>1 DEF GotInv, GotOk
    <3>3. /\ IsOwner(db, db.conversations[Conv(s)].post, got[s].user)
          /\ \A q \in past[s] : ShutBy(q, s) => got[s].closed
      BY <3>1 DEF ClosedInv
    <3>4. QED
      BY <1>6, <1>7, <1>8, <2>1, <3>1, <3>2, <3>3
  <2>2. CASE s = r
    <3>1. Op(r) = "permission"
      BY <1>1, <1>9, <2>2 DEF Advances, StageOps
    <3>2. ~ReadSender(r)
      <4>1. ReadSender(r) => \E to \in {"refused", "post"} :
                                \E v : Step(r, "idle", to, v)
        BY DEF ReadSender, Refuse
      <4>2. ReadSender(r) => pc'[r] \in {"refused", "post"}
        BY <1>1, <4>1, StepMoves DEF Ends
      <4>3. QED
        BY <1>9, <2>2, <4>2
    <3>3. CASE ReadWhetherClosed(r)
      <4>1. pc[r] = "post"
        BY <3>3 DEF ReadWhetherClosed
      <4>2. Conv(r) \in ConversationIds
        BY <1>1, <4>1 DEF GotInv, GotOk
      <4>3. PICK p \in PostIds : p = db.conversations[Conv(r)].post
        BY <1>6, <4>2
      <4>4. got'[r] = [user |-> db.posts[p].user, closed |-> Closed(db.posts[p])]
            /\ db' = db
        BY <1>1, <3>3, <4>1, <4>3, StepMoves
           DEF ReadWhetherClosed, OnlyReads, NoWrite, Ends
      <4>5. IsOwner(db, p, got'[r].user)
        BY <4>4 DEF IsOwner
      <4>6. ASSUME NEW q \in past'[r], ShutBy(q, r)' PROVE got'[r].closed
        <5>1. q \in past[r] /\ q \in Req /\ q # r
          BY <1>1, <4>1 DEF Moves, RequestInv
        <5>2. Done(q) /\ Shuts(q) /\ StaysShut(Post(q)) /\ Post(q) = p
          BY <1>2, <1>3, <1>4, <4>3, <4>4, <4>6, <5>1 DEF ShutBy, Done
        <5>3. Closed(db.posts[p])
          BY <5>1, <5>2 DEF ClosedInv
        <5>4. QED
          BY <4>4, <5>3
      <4>7. QED
        BY <2>2, <4>3, <4>4, <4>5, <4>6
    <3>4. CASE CheckSendMessagePermission(r)
      <4>1. pc[r] = "owner"
        <5>1. pc[r] = "trade" => pc'[r] = "done"
          BY <1>1, <3>4, StepMoves DEF CheckSendMessagePermission, Ends
        <5>2. QED
          BY <1>9, <2>2, <3>4, <5>1 DEF CheckSendMessagePermission
      <4>2. got'[r] = got[r] /\ db' = db
        <5>1. PICK to, v : /\ Step(r, "owner", to, v)
                           /\ <<to, v>> \in {<<"trade", got[r]>>, <<"done", FALSE>>}
          <6>1. Step(r, "owner", "trade", got[r]) \/ Step(r, "owner", "done", FALSE)
            BY <3>4, <4>1 DEF CheckSendMessagePermission, Step
          <6>2. QED
            BY <6>1, Zenon
        <5>2. to \in {"trade", "done"} /\ (to = "trade" => v = got[r])
          BY <5>1
        <5>3. pc'[r] = to /\ got'[r] = v
          BY <1>1, <5>1, <5>2, StepMoves DEF Ends
        <5>4. QED
          BY <1>9, <2>2, <3>4, <5>2, <5>3
             DEF CheckSendMessagePermission, OnlyReads, NoWrite
      <4>3. /\ IsOwner(db, db.conversations[Conv(r)].post, got[r].user)
            /\ \A q \in past[r] : ShutBy(q, r) => got[r].closed
        BY <4>1 DEF ClosedInv
      <4>4. ASSUME NEW q \in past'[r], ShutBy(q, r)' PROVE ShutBy(q, r) /\ q \in past[r]
        <5>1. q \in past[r] /\ q \in Req /\ q # r
          BY <1>1, <4>1 DEF Moves, RequestInv
        <5>2. QED
          BY <1>2, <1>3, <1>4, <4>2, <4>4, <5>1 DEF ShutBy, Done
      <4>5. QED
        BY <2>2, <4>2, <4>3, <4>4
    <3>5. QED
      BY <3>1, <3>2, <3>3, <3>4, HandlerOps
  <2>3. QED
    BY <2>1, <2>2
<1>10. ASSUME NEW s \in Req, Op(s) = "permission", Done(s)', got'[s] = TRUE
       PROVE  /\ Conv(s) \in ConversationIds'
              /\ \A q \in past'[s] : ShutBy(q, s)' =>
                   \/ IsOwner(db', Post(q), User(s))
                   \/ \E i \in FindProgress(db', Post(q)) :
                        db'.progress[i].buyer = User(s)
  <2>1. db'.progress = db.progress
    BY TableWriters
  <2>2. \A p : FindProgress(db', p) = FindProgress(db, p)
    BY <2>1 DEF FindProgress
  <2>3. CASE s # r
    <3>1. Done(s) /\ got[s] = TRUE
      BY <1>4, <1>10, <2>3 DEF Done
    <3>2. /\ Conv(s) \in ConversationIds
          /\ \A q \in past[s] : ShutBy(q, s) =>
               \/ IsOwner(db, Post(q), User(s))
               \/ \E i \in FindProgress(db, Post(q)) : db.progress[i].buyer = User(s)
      BY <1>10, <3>1 DEF ClosedInv
    <3>3. QED
      BY <1>6, <1>7, <1>8, <2>1, <2>2, <2>3, <3>2
  <2>4. CASE s = r
    <3>1. CheckSendMessagePermission(r) /\ pc[r] = "trade"
      <4>1. ReadSender(r) => pc'[r] \in {"refused", "post"}
        BY <1>1, StepMoves DEF ReadSender, Refuse, Ends
      <4>2. ReadWhetherClosed(r) => pc'[r] = "owner"
        BY <1>1, StepMoves DEF ReadWhetherClosed, Ends
      <4>3. CheckSendMessagePermission(r)
        BY <1>10, <2>4, <4>1, <4>2, HandlerOps DEF Done
      <4>4. pc[r] = "owner" => pc'[r] = "trade" \/ got'[r] = FALSE
        <5>1. SUFFICES ASSUME pc[r] = "owner"
                       PROVE  pc'[r] = "trade" \/ got'[r] = FALSE
          OBVIOUS
        <5>2. PICK to, v : /\ Step(r, "owner", to, v)
                           /\ <<to, v>> \in {<<"trade", got[r]>>, <<"done", FALSE>>}
          <6>1. Step(r, "owner", "trade", got[r]) \/ Step(r, "owner", "done", FALSE)
            BY <4>3, <5>1 DEF CheckSendMessagePermission, Step
          <6>2. QED
            BY <6>1, Zenon
        <5>3. to \in {"trade", "done"} /\ (to = "done" => v = FALSE)
          BY <5>2
        <5>4. QED
          BY <1>1, <5>2, <5>3, StepMoves DEF Ends
      <4>5. QED
        BY <1>10, <2>4, <4>3, <4>4 DEF Done, CheckSendMessagePermission
    <3>2. Conv(r) \in ConversationIds
      BY <1>1, <3>1 DEF GotInv, GotOk
    <3>3. PICK i \in AnyOf(FindProgress(db, db.conversations[Conv(r)].post)) :
            Step(r, "trade", "done",
                 \/ ~got[r].closed
                 \/ got[r].user = User(r)
                 \/ i # None /\ db.progress[i].buyer = User(r))
      BY <3>1 DEF CheckSendMessagePermission
    <3>4. \/ ~got[r].closed
          \/ got[r].user = User(r)
          \/ i # None /\ db.progress[i].buyer = User(r)
      <4> DEFINE answer == \/ ~got[r].closed
                           \/ got[r].user = User(r)
                           \/ i # None /\ db.progress[i].buyer = User(r)
      <4>1. got'[r] = answer
        <5> HIDE DEF answer
        <5>1. Step(r, "trade", "done", answer)
          BY <3>3 DEF answer
        <5>2. QED
          BY <1>1, <5>1, StepMoves DEF Ends
      <4>2. answer = TRUE
        <5> HIDE DEF answer
        <5>1. QED
          BY <1>10, <2>4, <4>1
      <4>3. QED
        BY <4>2
    <3>5. db' = db
      BY <3>1 DEF CheckSendMessagePermission, OnlyReads, NoWrite
    <3>6. ASSUME NEW q \in past'[r], ShutBy(q, r)'
          PROVE  \/ IsOwner(db, Post(q), User(r))
                 \/ \E j \in FindProgress(db, Post(q)) : db.progress[j].buyer = User(r)
      <4>1. q \in past[r] /\ q \in Req /\ q # r
        BY <1>1, <3>1 DEF Moves, RequestInv
      <4>2. ShutBy(q, r) /\ db.conversations[Conv(r)].post = Post(q)
        BY <1>2, <1>3, <1>4, <3>5, <3>6, <4>1 DEF ShutBy, Done
      <4>3. /\ IsOwner(db, Post(q), got[r].user) /\ got[r].closed
        BY <3>1, <4>1, <4>2 DEF ClosedInv
      <4>4. i # None => i \in FindProgress(db, Post(q))
        BY <4>2 DEF AnyOf
      <4>5. QED
        BY <3>4, <4>3, <4>4
    <3>7. QED
      BY <1>6, <2>4, <3>2, <3>5, <3>6
  <2>5. QED
    BY <2>3, <2>4
<1>11. \A p \in PostIds : p \in PostIds'
  BY PostsKept
<1>12. QED
  BY <1>1, <1>2, <1>3, <1>5, <1>9, <1>10, <1>11 DEF ClosedInv

\* A post that was hidden or deleted, and that nobody shows again, is closed to
\* whoever comes later, at each of the permission's awaits.
THEOREM ClosedInvariant == Spec => []ClosedInv
<1>1. Init => ClosedInv
  BY ClosedStart
<1>2. DataInv /\ ClosedInv /\ [Next]_marketVars => ClosedInv'
  BY StillStep, ClosedStill, ClosedHandle
<1>3. QED
  BY <1>1, <1>2, DataInvariant, PTL DEF Spec

\* Nobody but the seller and the buyer is permitted to write about a post that
\* had been hidden or deleted when they asked, as long as it stayed so:
\* checkSendMessagePermission reads post, seller and trade one after the other.
THEOREM ClosedAreQuiet == Spec => []ClosedPostsAreQuiet
<1>1. ASSUME DataInv, ClosedInv PROVE ClosedPostsAreQuiet
  <2>1. ASSUME NEW r \in Req, Op(r) = "permission", Done(r), got[r],
               NEW q \in past[r], Done(q), Shuts(q),
               Post(q) = db.conversations[Conv(r)].post, StaysShut(Post(q))
        PROVE  \/ IsOwner(db, Post(q), User(r))
               \/ \E i \in FindProgress(db, Post(q)) : db.progress[i].buyer = User(r)
    <3>1. got[r] = TRUE
      BY <2>1
    <3>2. ShutBy(q, r)
      BY <2>1 DEF ShutBy
    <3>3. QED
      BY <1>1, <2>1, <3>1, <3>2 DEF ClosedInv
  <2>2. QED
    BY <2>1 DEF ClosedPostsAreQuiet, Shuts, StaysShut
<1>2. QED
  BY <1>1, ClosedInvariant, DataInvariant, PTL

-----------------------------------------------------------------------------
(* The users a seller may sell to.                                         *)

\* Whoever has withdrawn is gone.
GoneInv == \A q \in Req : Op(q) = "withdraw" /\ Done(q) => ~FindById(db, User(q))

LEMMA GoneStill ==
  ASSUME GoneInv, Still
  PROVE  GoneInv'
<1>1. /\ \A q \in Req : /\ Op(q)' = Op(q) /\ User(q)' = User(q)
                        /\ Done(q)' => Done(q)
      /\ db' = db /\ Req' = Req
  BY DEF Still, Op, User, Done
<1>2. QED
  BY <1>1 DEF GoneInv

LEMMA GoneHandle ==
  ASSUME DataInv, GoneInv, NEW r \in Req, Handle(r)
  PROVE  GoneInv'
<1>1. /\ RequestInv /\ StoreInv /\ StageInv /\ Moves(r) /\ Req' = Req /\ plan' = plan
  BY HandleMoves DEF DataInv
<1>2. ASSUME NEW q \in Req, Op(q) = "withdraw", Done(q)'
      PROVE  ~FindById(db', User(q))
  <2>1. User(q) \in UserIds
    BY <1>1, <1>2, RequestTypes DEF StoreInv, UserIdsAtStart
  <2>2. CASE q = r
    <3>1. ~ReadWithdrawing(r)
      BY <1>1, <1>2, <2>2, StepMoves DEF ReadWithdrawing, Refuse, Done, Ends
    <3>2. Withdraw(r)
      BY <1>2, <2>2, <3>1, HandlerOps
    <3>3. PICK row : row = Left(db.users[User(r)])
      OBVIOUS
    <3>4. ~row.live
      BY <2>1, <2>2, <3>3, RowTypes DEF Left, UserRow
    <3>5. db'.users[User(r)] = row
      BY <1>1, <2>1, <2>2, <3>2, <3>3, WithdrawEffect DEF UserIds
    <3>6. QED
      BY <2>2, <3>4, <3>5 DEF FindById, LiveRows
  <2>3. CASE q # r
    <3>1. Done(q)
      BY <1>1, <1>2, <2>3, OthersStay DEF Done
    <3>2. QED
      BY <1>2, <2>1, <3>1, UsersFound DEF GoneInv
  <2>4. QED
    BY <2>2, <2>3
<1>3. QED
  BY <1>1, <1>2 DEF GoneInv, Op, User

LEMMA GoneInvariant == Spec => []GoneInv
<1>1. Init => GoneInv
  BY DEF Init, RequestsInit, GoneInv, Done
<1>2. DataInv /\ GoneInv /\ [Next]_marketVars => GoneInv'
  BY StillStep, GoneStill, GoneHandle
<1>3. QED
  BY <1>1, <1>2, DataInvariant, PTL DEF Spec

\* A conversation has a last message, none of its messages is later, and
\* nothing comes from the future.
DatesInv ==
  /\ \A c \in ConversationIds :
       db.conversations[c].sentAt # None => db.conversations[c].sentAt <= now
  /\ \A m \in DOMAIN db.messages :
       LET c == db.messages[m].conv
       IN /\ db.conversations[c].sentAt # None
          /\ db.messages[m].at <= db.conversations[c].sentAt

\* The numbers among the dates.
LEMMA Dates ==
  ASSUME DataInv
  PROVE  /\ now \in Nat
         /\ \A c \in ConversationIds : db.conversations[c].sentAt # None =>
              db.conversations[c].sentAt \in Nat
         /\ \A m \in DOMAIN db.messages :
              db.messages[m].at \in Nat /\ db.messages[m].conv \in ConversationIds
         /\ \A i \in DOMAIN db.participants : db.participants[i].leftAt # None =>
              db.participants[i].leftAt \in Nat
<1>1. now \in Nat /\ Seconds \subseteq Nat
  BY MarketAssumption DEF DataInv, StoreInv, Seconds
<1>2. QED
  BY <1>1, RowTypes DEF ConversationRow, MessageRow, ParticipantRow

LEMMA DatesStart ==
  ASSUME Init
  PROVE  DatesInv
<1>1. db = StartDb /\ now = FirstSecond /\ FirstSecond \in Nat
  BY MarketAssumption DEF Init, Seconds
<1>2. ASSUME NEW c \in ConversationIds, db.conversations[c].sentAt # None
      PROVE  db.conversations[c].sentAt <= now
  BY <1>1, <1>2, StartAssumption DEF ConversationIds
<1>3. ASSUME NEW m \in DOMAIN db.messages, NEW c, c = db.messages[m].conv
      PROVE  /\ db.conversations[c].sentAt # None
             /\ db.messages[m].at <= db.conversations[c].sentAt
  BY <1>1, <1>3, StartAssumption
<1>4. QED
  BY <1>2, <1>3 DEF DatesInv

LEMMA DatesStep ==
  ASSUME DataInv, DatesInv, [Next]_marketVars
  PROVE  DatesInv'
<1>1. CASE \E r \in Req : Handle(r)
  <2>1. PICK r \in Req : Handle(r)
    BY <1>1
  <2>2. now' = now /\ now \in Nat
    BY <2>1, HandleWrites, Dates
  <2>3. ASSUME NEW c \in ConversationIds', db'.conversations[c].sentAt # None
        PROVE  db'.conversations[c].sentAt <= now
    <3>1. CASE c \in ConversationIds
      BY <2>1, <2>2, <2>3, <3>1, ConversationsKept DEF DatesInv
    <3>2. CASE c \notin ConversationIds
      <4>1. db'.conversations[c] = NewConversation(r)
        BY <2>1, <3>2, ConversationsKept
      <4>2. QED
        BY <2>3, <4>1 DEF NewConversation
    <3>3. QED
      BY <3>1, <3>2
  <2>4. ASSUME NEW m \in DOMAIN db'.messages, NEW c, c = db'.messages[m].conv
        PROVE  /\ db'.conversations[c].sentAt # None
               /\ db'.messages[m].at <= db'.conversations[c].sentAt
    <3>1. CASE m \in DOMAIN db.messages
      <4>1. db'.messages[m] = db.messages[m] /\ c = db.messages[m].conv
        BY <2>1, <2>4, <3>1, MessagesKept
      <4>2. /\ c \in ConversationIds /\ db.messages[m].at \in Nat
            /\ db.conversations[c].sentAt # None
            /\ db.conversations[c].sentAt \in Nat
            /\ db.messages[m].at <= db.conversations[c].sentAt
            /\ db.conversations[c].sentAt <= now
        BY <3>1, <4>1, Dates DEF DatesInv
      <4>3. \/ db'.conversations[c].sentAt = db.conversations[c].sentAt
            \/ db'.conversations[c].sentAt = now
        BY <2>1, <4>2, ConversationsKept
      <4>4. QED
        BY <2>2, <4>1, <4>2, <4>3, NoneAssumption
    <3>2. CASE m \notin DOMAIN db.messages
      <4>1. /\ SaveMessage(r)
            /\ db'.messages[m] = NewMessage(r, db.conversations[Conv(r)].last + 1)
        BY <2>1, <2>4, <3>2, MessagesKept
      <4>2. c = Conv(r) /\ db'.messages[m].at = now /\ Conv(r) \in ConversationIds
        BY <2>4, <4>1 DEF NewMessage, SaveMessage
      <4>3. db'.conversations[c].sentAt = now
        <5>1. StoreInv /\ pc[r] = "save"
          BY <4>1 DEF DataInv, SaveMessage
        <5>2. PICK n, old : /\ n = db.conversations[Conv(r)].last + 1
                            /\ old = db.conversations[Conv(r)]
          OBVIOUS
        <5>3. db'.conversations = [db.conversations EXCEPT ![Conv(r)] = Spoken(old, n)]
          BY <4>1, <5>1, <5>2, SaveMessageEffect
        <5>4. old \in ConversationRow(PostIds, Writers)
          BY <4>2, <5>2, RowTypes
        <5>5. db'.conversations[c] = Spoken(old, n)
          BY <4>2, <5>3 DEF ConversationIds
        <5>6. QED
          BY <5>4, <5>5 DEF Spoken, ConversationRow
      <4>4. QED
        BY <2>2, <4>2, <4>3, NoneAssumption
    <3>3. QED
      BY <3>1, <3>2
  <2>5. QED
    BY <2>2, <2>3, <2>4 DEF DatesInv
<1>2. CASE (\E r \in Req : Fail(r)) \/ Tick \/ UNCHANGED marketVars
  <2>1. db' = db /\ now' \in {now, now + 1} /\ now \in Nat
    BY <1>2, FailMoves, Dates DEF Tick, marketVars
  <2>2. \A c \in ConversationIds : db.conversations[c].sentAt # None =>
          /\ db.conversations[c].sentAt \in Nat
          /\ db.conversations[c].sentAt <= now
    BY Dates DEF DatesInv
  <2>3. \A c \in ConversationIds : db.conversations[c].sentAt # None =>
          db.conversations[c].sentAt <= now'
    BY <2>1, <2>2
  <2>4. QED
    BY <2>1, <2>3 DEF DatesInv, ConversationIds
<1>3. QED
  BY <1>1, <1>2 DEF Next

LEMMA DatesInvariant == Spec => []DatesInv
<1>1. Init => DatesInv
  BY DatesStart
<1>2. DataInv /\ DatesInv /\ [Next]_marketVars => DatesInv'
  BY DatesStep
<1>3. QED
  BY <1>1, <1>2, DataInvariant, PTL DEF Spec

\* Every request that changes who takes part came before r, and ended.
Settled(r) ==
  \A q \in Req : Op(q) \in {"createConversation", "leave", "send"} => q \in past[r]

\* The seller r still takes part, by the row i, in a conversation about the
\* post ...
TakesPart(r, i) ==
  LET c == db.participants[i].conv
  IN /\ i \in LiveRows(db.participants)
     /\ db.participants[i].user = User(r)
     /\ db.conversations[c].post = Post(r)
     /\ \/ db.participants[i].leftAt = None
        \/ \E m \in DOMAIN db.messages : /\ db.messages[m].conv = c
                                         /\ db.messages[m].at > db.participants[i].leftAt

\* ... and somebody else does, by the row j.
Together(r, i, j) ==
  /\ TakesPart(r, i) /\ j \in LiveRows(db.participants)
  /\ db.participants[j].conv = db.participants[i].conv
  /\ db.participants[j].user # User(r)

About(r, c) == c \in ConversationIds /\ db.conversations[c].post = Post(r)

\* What a seller's request has found so far.
TradableInv ==
  \A r \in Req : Op(r) = "tradable" =>
    /\ pc[r] = "others" =>
         /\ \A c \in got[r] : About(r, c)
         /\ Settled(r) => \A i \in DOMAIN db.participants :
              TakesPart(r, i) => db.participants[i].conv \in got[r]
    /\ pc[r] \in {"users", "done"} => \A pair \in got[r] : About(r, pair[1])
    /\ pc[r] = "users" /\ Settled(r) =>
         \A i, j \in DOMAIN db.participants : Together(r, i, j) =>
           <<db.participants[j].conv, db.participants[j].user>> \in got[r]
    /\ pc[r] = "done" /\ Settled(r) =>
         \A i, j \in DOMAIN db.participants :
           Together(r, i, j) /\ FindById(db, db.participants[j].user) =>
             <<db.participants[j].conv, db.participants[j].user>> \in got[r]
    /\ pc[r] = "done" => \A pair \in got[r] : \A q \in past[r] :
         ~(Op(q) = "withdraw" /\ User(q) = pair[2] /\ Done(q))

LEMMA TradableStill ==
  ASSUME DataInv, TradableInv, Still
  PROVE  TradableInv'
<1>1. /\ \A q \in Req : /\ Op(q)' = Op(q) /\ User(q)' = User(q) /\ Post(q)' = Post(q)
                        /\ Done(q)' => Done(q)
                        /\ \/ pc'[q] = pc[q] /\ got'[q] = got[q]
                           \/ pc'[q] = "failed"
      /\ db' = db /\ Req' = Req /\ past' = past
  BY DEF Still, Op, User, Post, Done
<1>2. ConversationIds' = ConversationIds
  BY <1>1 DEF ConversationIds
<1>3. ASSUME NEW r \in Req
      PROVE  /\ Settled(r)' = Settled(r)
             /\ \A c : About(r, c)' = About(r, c)
             /\ \A i : TakesPart(r, i)' = TakesPart(r, i)
             /\ \A i, j : Together(r, i, j)' = Together(r, i, j)
             /\ past[r] \subseteq Req
  BY <1>1, <1>2 DEF Settled, About, TakesPart, Together, DataInv, RequestInv
<1>4. ASSUME NEW r \in Req, Op(r) = "tradable",
             pc'[r] \in {"others", "users", "done"}
      PROVE  pc'[r] = pc[r] /\ got'[r] = got[r]
  BY <1>1, <1>4
<1>5. QED
  BY <1>1, <1>3, <1>4 DEF TradableInv

\* What there is of it after the step of another request.
LEMMA TradableRows ==
  ASSUME DataInv, NEW r \in Req, Handle(r), NEW s \in Req, s # r
  PROVE  /\ \A c : About(s, c) => About(s, c)'
         /\ Settled(s)' => Settled(s)
         /\ Settled(s) => \A i \in DOMAIN db'.participants :
              /\ i \in DOMAIN db.participants
              /\ db'.participants[i].conv = db.participants[i].conv
              /\ db'.participants[i].user = db.participants[i].user
              /\ TakesPart(s, i)' => TakesPart(s, i)
              /\ \A j \in DOMAIN db'.participants :
                   Together(s, i, j)' => Together(s, i, j)
<1>1. /\ RequestInv /\ StageInv /\ Moves(r) /\ ~Ended(r) /\ Req' = Req /\ plan' = plan
      /\ past'[s] = past[s]
  BY HandleMoves, OthersStay DEF DataInv
<1>2. \A q \in Req : Op(q)' = Op(q) /\ User(q)' = User(q) /\ Post(q)' = Post(q)
  BY <1>1 DEF Op, User, Post
<1>3. \A c : About(s, c) => About(s, c)'
  BY <1>2, ConversationsKept DEF About
<1>4. Settled(s)' => Settled(s)
  BY <1>1, <1>2 DEF Settled
<1>5. ASSUME Settled(s), NEW i \in DOMAIN db'.participants
      PROVE  /\ i \in DOMAIN db.participants
             /\ db'.participants[i].conv = db.participants[i].conv
             /\ db'.participants[i].user = db.participants[i].user
             /\ i \in LiveRows(db'.participants) => i \in LiveRows(db.participants)
             /\ TakesPart(s, i)' => TakesPart(s, i)
  <2>1. r \notin past[s]
    BY <1>1 DEF RequestInv
  <2>2. Op(r) \notin {"createConversation", "leave", "send"}
    BY <1>5, <2>1 DEF Settled
  <2>3. ~InsertConversation(r) /\ ~LeaveConversation(r) /\ ~SaveMessage(r)
    <3>1. InsertConversation(r) => pc[r] = "insert"
      BY DEF InsertConversation
    <3>2. LeaveConversation(r) => pc[r] = "leave"
      BY DEF LeaveConversation
    <3>3. SaveMessage(r) => pc[r] = "save"
      BY DEF SaveMessage
    <3>4. QED
      BY <1>1, <2>2, <3>1, <3>2, <3>3 DEF StageInv, StageOps
  <2>4. db'.conversations = db.conversations /\ db'.messages = db.messages
    BY <2>3, TableWriters
  <2>5. /\ i \in DOMAIN db.participants
        /\ db'.participants[i].conv = db.participants[i].conv
        /\ db'.participants[i].user = db.participants[i].user
        /\ db'.participants[i].leftAt = db.participants[i].leftAt
        /\ db'.participants[i].live => db.participants[i].live
    BY <1>5, <2>3, ParticipantsKept
  <2>6. i \in LiveRows(db'.participants) => i \in LiveRows(db.participants)
    BY <2>5 DEF LiveRows
  <2>7. TakesPart(s, i)' => TakesPart(s, i)
    BY <1>2, <2>4, <2>5, <2>6 DEF TakesPart
  <2>8. QED
    BY <2>5, <2>6, <2>7
<1>6. ASSUME Settled(s), NEW i \in DOMAIN db'.participants,
             NEW j \in DOMAIN db'.participants, Together(s, i, j)'
      PROVE  Together(s, i, j)
  BY <1>2, <1>5, <1>6 DEF Together
<1>7. QED
  BY <1>3, <1>4, <1>5, <1>6

\* The seller's own steps.
LEMMA TradableFinds ==
  ASSUME DataInv, DatesInv, GoneInv, TradableInv, NEW r \in Req, GetTradableUsers(r)
  PROVE  /\ pc'[r] = "others" =>
              /\ \A c \in got'[r] : About(r, c)
              /\ \A i \in DOMAIN db.participants :
                   TakesPart(r, i) => db.participants[i].conv \in got'[r]
         /\ pc'[r] \in {"users", "done"} => \A pair \in got'[r] : About(r, pair[1])
         /\ pc'[r] = "users" /\ Settled(r) =>
              \A i, j \in DOMAIN db.participants : Together(r, i, j) =>
                <<db.participants[j].conv, db.participants[j].user>> \in got'[r]
         /\ pc'[r] = "done" /\ Settled(r) =>
              \A i, j \in DOMAIN db.participants :
                Together(r, i, j) /\ FindById(db, db.participants[j].user) =>
                  <<db.participants[j].conv, db.participants[j].user>> \in got'[r]
         /\ pc'[r] = "done" => \A pair \in got'[r] : FindById(db, pair[2])
<1>1. RequestInv /\ Op(r) = "tradable"
  BY DEF DataInv, GetTradableUsers
<1>2. CASE pc[r] = "idle"
  <2>1. pc'[r] \in {"mine", "refused"}
    BY <1>1, <1>2, StepMoves DEF GetTradableUsers, Step, Refuse, Ends
  <2>2. QED
    BY <2>1
<1>3. CASE pc[r] = "mine"
  <2>1. pc'[r] = "others" /\ got'[r] = FindActiveByProduct(Post(r), User(r))
    <3>1. Step(r, "mine", "others", FindActiveByProduct(Post(r), User(r)))
      BY <1>3 DEF GetTradableUsers, Step, Refuse
    <3>2. QED
      BY <1>1, <3>1, StepMoves DEF Ends
  <2>2. ASSUME NEW c \in FindActiveByProduct(Post(r), User(r)) PROVE About(r, c)
    <3>1. PICK i \in ActiveParticipants(db) :
            /\ c = db.participants[i].conv /\ db.conversations[c].post = Post(r)
      BY DEF FindActiveByProduct
    <3>2. i \in DOMAIN db.participants
      BY <3>1 DEF ActiveParticipants, LiveRows
    <3>3. QED
      BY <3>1, <3>2, ParticipantNames DEF About
  <2>3. ASSUME NEW i \in DOMAIN db.participants, TakesPart(r, i)
        PROVE  db.participants[i].conv \in FindActiveByProduct(Post(r), User(r))
    <3>1. PICK c, left : c = db.participants[i].conv /\ left = db.participants[i].leftAt
      OBVIOUS
    <3>2. ASSUME left # None PROVE Reappeared(db, i)
      <4>1. PICK m \in DOMAIN db.messages : db.messages[m].conv = c /\ db.messages[m].at > left
        BY <2>3, <3>1, <3>2 DEF TakesPart
      <4>2. /\ db.conversations[c].sentAt # None
            /\ db.messages[m].at <= db.conversations[c].sentAt
        BY <4>1 DEF DatesInv
      <4>3. /\ left \in Nat /\ db.messages[m].at \in Nat
            /\ db.conversations[c].sentAt \in Nat
        BY <3>1, <3>2, <4>1, <4>2, Dates
      <4>4. left < db.conversations[c].sentAt
        BY <4>1, <4>2, <4>3
      <4>5. QED
        BY <3>1, <3>2, <4>2, <4>4 DEF Reappeared
    <3>3. i \in ActiveParticipants(db)
      BY <2>3, <3>1, <3>2 DEF ActiveParticipants, TakesPart
    <3>4. QED
      BY <2>3, <3>3 DEF FindActiveByProduct, TakesPart
  <2>4. QED
    BY <2>1, <2>2, <2>3
<1>4. CASE pc[r] = "others"
  <2>1. pc'[r] = "users" /\ got'[r] = FindOtherParticipants(got[r], User(r))
    <3>1. Step(r, "others", "users", FindOtherParticipants(got[r], User(r)))
      BY <1>4 DEF GetTradableUsers, Step, Refuse
    <3>2. QED
      BY <1>1, <3>1, StepMoves DEF Ends
  <2>2. /\ \A c \in got[r] : About(r, c)
        /\ Settled(r) => \A i \in DOMAIN db.participants :
             TakesPart(r, i) => db.participants[i].conv \in got[r]
    BY <1>1, <1>4 DEF TradableInv
  <2>3. ASSUME NEW pair \in got'[r] PROVE About(r, pair[1])
    BY <2>1, <2>2 DEF FindOtherParticipants
  <2>4. ASSUME Settled(r), NEW i \in DOMAIN db.participants,
               NEW j \in DOMAIN db.participants, Together(r, i, j)
        PROVE  <<db.participants[j].conv, db.participants[j].user>> \in got'[r]
    <3>1. /\ db.participants[i].conv \in got[r]
          /\ db.participants[j].conv = db.participants[i].conv
          /\ j \in LiveRows(db.participants) /\ db.participants[j].user # User(r)
      BY <2>2, <2>4 DEF Together
    <3>2. QED
      BY <2>1, <3>1 DEF FindOtherParticipants
  <2>5. QED
    BY <2>1, <2>3, <2>4
<1>5. CASE pc[r] = "users"
  <2>1. pc'[r] = "done" /\ got'[r] = {pair \in got[r] : FindById(db, pair[2])}
    <3>1. Step(r, "users", "done", {pair \in got[r] : FindById(db, pair[2])})
      BY <1>5 DEF GetTradableUsers, Step, Refuse
    <3>2. QED
      BY <1>1, <3>1, StepMoves DEF Ends
  <2>2. /\ \A pair \in got[r] : About(r, pair[1])
        /\ Settled(r) =>
             \A i, j \in DOMAIN db.participants : Together(r, i, j) =>
               <<db.participants[j].conv, db.participants[j].user>> \in got[r]
    BY <1>1, <1>5 DEF TradableInv
  <2>3. QED
    BY <2>1, <2>2
<1>6. QED
  BY <1>2, <1>3, <1>4, <1>5 DEF GetTradableUsers, Step, Refuse

LEMMA TradableHandle ==
  ASSUME DataInv, DatesInv, GoneInv, TradableInv, NEW r \in Req, Handle(r)
  PROVE  TradableInv'
<1>1. /\ RequestInv /\ Moves(r) /\ Advances(r) /\ ~Ended(r) /\ Req' = Req
      /\ plan' = plan /\ DataInv' /\ RequestInv'
  BY HandleMoves DEF DataInv
<1>2. \A q \in Req : Op(q)' = Op(q) /\ User(q)' = User(q) /\ Post(q)' = Post(q)
  BY <1>1 DEF Op, User, Post
<1>3. ASSUME NEW s \in Req, s # r, Op(s) = "tradable"
      PROVE  /\ pc'[s] = "others" =>
                  /\ \A c \in got'[s] : About(s, c)'
                  /\ Settled(s)' => \A i \in DOMAIN db'.participants :
                       TakesPart(s, i)' => db'.participants[i].conv \in got'[s]
             /\ pc'[s] \in {"users", "done"} =>
                  \A pair \in got'[s] : About(s, pair[1])'
             /\ pc'[s] = "users" /\ Settled(s)' =>
                  \A i, j \in DOMAIN db'.participants : Together(s, i, j)' =>
                    <<db'.participants[j].conv, db'.participants[j].user>> \in got'[s]
             /\ pc'[s] = "done" /\ Settled(s)' =>
                  \A i, j \in DOMAIN db'.participants :
                    Together(s, i, j)' /\ FindById(db', db'.participants[j].user) =>
                      <<db'.participants[j].conv, db'.participants[j].user>> \in got'[s]
             /\ pc'[s] = "done" => \A pair \in got'[s] : \A q \in past'[s] :
                  ~(Op(q) = "withdraw" /\ User(q) = pair[2] /\ Done(q)')
  <2>1. pc'[s] = pc[s] /\ got'[s] = got[s] /\ past'[s] = past[s]
    BY <1>1, <1>3, OthersStay
  <2>2. \A q \in past[s] : q \in Req /\ (Done(q)' => Done(q))
    <3>1. \A q \in past[s] : q \in Req /\ Ended(q)
      BY <1>1 DEF RequestInv
    <3>2. QED
      BY <1>1, <3>1, EndedStays DEF Done
  <2>3. \A i \in DOMAIN db.participants : db.participants[i].user \in UserIds
    BY ParticipantNames
  <2>4. \A u \in UserIds : FindById(db', u) => FindById(db, u)
    BY UsersFound
  <2>5. CASE pc[s] = "others"
    BY <1>3, <2>1, <2>5, TradableRows DEF TradableInv
  <2>6. CASE pc[s] = "users"
    BY <1>3, <2>1, <2>6, TradableRows DEF TradableInv
  <2>7. CASE pc[s] = "done"
    <3>1. \A pair \in got[s] : About(s, pair[1])
      BY <1>3, <2>7 DEF TradableInv
    <3>2. Settled(s) => \A i, j \in DOMAIN db.participants :
            Together(s, i, j) /\ FindById(db, db.participants[j].user) =>
              <<db.participants[j].conv, db.participants[j].user>> \in got[s]
      BY <1>3, <2>7 DEF TradableInv
    <3>3. \A pair \in got[s] : \A q \in past[s] :
            ~(Op(q) = "withdraw" /\ User(q) = pair[2] /\ Done(q))
      BY <1>3, <2>7 DEF TradableInv
    <3>4. ASSUME Settled(s)', NEW i \in DOMAIN db'.participants,
                 NEW j \in DOMAIN db'.participants, Together(s, i, j)',
                 FindById(db', db'.participants[j].user)
          PROVE  <<db'.participants[j].conv, db'.participants[j].user>> \in got[s]
      <4>1. /\ Settled(s) /\ Together(s, i, j)
            /\ i \in DOMAIN db.participants /\ j \in DOMAIN db.participants
            /\ db'.participants[j].conv = db.participants[j].conv
            /\ db'.participants[j].user = db.participants[j].user
        BY <1>3, <3>4, TradableRows
      <4>2. FindById(db, db.participants[j].user)
        BY <2>3, <2>4, <3>4, <4>1
      <4>3. QED
        BY <3>2, <4>1, <4>2
    <3>5. \A pair \in got[s] : About(s, pair[1])'
      BY <1>3, <3>1, TradableRows
    <3>6. QED
      BY <2>1, <2>2, <2>7, <3>3, <3>4, <3>5
  <2>8. QED
    BY <2>1, <2>5, <2>6, <2>7
<1>4. ASSUME Op(r) = "tradable"
      PROVE  /\ pc'[r] = "others" =>
                  /\ \A c \in got'[r] : About(r, c)
                  /\ \A i \in DOMAIN db.participants :
                       TakesPart(r, i) => db.participants[i].conv \in got'[r]
             /\ pc'[r] \in {"users", "done"} => \A pair \in got'[r] : About(r, pair[1])
             /\ pc'[r] = "users" /\ Settled(r) =>
                  \A i, j \in DOMAIN db.participants : Together(r, i, j) =>
                    <<db.participants[j].conv, db.participants[j].user>> \in got'[r]
             /\ pc'[r] = "done" /\ Settled(r) =>
                  \A i, j \in DOMAIN db.participants :
                    Together(r, i, j) /\ FindById(db, db.participants[j].user) =>
                      <<db.participants[j].conv, db.participants[j].user>> \in got'[r]
             /\ pc'[r] = "done" => \A pair \in got'[r] : FindById(db, pair[2])
  BY <1>4, HandlerOps, TradableFinds
<1>5. ASSUME Op(r) = "tradable"
      PROVE  /\ db' = db /\ ConversationIds' = ConversationIds
             /\ pc'[r] \in {"others", "users", "done"} => past'[r] = past[r]
             /\ \A q \in past[r] : q \in Req /\ q # r /\ Ended(q)
  <2>1. GetTradableUsers(r)
    BY <1>5, HandlerOps
  <2>2. db' = db
    BY <2>1 DEF GetTradableUsers, OnlyReads, NoWrite
  <2>3. pc[r] = "idle" => pc'[r] \in {"mine", "refused"}
    BY <1>1, <2>1, StepMoves DEF GetTradableUsers, Step, Refuse, Ends
  <2>4. pc[r] # "idle" => past'[r] = past[r]
    BY <1>1 DEF Moves
  <2>5. QED
    BY <1>1, <2>2, <2>3, <2>4 DEF ConversationIds, RequestInv
<1>6. ASSUME Op(r) = "tradable", pc'[r] \in {"others", "users", "done"}
      PROVE  /\ Settled(r)' = Settled(r)
             /\ \A c : About(r, c)' = About(r, c)
             /\ \A i : TakesPart(r, i)' = TakesPart(r, i)
             /\ \A i, j : Together(r, i, j)' = Together(r, i, j)
  BY <1>1, <1>2, <1>5, <1>6 DEF Settled, About, TakesPart, Together
<1>7. ASSUME Op(r) = "tradable", pc'[r] = "done", NEW pair \in got'[r], NEW q \in past'[r]
      PROVE  ~(Op(q) = "withdraw" /\ User(q) = pair[2] /\ Done(q)')
  <2>1. FindById(db, pair[2]) /\ q \in past[r]
    BY <1>4, <1>5, <1>7
  <2>2. q \in Req /\ (Done(q)' => Done(q))
    BY <1>1, <1>5, <1>7, <2>1, EndedStays DEF Done
  <2>3. QED
    BY <1>7, <2>1, <2>2 DEF GoneInv, RequestInv
<1>8. ASSUME NEW q \in past'[r] PROVE Op(q)' = Op(q) /\ User(q)' = User(q)
  BY <1>1 DEF Op, User
<1>9. ASSUME NEW s \in Req, Op(s) = "tradable"
      PROVE  /\ pc'[s] = "others" =>
                  /\ \A c \in got'[s] : About(s, c)'
                  /\ Settled(s)' => \A i \in DOMAIN db'.participants :
                       TakesPart(s, i)' => db'.participants[i].conv \in got'[s]
             /\ pc'[s] \in {"users", "done"} =>
                  \A pair \in got'[s] : About(s, pair[1])'
             /\ pc'[s] = "users" /\ Settled(s)' =>
                  \A i, j \in DOMAIN db'.participants : Together(s, i, j)' =>
                    <<db'.participants[j].conv, db'.participants[j].user>> \in got'[s]
             /\ pc'[s] = "done" /\ Settled(s)' =>
                  \A i, j \in DOMAIN db'.participants :
                    Together(s, i, j)' /\ FindById(db', db'.participants[j].user) =>
                      <<db'.participants[j].conv, db'.participants[j].user>> \in got'[s]
             /\ pc'[s] = "done" => \A pair \in got'[s] : \A q \in past'[s] :
                  ~(Op(q) = "withdraw" /\ User(q) = pair[2] /\ Done(q)')
  <2>1. CASE s # r
    BY <1>3, <1>9, <2>1
  <2>2. CASE s = r
    <3>1. CASE pc'[r] \notin {"others", "users", "done"}
      BY <2>2, <3>1
    <3>2. CASE pc'[r] \in {"others", "users", "done"}
      BY <1>4, <1>5, <1>6, <1>7, <1>9, <2>2, <3>2
    <3>3. QED
      BY <3>1, <3>2
  <2>3. QED
    BY <2>1, <2>2
<1>10. QED
  BY <1>1, <1>2, <1>8, <1>9 DEF TradableInv, Op, User

\* A seller is told of those who, of the people in the conversations about the
\* post that the seller still takes part in, had not withdrawn; and of all of
\* them, if nobody has come, left or spoken since the request arrived.
THEOREM TradableInvariant == Spec => []TradableInv
<1>1. Init => TradableInv
  BY DEF Init, RequestsInit, TradableInv
<1>2. DataInv /\ GoneInv /\ DatesInv /\ TradableInv /\ [Next]_marketVars => TradableInv'
  BY StillStep, TradableStill, TradableHandle
<1>3. QED
  BY <1>1, <1>2, DataInvariant, GoneInvariant, DatesInvariant, PTL DEF Spec

-----------------------------------------------------------------------------
(* The answers about likes.                                                *)

\* The user of r liked or unliked something meanwhile.
OwnLikes(r) ==
  \E q \in Req : Op(q) \in {"like", "unlike"} /\ User(q) = User(r) /\ Met(q, r)

Likes(r, p) == FindLike(db, p, User(r)) # {}

\* What the page of r says of a like still holds, or r's user interfered.
NoLikeSeen(r, p) == ~Likes(r, p) \/ OwnLikes(r)
LikeSeen(r, p)   == Likes(r, p) \/ OwnLikes(r)

Counting == OfPosts \cup {"purchases"}

Ahead(todo, query) == \E k \in DOMAIN todo : query \in todo[k]

\* What the answer of a query says of the likes.
Known(r, page, query) ==
  /\ query = "page" /\ Op(r) = "myLikes" =>
       \A k \in DOMAIN page.ids : LikeSeen(r, page.ids[k])
  /\ query = "likes" => \A p :
       (p \in DOMAIN page.likes => page.likes[p] = 0) => NoLikeSeen(r, p)
  /\ query = "liked" /\ Op(r) # "myLikes" =>
       \A p \in page.liked : LikeSeen(r, p)

\* An entry does not contradict itself.
Sound(r, entry) == entry.liked /\ entry.likes = 0 => OwnLikes(r)

PageFields == {"page", "todo", "seen", "kept", "ids", "hasNext", "likes", "chats",
               "liked", "start"}

SeenOk(r, page) ==
  /\ DOMAIN page = PageFields /\ page.page \in Nat \ {0}
  /\ \E R : page.seen \in Seq(R)
  /\ \E R : page.ids \in Seq(R)
  /\ \A k \in DOMAIN page.seen : Sound(r, page.seen[k])

QueryNames == {"filter", "page", "posts", "likes", "chats", "liked"}

AnswersOk(r, page) ==
  /\ page.todo \in Seq(SUBSET QueryNames) /\ page.todo # << >>
  /\ Ahead(page.todo, "posts") => Op(r) = "purchases"
  /\ \A query : Ahead(page.todo, query) \/ Known(r, page, query)

DetailOk(r, s, v) ==
  /\ s \in {"images", "count", "own"} => {"images", "likes", "liked"} \subseteq DOMAIN v
  /\ s = "own" => (v.likes = 0 => NoLikeSeen(r, Post(r)))
  /\ s = "done" => Sound(r, v)

ListOk(r, s, v) ==
  /\ s \in {"query", "again", "done"} => SeenOk(r, v)
  /\ s = "query" => AnswersOk(r, v)

LikedInv ==
  \A r \in Req : \A s \in {pc[r]}, v \in {got[r]} :
    /\ Op(r) = "detail" => DetailOk(r, s, v)
    /\ Op(r) \in Counting => ListOk(r, s, v)

-----------------------------------------------------------------------------

\* The values of a function on a finite set.
LEMMA FiniteImage ==
  ASSUME NEW S, IsFiniteSet(S), NEW f
  PROVE  IsFiniteSet({f[x] : x \in S})
<1>1. PICK T, g : T = {f[x] : x \in S} /\ g = [x \in S |-> f[x]]
  OBVIOUS
<1>2. g \in Surjection(S, T)
  BY <1>1 DEF Surjection
<1>3. QED
  BY <1>1, <1>2, FS_Surjection

LEMMA FiniteTables ==
  ASSUME DataInv
  PROVE  /\ IsFiniteSet(PostIds) /\ IsFiniteSet(DOMAIN db.images)
         /\ IsFiniteSet(DOMAIN db.likes) /\ IsFiniteSet(DOMAIN db.progress)
<1>1. ASSUME NEW R, NEW s \in Seq(R) PROVE IsFiniteSet(DOMAIN s)
  <2>1. DOMAIN s = 1 .. Len(s) /\ Len(s) \in Nat
    OBVIOUS
  <2>2. QED
    BY <2>1, FS_Interval
<1>2. QED
  BY <1>1, RowTypes DEF PostIds

\* The rows of posts, each with a thumbnail or None.
LEMMA PostRowsFinite ==
  ASSUME DataInv, NEW S \in SUBSET PostIds
  PROVE  IsFiniteSet(WithThumbnails(S))
<1>1. PICK A : A = PostIds \X (DOMAIN db.images \cup {None})
  OBVIOUS
<1>2. IsFiniteSet(A)
  <2>1. IsFiniteSet(DOMAIN db.images \cup {None})
    BY FiniteTables, FS_AddElement
  <2>2. QED
    BY <1>1, <2>1, FiniteTables, FS_Product
<1>3. PICK f : f = [x \in A |-> [id |-> x[1], at |-> db.posts[x[1]].at, join |-> x[2]]]
  OBVIOUS
<1>4. ASSUME NEW row \in WithThumbnails(S) PROVE row \in {f[x] : x \in A}
  <2>1. PICK p \in S : \E i \in OrNone(Thumbnails(db, p)) :
          row = [id |-> p, at |-> db.posts[p].at, join |-> i]
    BY DEF WithThumbnails
  <2>2. PICK i \in OrNone(Thumbnails(db, p)) :
          row = [id |-> p, at |-> db.posts[p].at, join |-> i]
    BY <2>1
  <2>3. i \in DOMAIN db.images \cup {None}
    BY DEF OrNone, Thumbnails, FindImages, LiveRows
  <2>4. <<p, i>> \in A
    BY <1>1, <2>3
  <2>5. f[<<p, i>>] = row
    BY <1>3, <2>2, <2>4
  <2>6. QED
    BY <2>4, <2>5
<1>5. PICK T : T = {f[x] : x \in A}
  OBVIOUS
<1>6. IsFiniteSet(T)
  BY <1>2, <1>5, FiniteImage
<1>7. WithThumbnails(S) \in SUBSET T
  BY <1>4, <1>5
<1>8. QED
  BY <1>6, <1>7, FS_Subset

LEMMA ListRows ==
  ASSUME DataInv, NEW r \in Req, Op(r) \in Counting, NEW kept
  PROVE  /\ IsFiniteSet(Rows(r, kept))
         /\ Op(r) = "myLikes" => \A row \in Rows(r, kept) : Likes(r, row.id)
<1>1. PICK W : W = WithThumbnails({p \in PostIds : Shown(p)})
  OBVIOUS
<1>2. IsFiniteSet(W)
  BY <1>1, PostRowsFinite
<1>3. CASE Op(r) \in {"list", "search"}
  <2>1. IsFiniteSet(PagedPosts(r, kept))
    BY PostRowsFinite DEF PagedPosts
  <2>2. FoundPosts(r, kept) \subseteq PagedPosts(r, kept)
    BY DEF FoundPosts
  <2>3. Rows(r, kept) \in {PagedPosts(r, kept), FoundPosts(r, kept)}
    BY <1>3 DEF Rows
  <2>4. QED
    BY <1>3, <2>1, <2>2, <2>3, FS_Subset
<1>4. CASE Op(r) \in {"mySales", "userSales"}
  <2>1. LiveRows(db.posts) \subseteq PostIds
    BY DEF LiveRows, PostIds
  <2>2. IsFiniteSet(MySales(r)) /\ IsFiniteSet(UserSales(r))
    BY <2>1, PostRowsFinite DEF MySales, UserSales
  <2>3. Rows(r, kept) \in {MySales(r), UserSales(r)}
    BY <1>4 DEF Rows
  <2>4. QED
    BY <1>4, <2>2, <2>3
<1>5. CASE Op(r) = "myLikes"
  <2>1. Rows(r, kept) = MyLikes(r)
    BY <1>5 DEF Rows
  <2>2. PICK A : A = W \X DOMAIN db.likes
    OBVIOUS
  <2>3. IsFiniteSet(A)
    BY <1>2, <2>2, FiniteTables, FS_Product
  <2>4. PICK f : f = [x \in A |->
          [id |-> x[1].id, at |-> x[1].at, join |-> <<x[1].join, x[2]>>]]
    OBVIOUS
  <2>5. ASSUME NEW row \in MyLikes(r)
        PROVE  row \in {f[x] : x \in A} /\ Likes(r, row.id)
    <3>1. PICK w \in W : \E i \in FindLike(db, w.id, User(r)) :
            row = [id |-> w.id, at |-> w.at, join |-> <<w.join, i>>]
      BY <1>1 DEF MyLikes
    <3>2. PICK i \in FindLike(db, w.id, User(r)) :
            row = [id |-> w.id, at |-> w.at, join |-> <<w.join, i>>]
      BY <3>1
    <3>3. i \in DOMAIN db.likes
      BY DEF FindLike, FindLikes
    <3>4. <<w, i>> \in A
      BY <2>2, <3>3
    <3>5. f[<<w, i>>] = row
      BY <2>4, <3>2, <3>4
    <3>6. row.id = w.id
      BY <3>2
    <3>7. QED
      BY <3>4, <3>5, <3>6 DEF Likes
  <2>6. PICK T : T = {f[x] : x \in A}
    OBVIOUS
  <2>7. IsFiniteSet(T)
    BY <2>3, <2>6, FiniteImage
  <2>8. MyLikes(r) \in SUBSET T
    BY <2>5, <2>6
  <2>9. QED
    BY <1>5, <2>1, <2>5, <2>7, <2>8, FS_Subset
<1>6. CASE Op(r) = "purchases"
  <2>1. Rows(r, kept) = Purchases(r)
    BY <1>6 DEF Rows
  <2>2. PICK f : f = [i \in DOMAIN db.progress |-> [id |-> i, at |-> db.progress[i].at]]
    OBVIOUS
  <2>3. Purchases(r) \subseteq {f[i] : i \in DOMAIN db.progress}
    BY <2>2 DEF Purchases, LiveRows
  <2>4. PICK T : T = {f[i] : i \in DOMAIN db.progress}
    OBVIOUS
  <2>5. IsFiniteSet(T)
    BY <2>4, FiniteTables, FiniteImage
  <2>6. Purchases(r) \in SUBSET T
    BY <2>3, <2>4
  <2>7. QED
    BY <1>6, <2>1, <2>5, <2>6, FS_Subset
<1>7. QED
  BY <1>3, <1>4, <1>5, <1>6 DEF Counting, OfPosts

\* A page holds rows of the list.
LEMMA PageRows ==
  ASSUME NEW R, IsFiniteSet(R), NEW rows \in SetToSeqs(R),
         NEW n \in Nat \ {0}, NEW size \in Nat \ {0}
  PROVE  SlicePage(rows, n, size).contents \in Seq(R)
<1>1. Cardinality(R) \in Nat
  BY FS_CardinalityType
<1>2. rows \in Seq(R)
  <2>1. rows \in [1 .. Cardinality(R) -> R]
    BY DEF SetToSeqs
  <2>2. rows = [i \in 1 .. Cardinality(R) |-> rows[i]]
        /\ \A i \in 1 .. Cardinality(R) : rows[i] \in R
    BY <2>1
  <2>3. QED
    BY <1>1, <2>2, FunctionIsSeq
<1>3. PICK offset : offset = (n - 1) * size
  OBVIOUS
<1>4. offset \in Nat
  <2>1. \A a, b \in Nat : a * b \in Nat
    OBVIOUS
  <2>2. n - 1 \in Nat
    OBVIOUS
  <2>3. QED
    BY <1>3, <2>1, <2>2
<1>5. ASSUME NEW s \in Seq(R), NEW a \in Nat, NEW b \in Nat, a >= 1
      PROVE  SubSeq(s, a, Min({b, Len(s)})) \in Seq(R)
  <2>1. Min({b, Len(s)}) = IF b <= Len(s) THEN b ELSE Len(s)
    BY <1>5, MinOfTwo
  <2>2. PICK m : m = Min({b, Len(s)})
    OBVIOUS
  <2>3. m \in Nat /\ m <= Len(s)
    BY <2>1, <2>2
  <2>4. \A i \in a .. m : s[i] \in R
    BY <1>5, <2>3
  <2>5. SubSeq(s, a, m) \in Seq(R)
    BY <2>3, <2>4, SubSeqProperties
  <2>6. QED
    BY <2>2, <2>5
<1>6. PICK w : w = Window(rows, GetOffset(n, size), size + 1)
  OBVIOUS
<1>7. w \in Seq(R)
  <2>1. offset + 1 \in Nat /\ offset + 1 >= 1 /\ offset + (size + 1) \in Nat
    BY <1>4
  <2>2. SubSeq(rows, offset + 1, Min({offset + (size + 1), Len(rows)})) \in Seq(R)
    BY <1>2, <1>5, <2>1
  <2>3. QED
    BY <1>3, <1>6, <2>2 DEF Window, GetOffset
<1>8. SubSeq(w, 1, Min({size, Len(w)})) \in Seq(R)
  <2>1. 1 \in Nat /\ 1 >= 1 /\ size \in Nat
    OBVIOUS
  <2>2. QED
    BY <1>5, <1>7, <2>1
<1>9. QED
  BY <1>6, <1>8 DEF SlicePage, Slice

\* What is left of the queries when one is answered.
NextTodo(todo, query) ==
  (IF Head(todo) \ {query} = {} THEN << >> ELSE <<Head(todo) \ {query}>>) \o Tail(todo)

LEMMA ConcatParts ==
  ASSUME NEW B, NEW a \in Seq(B), NEW b \in Seq(B), NEW c, c = a \o b
  PROVE  /\ c \in Seq(B) /\ Len(c) = Len(a) + Len(b) /\ DOMAIN c = 1 .. Len(c)
         /\ \A x \in 1 .. Len(c) : c[x] = IF x <= Len(a) THEN a[x] ELSE b[x - Len(a)]
         /\ Len(a) \in Nat /\ Len(b) \in Nat
         /\ DOMAIN a = 1 .. Len(a) /\ DOMAIN b = 1 .. Len(b)
OBVIOUS

LEMMA PushedFront ==
  ASSUME NEW B, NEW x \in B, NEW t \in Seq(B), NEW n, n = <<x>> \o t
  PROVE  /\ n \in Seq(B) /\ Len(n) = Len(t) + 1 /\ n[1] = x
         /\ \A k \in 2 .. Len(n) : n[k] = t[k - 1]
<1>1. PICK f : f = <<x>>
  OBVIOUS
<1>2. f \in Seq(B) /\ Len(f) = 1 /\ f[1] = x /\ n = f \o t
  BY <1>1
<1>3. /\ n \in Seq(B) /\ Len(n) = Len(f) + Len(t) /\ Len(t) \in Nat
      /\ \A k \in 1 .. Len(n) : n[k] = IF k <= Len(f) THEN f[k] ELSE t[k - Len(f)]
  BY <1>2, ConcatParts
<1>4. QED
  BY <1>2, <1>3

LEMMA TodoShrinks ==
  ASSUME NEW todo \in Seq(SUBSET QueryNames), todo # << >>, NEW query
  PROVE  /\ NextTodo(todo, query) \in Seq(SUBSET QueryNames)
         /\ \A y : Ahead(todo, y) => y = query \/ Ahead(NextTodo(todo, query), y)
         /\ \A y : Ahead(NextTodo(todo, query), y) => Ahead(todo, y)
<1>1. PICK S : S = SUBSET QueryNames
  OBVIOUS
<1>2. PICK rest, tail, next :
        /\ rest = Head(todo) \ {query} /\ tail = Tail(todo)
        /\ next = NextTodo(todo, query)
  OBVIOUS
<1>3. /\ todo \in Seq(S) /\ Len(todo) \in Nat /\ Len(todo) >= 1
      /\ DOMAIN todo = 1 .. Len(todo) /\ Head(todo) = todo[1]
  BY <1>1
<1>4. /\ tail \in Seq(S) /\ Len(tail) = Len(todo) - 1
      /\ \A k \in 1 .. Len(tail) : tail[k] = todo[k + 1]
  BY <1>2, <1>3
<1>5. rest \in S
  BY <1>1, <1>2, <1>3
<1>6. CASE rest = {}
  <2>1. next = << >> \o tail
    BY <1>2, <1>6 DEF NextTodo
  <2>2. next = tail
    BY <1>4, <2>1
  <2>3. ASSUME NEW y, NEW k \in DOMAIN todo, y \in todo[k], y # query
        PROVE  \E j \in DOMAIN next : y \in next[j]
    <3>1. k # 1
      BY <1>2, <1>3, <1>6, <2>3
    <3>2. k - 1 \in 1 .. Len(tail) /\ tail[k - 1] = todo[k]
      BY <1>3, <1>4, <3>1
    <3>3. QED
      BY <1>4, <2>2, <2>3, <3>2
  <2>4. ASSUME NEW y, NEW k \in DOMAIN next, y \in next[k]
        PROVE  \E j \in DOMAIN todo : y \in todo[j]
    <3>1. k \in 1 .. Len(tail) /\ k + 1 \in 1 .. Len(todo)
      BY <1>3, <1>4, <2>2
    <3>2. QED
      BY <1>3, <1>4, <2>2, <2>4, <3>1
  <2>5. QED
    BY <1>1, <1>2, <1>4, <2>2, <2>3, <2>4 DEF Ahead
<1>7. CASE rest # {}
  <2>1. next = <<rest>> \o tail
    BY <1>2, <1>7 DEF NextTodo
  <2>2. /\ next \in Seq(S) /\ Len(next) = Len(tail) + 1 /\ next[1] = rest
        /\ \A k \in 2 .. Len(next) : next[k] = tail[k - 1]
    BY <1>4, <1>5, <2>1, PushedFront
  <2>3. ASSUME NEW k \in 2 .. Len(todo) PROVE next[k] = todo[k]
    <3>1. k \in 2 .. Len(next) /\ k - 1 \in 1 .. Len(tail) /\ (k - 1) + 1 = k
      BY <1>3, <1>4, <2>2, <2>3
    <3>2. QED
      BY <1>4, <2>2, <3>1
  <2>4. /\ next \in Seq(S) /\ DOMAIN next = 1 .. Len(todo) /\ next[1] = rest
        /\ \A k \in 2 .. Len(todo) : next[k] = todo[k]
    BY <1>3, <1>4, <2>2, <2>3
  <2>5. ASSUME NEW y, NEW k \in DOMAIN todo, y \in todo[k], y # query
        PROVE  \E j \in DOMAIN next : y \in next[j]
    BY <1>2, <1>3, <2>4, <2>5
  <2>6. ASSUME NEW y, NEW k \in DOMAIN next, y \in next[k]
        PROVE  \E j \in DOMAIN todo : y \in todo[j]
    BY <1>2, <1>3, <2>4, <2>6
  <2>7. QED
    BY <1>1, <1>2, <2>4, <2>5, <2>6 DEF Ahead
<1>8. QED
  BY <1>6, <1>7

\* An entry put together from the answers of all the queries.
LEMMA EntrySound ==
  ASSUME NEW r \in Req, Op(r) \in Counting, NEW page,
         \A y : Known(r, page, y), NEW k \in DOMAIN page.ids
  PROVE  Sound(r, Entry(r, page, page.ids[k]))
<1>1. PICK i, p : i = page.ids[k] /\ p = Subject(r, i)
  OBVIOUS
<1>2. PICK liked : liked = (Op(r) = "myLikes" \/ p \in page.liked)
  OBVIOUS
<1>3. Entry(r, page, i) = [id |-> i, likes |-> page.likes[p], chats |-> page.chats[p],
                           liked |-> liked]
  BY <1>1, <1>2 DEF Entry, Counting
<1>4. liked => LikeSeen(r, p)
  <2>1. CASE Op(r) = "myLikes"
    BY <1>1, <2>1 DEF Known, Subject
  <2>2. CASE Op(r) # "myLikes"
    BY <1>2, <2>2 DEF Known
  <2>3. QED
    BY <2>1, <2>2
<1>5. page.likes[p] = 0 => NoLikeSeen(r, p)
  BY DEF Known
<1>6. PICK entry : entry = Entry(r, page, i)
  OBVIOUS
<1>7. entry.likes = page.likes[p] /\ entry.liked = liked
  BY <1>3, <1>6
<1>8. QED
  BY <1>1, <1>4, <1>5, <1>6, <1>7 DEF Sound, LikeSeen, NoLikeSeen

LEMMA TurnOk ==
  ASSUME DataInv, NEW r \in Req, NEW page, SeenOk(r, page), Turn(r, page),
         \A k \in DOMAIN page.ids : Sound(r, Entry(r, page, page.ids[k])),
         NEW v, v = got'[r]
  PROVE  pc'[r] \in {"again", "done"} /\ SeenOk(r, v)
<1>1. PICK new : new = [i \in DOMAIN page.ids |-> Entry(r, page, page.ids[i])]
  OBVIOUS
<1>2. PICK w : w = [page EXCEPT !.page = @ + 1, !.seen = @ \o new,
                      !.ids = << >>, !.likes = << >>, !.chats = << >>, !.liked = {}]
  OBVIOUS
<1>3. pc'[r] \in {"again", "done"} /\ v = w
  <2>1. RequestInv
    BY DEF DataInv
  <2>2. PICK to : to = IF page.hasNext THEN "again" ELSE "done"
    OBVIOUS
  <2>3. Step(r, "query", to, w)
    BY <1>1, <1>2, <2>2 DEF Turn
  <2>4. to \in {"again", "done"}
    BY <2>2
  <2>5. QED
    BY <2>1, <2>3, <2>4, StepMoves DEF Ends
<1>4. DOMAIN page = PageFields /\ page.page \in Nat \ {0}
  BY DEF SeenOk
<1>5. /\ DOMAIN w = PageFields /\ w.page \in Nat \ {0} /\ w.ids = << >>
      /\ w.seen = page.seen \o new
  BY <1>2, <1>4 DEF PageFields
<1>6. PICK R, S : page.seen \in Seq(R) /\ page.ids \in Seq(S)
  BY DEF SeenOk
<1>7. PICK E : E = {new[i] : i \in DOMAIN page.ids}
  OBVIOUS
<1>8. new \in Seq(E)
  <2>1. DOMAIN page.ids = 1 .. Len(page.ids) /\ Len(page.ids) \in Nat
    BY <1>6
  <2>2. /\ new = [i \in 1 .. Len(page.ids) |-> new[i]]
        /\ \A i \in 1 .. Len(page.ids) : new[i] \in E
    BY <1>1, <1>7, <2>1
  <2>3. QED
    BY <2>1, <2>2, FunctionIsSeq
<1>9. PICK B : B = R \cup E
  OBVIOUS
<1>10. page.seen \in Seq(B) /\ new \in Seq(B)
  BY <1>6, <1>8, <1>9, SeqGrows
<1>11. w.seen \in Seq(B)
  BY <1>5, <1>10
<1>12. ASSUME NEW k \in DOMAIN w.seen PROVE Sound(r, w.seen[k])
  <2>1. CASE k \in DOMAIN page.seen
    <3>1. w.seen[k] = page.seen[k]
      BY <1>5, <1>10, <2>1
    <3>2. QED
      BY <2>1, <3>1 DEF SeenOk
  <2>2. CASE k \notin DOMAIN page.seen
    <3>1. PICK j : j = k - Len(page.seen)
      OBVIOUS
    <3>2. j \in DOMAIN new /\ w.seen[k] = new[j]
      <4>1. PICK a, c : a = page.seen /\ c = w.seen
        OBVIOUS
      <4>2. a \in Seq(B) /\ new \in Seq(B) /\ c = a \o new
        BY <1>5, <1>10, <4>1
      <4>3. /\ Len(c) = Len(a) + Len(new) /\ DOMAIN c = 1 .. Len(c)
            /\ \A x \in 1 .. Len(c) : c[x] = IF x <= Len(a) THEN a[x] ELSE new[x - Len(a)]
            /\ Len(a) \in Nat /\ Len(new) \in Nat
            /\ DOMAIN a = 1 .. Len(a) /\ DOMAIN new = 1 .. Len(new)
        BY <4>2, ConcatParts
      <4>4. k \in 1 .. Len(c) /\ ~(k <= Len(a))
        BY <1>12, <2>2, <4>1, <4>3
      <4>5. k - Len(a) \in 1 .. Len(new)
        BY <4>3, <4>4
      <4>6. QED
        BY <3>1, <4>1, <4>3, <4>4, <4>5
    <3>3. QED
      BY <1>1, <3>2
  <2>3. QED
    BY <2>1, <2>2
<1>13. w.ids \in Seq(B)
  BY <1>5
<1>14. QED
  BY <1>3, <1>5, <1>11, <1>12, <1>13 DEF SeenOk

LEMMA ProceedOk ==
  ASSUME DataInv, NEW r \in Req, Op(r) \in Counting, NEW query, NEW page,
         SeenOk(r, page), page.todo \in Seq(SUBSET QueryNames), page.todo # << >>,
         Ahead(page.todo, "posts") => Op(r) = "purchases",
         \A y : y = query \/ Ahead(page.todo, y) \/ Known(r, page, y),
         Known(r, page, query), Proceed(r, query, page),
         NEW s, s = pc'[r], NEW v, v = got'[r]
  PROVE  ListOk(r, s, v)
<1>1. RequestInv
  BY DEF DataInv
<1>2. PICK todo : todo = NextTodo(page.todo, query)
  OBVIOUS
<1>3. PICK next : next = [page EXCEPT !.todo = todo]
  OBVIOUS
<1>4. IF todo = << >> THEN Turn(r, next) ELSE Step(r, "query", "query", next)
  BY <1>2, <1>3 DEF Proceed, NextTodo
<1>5. /\ todo \in Seq(SUBSET QueryNames)
      /\ \A y : Ahead(page.todo, y) => y = query \/ Ahead(todo, y)
      /\ \A y : Ahead(todo, y) => Ahead(page.todo, y)
  BY <1>2, TodoShrinks
<1>6. DOMAIN page = PageFields
  BY DEF SeenOk
<1>7. /\ DOMAIN next = PageFields /\ next.todo = todo /\ next.page = page.page
      /\ next.seen = page.seen /\ next.ids = page.ids /\ next.likes = page.likes
      /\ next.liked = page.liked
  BY <1>3, <1>6 DEF PageFields
<1>8. SeenOk(r, next)
  BY <1>6, <1>7 DEF SeenOk
<1>9. \A y : Known(r, page, y) => Known(r, next, y)
  BY <1>7 DEF Known
<1>10. \A y : Ahead(todo, y) \/ Known(r, next, y)
  BY <1>5, <1>9
<1>11. CASE todo = << >>
  <2>1. \A y : ~Ahead(todo, y)
    BY <1>11 DEF Ahead
  <2>2. \A k \in DOMAIN next.ids : Sound(r, Entry(r, next, next.ids[k]))
    BY <1>10, <2>1, EntrySound
  <2>3. s \in {"again", "done"} /\ SeenOk(r, v)
    BY <1>4, <1>8, <1>11, <2>2, TurnOk
  <2>4. QED
    BY <2>3 DEF ListOk
<1>12. CASE todo # << >>
  <2>1. s = "query" /\ v = next
    BY <1>1, <1>4, <1>12, StepMoves DEF Ends
  <2>2. AnswersOk(r, next)
    BY <1>5, <1>7, <1>10, <1>12 DEF AnswersOk
  <2>3. QED
    BY <1>8, <2>1, <2>2 DEF ListOk
<1>13. QED
  BY <1>11, <1>12

\* A handler of a list has got its answer to a query: next is its page now.
LEMMA AnswerOk ==
  ASSUME DataInv, NEW r \in Req, Op(r) \in Counting, NEW page,
         SeenOk(r, page), AnswersOk(r, page), NEW query, NEW next,
         DOMAIN next = PageFields, next.page = page.page,
         next.seen = page.seen, next.todo = page.todo,
         NEW R, next.ids \in Seq(R),
         \A y : y = query \/ (Known(r, page, y) => Known(r, next, y)),
         Known(r, next, query), Proceed(r, query, next),
         NEW s, s = pc'[r], NEW v, v = got'[r]
  PROVE  ListOk(r, s, v)
<1>1. SeenOk(r, next)
  BY DEF SeenOk
<1>2. /\ next.todo \in Seq(SUBSET QueryNames) /\ next.todo # << >>
      /\ Ahead(next.todo, "posts") => Op(r) = "purchases"
      /\ \A y : y = query \/ Ahead(next.todo, y) \/ Known(r, next, y)
  BY DEF AnswersOk
<1>3. QED
  BY <1>1, <1>2, ProceedOk

LEMMA AskForPageOk ==
  ASSUME DataInv, LikedInv, NEW r \in Req, Op(r) \in Counting, AskForPage(r),
         NEW s, s = pc'[r], NEW v, v = got'[r]
  PROVE  ListOk(r, s, v)
<1>1. PICK from \in {"idle", "again"} : Step(r, from, "query",
        [IF from = "idle" THEN [NoPage EXCEPT !.start = Ids(r, Filter(r))]
                          ELSE got[r] EXCEPT !.todo = Queries(Op(r))])
  BY DEF AskForPage
<1>2. PICK page : page = IF from = "idle"
                           THEN [NoPage EXCEPT !.start = Ids(r, Filter(r))] ELSE got[r]
  OBVIOUS
<1>3. PICK todo : todo = Queries(Op(r))
  OBVIOUS
<1>4. s = "query" /\ v = [page EXCEPT !.todo = todo] /\ pc[r] = from
  <2>1. RequestInv
    BY DEF DataInv
  <2>2. PICK w : w = [page EXCEPT !.todo = todo]
    OBVIOUS
  <2>3. Step(r, from, "query", w)
    BY <1>1, <1>2, <1>3, <2>2
  <2>4. QED
    BY <2>1, <2>2, <2>3, StepMoves DEF Ends
<1>5. SeenOk(r, page)
  <2>1. CASE from = "idle"
    <3>1. PICK start : start = Ids(r, Filter(r))
      OBVIOUS
    <3>2. page = [NoPage EXCEPT !.start = start]
      BY <1>2, <2>1, <3>1
    <3>3. /\ DOMAIN page = PageFields /\ page.page = 1
          /\ page.seen = << >> /\ page.ids = << >>
      BY <3>2 DEF NoPage, PageFields
    <3>4. << >> \in Seq({})
      OBVIOUS
    <3>5. QED
      BY <3>3, <3>4 DEF SeenOk
  <2>2. CASE from = "again"
    BY <1>2, <1>4, <2>2 DEF LikedInv, ListOk
  <2>3. QED
    BY <2>1, <2>2
<1>6. SeenOk(r, v)
  <2>1. DOMAIN page = PageFields
    BY <1>5 DEF SeenOk
  <2>2. /\ DOMAIN v = PageFields /\ v.page = page.page /\ v.seen = page.seen
        /\ v.ids = page.ids /\ v.todo = todo
    BY <1>4, <2>1 DEF PageFields
  <2>3. QED
    BY <1>5, <2>2 DEF SeenOk
<1>7. v.todo = todo
  BY <1>4, <1>5 DEF SeenOk, PageFields
<1>8. /\ todo \in Seq(SUBSET QueryNames) /\ todo # << >>
      /\ Ahead(todo, "posts") => Op(r) = "purchases"
      /\ Ahead(todo, "page") /\ Ahead(todo, "likes")
      /\ Ahead(todo, "liked") \/ Op(r) = "myLikes"
  <2>1. CASE Op(r) \in {"list", "search"}
    <3>1. todo = <<{"filter"}, {"page"}, {"likes"}, {"chats"}, {"liked"}>>
      BY <1>3, <2>1 DEF Queries, FindPagedProductPosts, SearchProductPosts
    <3>2. todo[2] = {"page"} /\ todo[3] = {"likes"} /\ todo[5] = {"liked"}
      BY <3>1
    <3>3. DOMAIN todo = 1 .. 5
      BY <3>1
    <3>4. \A k \in DOMAIN todo : "posts" \notin todo[k]
      BY <3>1
    <3>5. todo \in Seq(SUBSET QueryNames) /\ todo # << >>
      BY <3>1 DEF QueryNames
    <3>6. QED
      BY <3>2, <3>3, <3>4, <3>5 DEF Ahead
  <2>2. CASE Op(r) \in {"mySales", "userSales"}
    <3>1. todo = <<{"page"}, {"likes"}, {"chats"}, {"liked"}>>
      BY <1>3, <2>2 DEF Queries, FindMySales, FindUserSales
    <3>2. todo[1] = {"page"} /\ todo[2] = {"likes"} /\ todo[4] = {"liked"}
      BY <3>1
    <3>3. DOMAIN todo = 1 .. 4
      BY <3>1
    <3>4. \A k \in DOMAIN todo : "posts" \notin todo[k]
      BY <3>1
    <3>5. todo \in Seq(SUBSET QueryNames) /\ todo # << >>
      BY <3>1 DEF QueryNames
    <3>6. QED
      BY <3>2, <3>3, <3>4, <3>5 DEF Ahead
  <2>3. CASE Op(r) = "myLikes"
    <3>1. todo = <<{"page"}, {"likes"}, {"chats"}>>
      BY <1>3, <2>3 DEF Queries, FindMyLikes
    <3>2. todo[1] = {"page"} /\ todo[2] = {"likes"}
      BY <3>1
    <3>3. DOMAIN todo = 1 .. 3
      BY <3>1
    <3>4. \A k \in DOMAIN todo : "posts" \notin todo[k]
      BY <3>1
    <3>5. todo \in Seq(SUBSET QueryNames) /\ todo # << >>
      BY <3>1 DEF QueryNames
    <3>6. QED
      BY <2>3, <3>2, <3>3, <3>4, <3>5 DEF Ahead
  <2>4. CASE Op(r) = "purchases"
    <3>1. todo = <<{"page"}, {"posts"}, {"likes", "liked", "chats"}>>
      BY <1>3, <2>4 DEF Queries, FindMyPurchases
    <3>2. todo[1] = {"page"} /\ todo[3] = {"likes", "liked", "chats"}
      BY <3>1
    <3>3. DOMAIN todo = 1 .. 3
      BY <3>1
    <3>4. todo \in Seq(SUBSET QueryNames) /\ todo # << >>
      BY <3>1 DEF QueryNames
    <3>5. QED
      BY <2>4, <3>2, <3>3, <3>4 DEF Ahead
  <2>5. QED
    BY <2>1, <2>2, <2>3, <2>4 DEF Counting, OfPosts
<1>9. AnswersOk(r, v)
  <2>1. ASSUME NEW y PROVE Ahead(todo, y) \/ Known(r, v, y)
    BY <1>8 DEF Known
  <2>2. QED
    BY <1>7, <1>8, <2>1 DEF AnswersOk
<1>10. QED
  BY <1>4, <1>6, <1>9 DEF ListOk

LEMMA ReadFilterOk ==
  ASSUME DataInv, NEW r \in Req, Op(r) \in Counting, ReadFilter(r),
         NEW page, page = got[r], SeenOk(r, page), AnswersOk(r, page),
         NEW s, s = pc'[r], NEW v, v = got'[r]
  PROVE  ListOk(r, s, v)
<1>1. PICK kept : kept = Filter(r)
  OBVIOUS
<1>2. PICK next, last : /\ next = [page EXCEPT !.kept = kept]
                        /\ last = [next EXCEPT !.todo = << >>]
  OBVIOUS
<1>3. IF next.kept = None THEN Step(r, "query", "done", last)
                          ELSE Proceed(r, "filter", next)
  BY <1>1, <1>2 DEF ReadFilter
<1>4. DOMAIN page = PageFields
  BY DEF SeenOk
<1>5. /\ DOMAIN next = PageFields /\ next.page = page.page /\ next.seen = page.seen
      /\ next.todo = page.todo /\ next.ids = page.ids /\ next.likes = page.likes
      /\ next.liked = page.liked
  BY <1>2, <1>4 DEF PageFields
<1>6. CASE next.kept = None
  <2>1. RequestInv
    BY DEF DataInv
  <2>2. s = "done" /\ v = last
    BY <1>3, <1>6, <2>1, StepMoves DEF Ends
  <2>3. /\ DOMAIN last = PageFields /\ last.page = page.page
        /\ last.seen = page.seen /\ last.ids = page.ids
    BY <1>2, <1>5 DEF PageFields
  <2>4. SeenOk(r, last)
    BY <2>3 DEF SeenOk
  <2>5. QED
    BY <2>2, <2>4 DEF ListOk
<1>7. CASE next.kept # None
  <2>1. PICK R : next.ids \in Seq(R)
    BY <1>5 DEF SeenOk
  <2>2. \A y : Known(r, page, y) => Known(r, next, y)
    BY <1>5 DEF Known
  <2>3. Known(r, next, "filter")
    BY DEF Known
  <2>4. QED
    BY <1>3, <1>5, <1>7, <2>1, <2>2, <2>3, AnswerOk
<1>8. QED
  BY <1>6, <1>7

PageWith(page, slice) ==
  [page EXCEPT !.hasNext = slice.hasNext,
     !.ids = [i \in DOMAIN slice.contents |-> slice.contents[i].id]]

LEMMA ReadPageOk ==
  ASSUME DataInv, NEW r \in Req, Op(r) \in Counting, ReadPage(r),
         NEW page, page = got[r], SeenOk(r, page), AnswersOk(r, page),
         NEW s, s = pc'[r], NEW v, v = got'[r]
  PROVE  ListOk(r, s, v)
<1>1. PICK R : R = Rows(r, page.kept)
  OBVIOUS
<1>2. IsFiniteSet(R) /\ (Op(r) = "myLikes" => \A row \in R : Likes(r, row.id))
  BY <1>1, ListRows
<1>3. PICK rows \in Orders(r, Rows(r, got[r].kept)) :
        IF /\ Op(r) = "purchases"
           /\ PageWith(got[r], SlicePage(rows, got[r].page, plan[r].size)).ids = << >>
          THEN Turn(r, [PageWith(got[r], SlicePage(rows, got[r].page, plan[r].size))
                          EXCEPT !.todo = << >>])
          ELSE Proceed(r, "page",
                 PageWith(got[r], SlicePage(rows, got[r].page, plan[r].size)))
  BY Zenon DEF ReadPage, PageWith
<1>4. PICK slice : slice = SlicePage(rows, got[r].page, plan[r].size)
  OBVIOUS
<1>5. PICK contents, ids : /\ contents = slice.contents
                           /\ ids = [i \in DOMAIN contents |-> contents[i].id]
  OBVIOUS
<1>6. PICK next, last : /\ next = PageWith(got[r], slice)
                        /\ last = [next EXCEPT !.todo = << >>]
  OBVIOUS
<1>7. IF Op(r) = "purchases" /\ next.ids = << >> THEN Turn(r, last)
      ELSE Proceed(r, "page", next)
  BY <1>3, <1>4, <1>6
<1>8. DOMAIN page = PageFields /\ page.page \in Nat \ {0}
  BY DEF SeenOk
<1>9. /\ DOMAIN next = PageFields /\ next.page = page.page /\ next.seen = page.seen
      /\ next.todo = page.todo /\ next.ids = ids /\ next.likes = page.likes
      /\ next.liked = page.liked
  <2>1. PICK hasNext : hasNext = slice.hasNext
    OBVIOUS
  <2>2. next = [page EXCEPT !.hasNext = hasNext, !.ids = ids]
    BY <1>5, <1>6, <2>1 DEF PageWith
  <2>3. QED
    BY <1>8, <2>2 DEF PageFields
<1>10. plan[r].size \in Nat \ {0}
  BY RequestTypes DEF DataInv, StoreInv, Counting, Lists
<1>11. contents \in Seq(R)
  <2>1. rows \in SetToSeqs(R)
    BY <1>1, <1>3 DEF Orders
  <2>2. slice = SlicePage(rows, page.page, plan[r].size)
    BY <1>4
  <2>3. QED
    BY <1>2, <1>5, <1>8, <1>10, <2>1, <2>2, PageRows
<1>12. PICK I : I = {ids[i] : i \in DOMAIN contents}
  OBVIOUS
<1>13. ids \in Seq(I) /\ DOMAIN ids = DOMAIN contents
  <2>1. DOMAIN contents = 1 .. Len(contents) /\ Len(contents) \in Nat
    BY <1>11
  <2>2. /\ ids = [i \in 1 .. Len(contents) |-> ids[i]]
        /\ \A i \in 1 .. Len(contents) : ids[i] \in I
    BY <1>5, <1>12, <2>1
  <2>3. DOMAIN ids = DOMAIN contents
    BY <1>5
  <2>4. PICK n : n = Len(contents)
    OBVIOUS
  <2>5. /\ n \in Nat /\ ids = [i \in 1 .. n |-> ids[i]]
        /\ \A i \in 1 .. n : ids[i] \in I
    BY <2>1, <2>2, <2>4
  <2>6. ids \in Seq(I)
    BY <2>5, FunctionIsSeq
  <2>7. QED
    BY <2>3, <2>6
<1>14. Known(r, next, "page")
  <2>1. ASSUME Op(r) = "myLikes", NEW k \in DOMAIN ids PROVE LikeSeen(r, ids[k])
    <3>1. contents[k] \in R /\ ids[k] = contents[k].id
      BY <1>5, <1>11, <1>13, <2>1
    <3>2. QED
      BY <1>2, <2>1, <3>1 DEF LikeSeen
  <2>2. QED
    BY <1>9, <2>1 DEF Known
<1>15. CASE Op(r) = "purchases" /\ next.ids = << >>
  <2>1. /\ DOMAIN last = PageFields /\ last.page = page.page
        /\ last.seen = page.seen /\ last.ids = ids
    BY <1>6, <1>9 DEF PageFields
  <2>2. SeenOk(r, last)
    BY <1>13, <2>1 DEF SeenOk
  <2>3. DOMAIN last.ids = {}
    <3>1. last.ids = << >>
      BY <1>9, <1>15, <2>1
    <3>2. \A w : w = << >> => DOMAIN w = {}
      OBVIOUS
    <3>3. QED
      BY <3>1, <3>2
  <2>4. s \in {"again", "done"} /\ SeenOk(r, v)
    BY <1>7, <1>15, <2>2, <2>3, TurnOk
  <2>5. QED
    BY <2>4 DEF ListOk
<1>16. CASE ~(Op(r) = "purchases" /\ next.ids = << >>)
  <2>1. \A y : y = "page" \/ (Known(r, page, y) => Known(r, next, y))
    BY <1>9 DEF Known
  <2>2. next.ids \in Seq(I)
    BY <1>9, <1>13
  <2>3. QED
    BY <1>7, <1>9, <1>14, <1>16, <2>1, <2>2, AnswerOk
<1>17. QED
  BY <1>15, <1>16

\* When no likes of a post are counted, nobody likes it.
LEMMA NoLikes ==
  ASSUME DataInv, NEW r \in Req, NEW p,
         p \in PostIds => Cardinality(FindLikes(db, p)) = 0
  PROVE  ~Likes(r, p)
<1>1. FindLikes(db, p) = {}
  <2>1. CASE p \in PostIds
    <3>1. PICK A, S : A = DOMAIN db.likes /\ S = FindLikes(db, p)
      OBVIOUS
    <3>2. S \in SUBSET A /\ IsFiniteSet(A)
      BY <3>1, FiniteTables DEF FindLikes
    <3>3. IsFiniteSet(S)
      BY <3>2, FS_Subset
    <3>4. QED
      BY <2>1, <3>1, <3>3, FS_EmptySet
  <2>2. CASE p \notin PostIds
    <3>1. \A i \in DOMAIN db.likes : db.likes[i].post \in PostIds
      BY RowTypes DEF LikeRow
    <3>2. QED
      BY <2>2, <3>1 DEF FindLikes
  <2>3. QED
    BY <2>1, <2>2
<1>2. QED
  BY <1>1 DEF Likes, FindLike

LEMMA FoundPostsOk ==
  ASSUME DataInv, NEW r \in Req, Op(r) \in Counting, FindByIdsIncludingDeleted(r),
         NEW page, page = got[r], SeenOk(r, page), AnswersOk(r, page),
         NEW s, s = pc'[r], NEW v, v = got'[r]
  PROVE  ListOk(r, s, v)
<1>1. PICK found : found = {i \in ToSet(page.ids) : Subject(r, i) \in PostIds}
  OBVIOUS
<1>2. PICK ids, next : ids = Found(page.ids, found) /\ next = [page EXCEPT !.ids = ids]
  OBVIOUS
<1>3. Proceed(r, "posts", next)
  BY <1>1, <1>2 DEF FindByIdsIncludingDeleted
<1>4. DOMAIN page = PageFields
  BY DEF SeenOk
<1>5. /\ DOMAIN next = PageFields /\ next.page = page.page /\ next.seen = page.seen
      /\ next.todo = page.todo /\ next.ids = ids /\ next.likes = page.likes
      /\ next.liked = page.liked
  BY <1>2, <1>4 DEF PageFields
<1>6. PICK kept, n : /\ kept = {k \in DOMAIN page.ids : page.ids[k] \in found}
                     /\ n = Cardinality(kept)
  OBVIOUS
<1>7. n \in Nat
  <2>1. PICK S : page.ids \in Seq(S)
    BY DEF SeenOk
  <2>2. PICK A : A = DOMAIN page.ids
    OBVIOUS
  <2>3. A = 1 .. Len(page.ids) /\ Len(page.ids) \in Nat
    BY <2>1, <2>2
  <2>4. IsFiniteSet(A) /\ kept \in SUBSET A
    BY <1>6, <2>2, <2>3, FS_Interval
  <2>5. IsFiniteSet(kept)
    BY <2>4, FS_Subset
  <2>6. QED
    BY <1>6, <2>5, FS_CardinalityType
<1>8. PICK I : I = {ids[k] : k \in 1 .. n}
  OBVIOUS
<1>9. ids \in Seq(I)
  <2>1. DOMAIN ids = 1 .. n
    BY <1>2, <1>6 DEF Found
  <2>2. ids = [k \in 1 .. n |-> ids[k]]
    BY <1>2, <1>6 DEF Found
  <2>3. \A k \in 1 .. n : ids[k] \in I
    BY <1>8
  <2>4. QED
    BY <1>7, <2>2, <2>3, FunctionIsSeq
<1>10. Op(r) = "purchases"
  <2>1. /\ page.todo \in Seq(SUBSET QueryNames) /\ page.todo # << >>
        /\ "posts" \in Head(page.todo)
    BY DEF FindByIdsIncludingDeleted, Awaits, AnswersOk
  <2>2. 1 \in DOMAIN page.todo /\ "posts" \in page.todo[1]
    BY <2>1
  <2>3. QED
    BY <2>2 DEF Ahead, AnswersOk
<1>11. Known(r, next, "posts")
  BY DEF Known
<1>12. \A y : Known(r, page, y) => Known(r, next, y)
  BY <1>5, <1>10 DEF Known
<1>13. next.ids \in Seq(I)
  BY <1>5, <1>9
<1>14. QED
  BY <1>3, <1>5, <1>11, <1>12, <1>13, AnswerOk

LEMMA CountLikesOk ==
  ASSUME DataInv, NEW r \in Req, Op(r) \in Counting, CountLikes(r),
         NEW page, page = got[r], SeenOk(r, page), AnswersOk(r, page),
         NEW s, s = pc'[r], NEW v, v = got'[r]
  PROVE  ListOk(r, s, v)
<1>1. PICK likes, next :
        /\ likes = [p \in PostIds |-> Cardinality(FindLikes(db, p))]
        /\ next = [page EXCEPT !.likes = likes]
  OBVIOUS
<1>2. Proceed(r, "likes", next)
  BY <1>1 DEF CountLikes
<1>3. DOMAIN page = PageFields
  BY DEF SeenOk
<1>4. /\ DOMAIN next = PageFields /\ next.page = page.page /\ next.seen = page.seen
      /\ next.todo = page.todo /\ next.ids = page.ids /\ next.likes = likes
      /\ next.liked = page.liked
  BY <1>1, <1>3 DEF PageFields
<1>5. ASSUME NEW p, p \in DOMAIN likes => likes[p] = 0 PROVE NoLikeSeen(r, p)
  BY <1>1, <1>5, NoLikes DEF NoLikeSeen
<1>6. Known(r, next, "likes")
  BY <1>4, <1>5 DEF Known
<1>7. PICK I : next.ids \in Seq(I)
  BY <1>4 DEF SeenOk
<1>8. \A y : y = "likes" \/ (Known(r, page, y) => Known(r, next, y))
  BY <1>4 DEF Known
<1>9. QED
  BY <1>2, <1>4, <1>6, <1>7, <1>8, AnswerOk

LEMMA FindLikedOk ==
  ASSUME DataInv, NEW r \in Req, Op(r) \in Counting, FindLiked(r),
         NEW page, page = got[r], SeenOk(r, page), AnswersOk(r, page),
         NEW s, s = pc'[r], NEW v, v = got'[r]
  PROVE  ListOk(r, s, v)
<1>1. PICK liked, next :
        /\ liked = {p \in PostIds : FindLike(db, p, User(r)) # {}}
        /\ next = [page EXCEPT !.liked = liked]
  OBVIOUS
<1>2. Proceed(r, "liked", next)
  BY <1>1 DEF FindLiked
<1>3. DOMAIN page = PageFields
  BY DEF SeenOk
<1>4. /\ DOMAIN next = PageFields /\ next.page = page.page /\ next.seen = page.seen
      /\ next.todo = page.todo /\ next.ids = page.ids /\ next.likes = page.likes
      /\ next.liked = liked
  BY <1>1, <1>3 DEF PageFields
<1>5. Known(r, next, "liked")
  BY <1>1, <1>4 DEF Known, LikeSeen, Likes
<1>6. PICK I : next.ids \in Seq(I)
  BY <1>4 DEF SeenOk
<1>7. \A y : y = "liked" \/ (Known(r, page, y) => Known(r, next, y))
  BY <1>4 DEF Known
<1>8. QED
  BY <1>2, <1>4, <1>5, <1>6, <1>7, AnswerOk

LEMMA CountConversationsOk ==
  ASSUME DataInv, NEW r \in Req, Op(r) \in Counting, CountConversations(r),
         NEW page, page = got[r], SeenOk(r, page), AnswersOk(r, page),
         NEW s, s = pc'[r], NEW v, v = got'[r]
  PROVE  ListOk(r, s, v)
<1>1. PICK chats, next :
        /\ chats = [p \in PostIds |-> Cardinality(FindConversations(db, p))]
        /\ next = [page EXCEPT !.chats = chats]
  OBVIOUS
<1>2. Proceed(r, "chats", next)
  BY <1>1 DEF CountConversations
<1>3. DOMAIN page = PageFields
  BY DEF SeenOk
<1>4. /\ DOMAIN next = PageFields /\ next.page = page.page /\ next.seen = page.seen
      /\ next.todo = page.todo /\ next.ids = page.ids /\ next.likes = page.likes
      /\ next.liked = page.liked
  BY <1>1, <1>3 DEF PageFields
<1>5. PICK I : next.ids \in Seq(I)
  BY <1>4 DEF SeenOk
<1>6. Known(r, next, "chats") /\ \A y : Known(r, page, y) => Known(r, next, y)
  BY <1>4 DEF Known
<1>7. QED
  BY <1>2, <1>4, <1>5, <1>6, AnswerOk

LEMMA ListSteps ==
  ASSUME DataInv, LikedInv, NEW r \in Req, Op(r) \in Counting, Handle(r),
         NEW s, s = pc'[r], NEW v, v = got'[r]
  PROVE  db' = db /\ ListOk(r, s, v)
<1>1. \/ AskForPage(r) \/ ReadFilter(r) \/ ReadPage(r)
      \/ FindByIdsIncludingDeleted(r) \/ CountLikes(r)
      \/ CountConversations(r) \/ FindLiked(r)
  BY HandlerOps DEF Counting, Lists
<1>2. db' = db
  <2>1. OnlyReads
    BY <1>1, Zenon DEF AskForPage, ReadFilter, ReadPage, FindByIdsIncludingDeleted,
         CountLikes, CountConversations, FindLiked
  <2>2. QED
    BY <2>1 DEF OnlyReads, NoWrite
<1>3. PICK page : page = got[r]
  OBVIOUS
<1>4. ASSUME pc[r] = "query" PROVE SeenOk(r, page) /\ AnswersOk(r, page)
  BY <1>3, <1>4 DEF LikedInv, ListOk
<1>5. CASE AskForPage(r)
  BY <1>2, <1>5, AskForPageOk
<1>6. CASE ReadFilter(r)
  <2>1. pc[r] = "query"
    BY <1>6 DEF ReadFilter, Awaits
  <2>2. QED
    BY <1>2, <1>3, <1>4, <1>6, <2>1, ReadFilterOk
<1>7. CASE ReadPage(r)
  <2>1. pc[r] = "query"
    BY <1>7 DEF ReadPage, Awaits
  <2>2. QED
    BY <1>2, <1>3, <1>4, <1>7, <2>1, ReadPageOk
<1>8. CASE FindByIdsIncludingDeleted(r)
  <2>1. pc[r] = "query"
    BY <1>8 DEF FindByIdsIncludingDeleted, Awaits
  <2>2. QED
    BY <1>2, <1>3, <1>4, <1>8, <2>1, FoundPostsOk
<1>9. CASE CountLikes(r)
  <2>1. pc[r] = "query"
    BY <1>9 DEF CountLikes, Awaits
  <2>2. QED
    BY <1>2, <1>3, <1>4, <1>9, <2>1, CountLikesOk
<1>10. CASE CountConversations(r)
  <2>1. pc[r] = "query"
    BY <1>10 DEF CountConversations, Awaits
  <2>2. QED
    BY <1>2, <1>3, <1>4, <1>10, <2>1, CountConversationsOk
<1>11. CASE FindLiked(r)
  <2>1. pc[r] = "query"
    BY <1>11 DEF FindLiked, Awaits
  <2>2. QED
    BY <1>2, <1>3, <1>4, <1>11, <2>1, FindLikedOk
<1>12. QED
  BY <1>1, <1>5, <1>6, <1>7, <1>8, <1>9, <1>10, <1>11

LEMMA DetailSteps ==
  ASSUME DataInv, LikedInv, NEW r \in Req, Op(r) = "detail", Handle(r),
         NEW s, s = pc'[r], NEW v, v = got'[r]
  PROVE  db' = db /\ DetailOk(r, s, v)
<1>1. ReadDetail(r) \/ ReadRest(r)
  BY HandlerOps
<1>2. db' = db
  BY <1>1 DEF ReadDetail, ReadRest, OnlyReads, NoWrite
<1>3. RequestInv
  BY DEF DataInv
<1>4. PICK page : page = got[r]
  OBVIOUS
<1>5. \A t \in {pc[r]} : DetailOk(r, t, page)
  BY <1>4 DEF LikedInv
<1>6. CASE ReadDetail(r)
  <2>1. PICK own : own = IsOwner(db, Post(r), User(r))
    OBVIOUS
  <2>2. Step(r, "idle", "images", [NoDetail EXCEPT !.isOwner = own]) \/ Refuse(r, "idle")
    BY <1>6, <2>1 DEF ReadDetail
  <2>3. \/ s = "images" /\ v = [NoDetail EXCEPT !.isOwner = own]
        \/ s = "refused"
    BY <1>3, <2>2, StepMoves DEF Refuse, Ends
  <2>4. QED
    BY <1>2, <2>3 DEF DetailOk, NoDetail
<1>7. CASE ReadRest(r) /\ pc[r] = "images"
  <2>1. PICK images : images = Cardinality(FindImages(db, Post(r)))
    OBVIOUS
  <2>2. Step(r, "images", "count", [page EXCEPT !.images = images])
    BY <1>4, <1>7, <2>1 DEF ReadRest, Step
  <2>3. s = "count" /\ v = [page EXCEPT !.images = images]
    BY <1>3, <2>2, StepMoves DEF Ends
  <2>4. QED
    BY <1>2, <1>5, <1>7, <2>3 DEF DetailOk
<1>8. CASE ReadRest(r) /\ pc[r] = "count"
  <2>1. PICK likes : likes = Cardinality(FindLikes(db, Post(r)))
    OBVIOUS
  <2>2. Step(r, "count", "own", [page EXCEPT !.likes = likes])
    BY <1>4, <1>8, <2>1 DEF ReadRest, Step
  <2>3. s = "own" /\ v = [page EXCEPT !.likes = likes]
    BY <1>3, <2>2, StepMoves DEF Ends
  <2>4. {"images", "likes", "liked"} \subseteq DOMAIN page
    BY <1>5, <1>8 DEF DetailOk
  <2>5. DOMAIN v = DOMAIN page /\ v.likes = likes
    BY <2>3, <2>4
  <2>6. likes = 0 => NoLikeSeen(r, Post(r))
    BY <2>1, NoLikes DEF NoLikeSeen
  <2>7. QED
    BY <1>2, <2>3, <2>4, <2>5, <2>6 DEF DetailOk
<1>9. CASE ReadRest(r) /\ pc[r] = "own"
  <2>1. PICK liked : liked = (FindLike(db, Post(r), User(r)) # {})
    OBVIOUS
  <2>2. Step(r, "own", "done", [page EXCEPT !.liked = liked])
    BY <1>4, <1>9, <2>1 DEF ReadRest, Step
  <2>3. s = "done" /\ v = [page EXCEPT !.liked = liked]
    BY <1>3, <2>2, StepMoves DEF Ends
  <2>4. /\ {"images", "likes", "liked"} \subseteq DOMAIN page
        /\ page.likes = 0 => NoLikeSeen(r, Post(r))
    BY <1>5, <1>9 DEF DetailOk
  <2>5. v.likes = page.likes /\ v.liked = liked
    BY <2>3, <2>4
  <2>6. Sound(r, v)
    BY <2>1, <2>4, <2>5 DEF Sound, NoLikeSeen, Likes
  <2>7. QED
    BY <1>2, <2>3, <2>6 DEF DetailOk
<1>10. QED
  BY <1>1, <1>6, <1>7, <1>8, <1>9 DEF ReadRest

-----------------------------------------------------------------------------

\* Nobody but its user changes whether a user likes a post.
LEMMA LikesStay ==
  ASSUME DataInv, NEW r \in Req, Handle(r), NEW s \in Req, s # r, Running(s), NEW p
  PROVE  /\ NoLikeSeen(s, p) => NoLikeSeen(s, p)'
         /\ LikeSeen(s, p) => LikeSeen(s, p)'
<1>1. /\ RequestInv /\ StageInv /\ Moves(r) /\ Advances(r) /\ Req' = Req /\ plan' = plan
  BY HandleMoves DEF DataInv
<1>2. \A q \in Req : Op(q)' = Op(q) /\ User(q)' = User(q)
  BY <1>1 DEF Op, User
<1>3. OwnLikes(s) => OwnLikes(s)'
  BY <1>1, <1>2, MetKept DEF OwnLikes
<1>4. ASSUME Op(r) \in {"like", "unlike"}, User(r) = User(s) PROVE OwnLikes(s)'
  <2>1. Met(r, s)'
    BY <1>1, MovingMeet
  <2>2. QED
    BY <1>1, <1>2, <1>4, <2>1 DEF OwnLikes
<1>5. Likes(s, p)' <=> FindLike(db', p, User(s)) # {}
  BY <1>2 DEF Likes
<1>6. ASSUME ~Likes(s, p), NEW i \in FindLike(db', p, User(s)) PROVE OwnLikes(s)'
  <2>1. InsertLike(r) /\ User(s) = User(r)
    BY <1>6, FoundLikes DEF Likes
  <2>2. Op(r) = "like"
    BY <1>1, <2>1 DEF InsertLike, Step, StageInv, StageOps
  <2>3. QED
    BY <1>4, <2>1, <2>2
<1>7. ASSUME NEW i \in FindLike(db, p, User(s)), ~Likes(s, p)' PROVE OwnLikes(s)'
  <2>1. /\ i \in DOMAIN db.likes /\ db.likes[i].stored
        /\ db.likes[i].post = p /\ db.likes[i].user = User(s)
    BY DEF FindLike, FindLikes
  <2>2. /\ i \in DOMAIN db'.likes /\ db'.likes[i].post = p
        /\ db'.likes[i].user = User(s)
    BY <2>1, LikesKept
  <2>3. ~db'.likes[i].stored
    BY <1>5, <1>7, <2>2 DEF FindLike, FindLikes
  <2>4. DeleteLike(r) /\ User(s) = User(r)
    BY <2>1, <2>3, LikesKept
  <2>5. Op(r) = "unlike"
    BY <2>4 DEF DeleteLike
  <2>6. QED
    BY <1>4, <2>4, <2>5
<1>8. QED
  BY <1>3, <1>5, <1>6, <1>7 DEF NoLikeSeen, LikeSeen, Likes

\* What is said of likes stays true when the requests do, and what is seen
\* of the likes.
LEMMA SaidStays ==
  ASSUME NEW r \in Req, plan' = plan, Req' = Req, OwnLikes(r) => OwnLikes(r)',
         NEW s, NEW v,
         s \in {"query", "images", "count", "own"} =>
           \A p : /\ NoLikeSeen(r, p) => NoLikeSeen(r, p)'
                  /\ LikeSeen(r, p) => LikeSeen(r, p)'
  PROVE  /\ DetailOk(r, s, v) => DetailOk(r, s, v)'
         /\ ListOk(r, s, v) => ListOk(r, s, v)'
<1>1. Op(r)' = Op(r) /\ Post(r)' = Post(r)
  BY DEF Op, Post
<1>2. \A entry : Sound(r, entry) => Sound(r, entry)'
  BY DEF Sound
<1>3. SeenOk(r, v) => SeenOk(r, v)'
  BY <1>2 DEF SeenOk
<1>4. ASSUME s = "query", NEW y, Known(r, v, y) PROVE Known(r, v, y)'
  BY <1>1, <1>4 DEF Known
<1>5. s = "query" /\ AnswersOk(r, v) => AnswersOk(r, v)'
  BY <1>1, <1>4 DEF AnswersOk
<1>6. DetailOk(r, s, v) => DetailOk(r, s, v)'
  BY <1>1, <1>2 DEF DetailOk
<1>7. ListOk(r, s, v) => ListOk(r, s, v)'
  BY <1>3, <1>5 DEF ListOk
<1>8. QED
  BY <1>6, <1>7

LEMMA LikedStill ==
  ASSUME LikedInv, Still
  PROVE  LikedInv'
<1>1. \A q \in Req : Op(q)' = Op(q) /\ User(q)' = User(q)
  BY DEF Still, Op, User
<1>2. plan' = plan /\ Req' = Req /\ db' = db
  BY DEF Still
<1>3. ASSUME NEW r \in Req, NEW s, s = pc'[r], NEW v, v = got'[r]
      PROVE  /\ Op(r)' = "detail" => DetailOk(r, s, v)'
             /\ Op(r)' \in Counting => ListOk(r, s, v)'
  <2>1. CASE s = "failed"
    BY <2>1 DEF DetailOk, ListOk
  <2>2. CASE s # "failed"
    <3>1. pc[r] = s /\ got[r] = v
      BY <1>3, <2>2 DEF Still
    <3>2. /\ Op(r) = "detail" => DetailOk(r, s, v)
          /\ Op(r) \in Counting => ListOk(r, s, v)
      BY <3>1 DEF LikedInv
    <3>3. OwnLikes(r) => OwnLikes(r)'
      BY <1>1, <1>2 DEF OwnLikes, Still
    <3>4. \A p : /\ NoLikeSeen(r, p) => NoLikeSeen(r, p)'
                 /\ LikeSeen(r, p) => LikeSeen(r, p)'
      BY <1>1, <1>2, <3>3 DEF NoLikeSeen, LikeSeen, Likes
    <3>5. QED
      BY <1>1, <1>2, <3>2, <3>3, <3>4, SaidStays
  <2>3. QED
    BY <2>1, <2>2
<1>4. QED
  BY <1>2, <1>3 DEF LikedInv, Counting, OfPosts

LEMMA LikedHandle ==
  ASSUME DataInv, LikedInv, NEW r \in Req, Handle(r)
  PROVE  LikedInv'
<1>1. /\ RequestInv /\ Moves(r) /\ Advances(r) /\ Req' = Req /\ plan' = plan
  BY HandleMoves DEF DataInv
<1>2. \A q \in Req : Op(q)' = Op(q) /\ User(q)' = User(q)
  BY <1>1 DEF Op, User
<1>3. \A q \in Req : OwnLikes(q) => OwnLikes(q)'
  BY <1>1, <1>2, MetKept DEF OwnLikes
<1>4. ASSUME NEW q \in Req, NEW s, s = pc'[q], NEW v, v = got'[q]
      PROVE  /\ Op(q)' = "detail" => DetailOk(q, s, v)'
             /\ Op(q)' \in Counting => ListOk(q, s, v)'
  <2>1. CASE q = r
    <3>1. Op(r) = "detail" => db' = db /\ DetailOk(r, s, v)
      BY <1>4, <2>1, DetailSteps
    <3>2. Op(r) \in Counting => db' = db /\ ListOk(r, s, v)
      BY <1>4, <2>1, ListSteps
    <3>3. ASSUME db' = db
          PROVE  \A p : /\ NoLikeSeen(r, p) => NoLikeSeen(r, p)'
                        /\ LikeSeen(r, p) => LikeSeen(r, p)'
      BY <1>2, <1>3, <3>3 DEF NoLikeSeen, LikeSeen, Likes
    <3>4. QED
      BY <1>1, <1>2, <1>3, <2>1, <3>1, <3>2, <3>3, SaidStays
  <2>2. CASE q # r
    <3>1. pc[q] = s /\ got[q] = v
      BY <1>1, <1>4, <2>2, OthersStay
    <3>2. /\ Op(q) = "detail" => DetailOk(q, s, v)
          /\ Op(q) \in Counting => ListOk(q, s, v)
      BY <3>1 DEF LikedInv
    <3>3. ASSUME s \in {"query", "images", "count", "own"}
          PROVE  \A p : /\ NoLikeSeen(q, p) => NoLikeSeen(q, p)'
                        /\ LikeSeen(q, p) => LikeSeen(q, p)'
      <4>1. Running(q)
        BY <3>1, <3>3 DEF Running, Ends
      <4>2. QED
        BY <2>2, <4>1, LikesStay
    <3>4. QED
      BY <1>1, <1>2, <1>3, <3>2, <3>3, SaidStays
  <2>3. QED
    BY <2>1, <2>2
<1>5. QED
  BY <1>1, <1>4 DEF LikedInv, Counting, OfPosts

\* A handler that has counted the likes of the posts and looked for the user's
\* own finds both as they still are, but for the user's own requests.
THEOREM LikedInvariant == Spec => []LikedInv
<1>1. Init => LikedInv
  BY DEF Init, RequestsInit, LikedInv, DetailOk, ListOk
<1>2. DataInv /\ LikedInv /\ [Next]_marketVars => LikedInv'
  BY StillStep, LikedStill, LikedHandle
<1>3. QED
  BY <1>1, <1>2, DataInvariant, PTL DEF Spec

\* Neither a list of posts nor a post's details, each put together from several
\* queries, names a post without likes that its reader likes, but for likes
\* that the reader gave or took meanwhile; and the tradable users a seller is
\* told of are those of the conversations, none of them withdrawn before.
THEOREM AnswersTrue == Spec => []AnswersAgree
<1>1. DataInv /\ LikedInv => LikedIsCounted
  <2>1. SUFFICES ASSUME DataInv, LikedInv, NEW r \in Req, Done(r),
                        Op(r) \in OfPosts \cup {"purchases", "detail"},
                        NEW e, e.liked, e.likes = 0,
                        IF Op(r) = "detail" THEN e = got[r] ELSE e \in ToSet(got[r].seen)
                 PROVE  MetAny(r, {q \in Req : Op(q) \in {"like", "unlike"}
                                               /\ User(q) = User(r)})
    BY DEF LikedIsCounted
  <2>2. PICK s, v : s = pc[r] /\ v = got[r]
    OBVIOUS
  <2>3. s = "done"
    BY <2>1, <2>2 DEF Done
  <2>4. Sound(r, e)
    <3>1. CASE Op(r) = "detail"
      BY <2>1, <2>2, <2>3, <3>1 DEF LikedInv, DetailOk
    <3>2. CASE Op(r) # "detail"
      <4>1. SeenOk(r, v)
        BY <2>1, <2>2, <2>3, <3>2 DEF LikedInv, ListOk, Counting
      <4>2. e \in ToSet(v.seen)
        BY <2>1, <2>2, <3>2
      <4>3. PICK k \in DOMAIN v.seen : e = v.seen[k]
        BY <4>2 DEF ToSet
      <4>4. QED
        BY <4>1, <4>3 DEF SeenOk
    <3>3. QED
      BY <3>1, <3>2
  <2>5. OwnLikes(r)
    BY <2>1, <2>4 DEF Sound
  <2>6. QED
    BY <2>5 DEF OwnLikes, MetAny, Met
<1>2. DataInv /\ TradableInv => TradableUsersAreActive
  <2>1. SUFFICES ASSUME DataInv, TradableInv, NEW r \in Req, Op(r) = "tradable", Done(r)
                 PROVE  /\ \A pair \in got[r] :
                             /\ db.conversations[pair[1]].post = Post(r)
                             /\ \A q \in past[r] : ~(/\ Op(q) = "withdraw"
                                                     /\ User(q) = pair[2] /\ Done(q))
                        /\ \A i, j \in LiveRows(db.participants) :
                             LET c == db.participants[i].conv
                             IN /\ c = db.participants[j].conv
                                /\ db.conversations[c].post = Post(r)
                                /\ db.participants[i].user = User(r)
                                /\ db.participants[j].user # User(r)
                                /\ FindById(db, db.participants[j].user)
                                /\ Settled(r)
                                /\ \/ db.participants[i].leftAt = None
                                   \/ \E m \in DOMAIN db.messages :
                                        /\ db.messages[m].conv = c
                                        /\ db.messages[m].at > db.participants[i].leftAt
                                => <<c, db.participants[j].user>> \in got[r]
    BY DEF TradableUsersAreActive, Settled
  <2>2. pc[r] = "done"
    BY <2>1 DEF Done
  <2>3. /\ \A pair \in got[r] : About(r, pair[1])
        /\ Settled(r) => \A i, j \in DOMAIN db.participants :
             Together(r, i, j) /\ FindById(db, db.participants[j].user) =>
               <<db.participants[j].conv, db.participants[j].user>> \in got[r]
        /\ \A pair \in got[r] : \A q \in past[r] :
             ~(Op(q) = "withdraw" /\ User(q) = pair[2] /\ Done(q))
    BY <2>1, <2>2 DEF TradableInv
  <2>4. ASSUME NEW i \in LiveRows(db.participants), NEW j \in LiveRows(db.participants),
               NEW c, c = db.participants[i].conv, c = db.participants[j].conv,
               db.conversations[c].post = Post(r),
               db.participants[i].user = User(r), db.participants[j].user # User(r),
               FindById(db, db.participants[j].user), Settled(r),
               \/ db.participants[i].leftAt = None
               \/ \E m \in DOMAIN db.messages :
                    /\ db.messages[m].conv = c
                    /\ db.messages[m].at > db.participants[i].leftAt
        PROVE  <<c, db.participants[j].user>> \in got[r]
    <3>1. Together(r, i, j)
      BY <2>4 DEF Together, TakesPart
    <3>2. i \in DOMAIN db.participants /\ j \in DOMAIN db.participants
      BY DEF LiveRows
    <3>3. QED
      BY <2>3, <2>4, <3>1, <3>2
  <2>5. QED
    BY <2>3, <2>4 DEF About
<1>3. QED
  BY <1>1, <1>2, DataInvariant, LikedInvariant, TradableInvariant, PTL
     DEF AnswersAgree
=============================================================================
