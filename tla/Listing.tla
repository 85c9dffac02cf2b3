------------------------------ MODULE Listing -------------------------------
(***************************************************************************)
(* The lists and summaries of posts, purchases, universities, conversations*)
(* and notifications.  A client reads a list page by page by offset; every *)
(* page is a request of its own, whose handler asks its queries one await  *)
(* after the other.                                                        *)
(***************************************************************************)
EXTENDS Posts

\* The user is the one signed in.
ListRequests == [op: {"list"}, user: Nat, region: Regions, size: Nat \ {0}]

SalesRequests ==
  [op: {"mySales"}, user: Nat, size: Nat \ {0},
   filter: {None, "FOR_SALE", "COMPLETED", "HIDDEN"}]
    \cup [op: {"purchases"}, user: Nat, size: Nat \ {0}]

UserListRequests ==
  [op: {"userSales"}, user: Nat, seller: Nat, size: Nat \ {0},
   filter: {None, "FOR_SALE", "COMPLETED"}]
    \cup [op: {"myLikes"}, user: Nat, size: Nat \ {0}]

SearchRequests ==
  [op: {"search"}, user: Nat, region: Regions, size: Nat \ {0},
   keyword: Words \cup {None}, university: Universities \cup {None},
   currency: Currencies \cup {None}, minPrice: Nat, maxPrice: Nat,
   categories: SUBSET Categories, status: TradeStatus \cup {None},
   sort: {"ASC", "DESC"}]

NotificationListRequests == [op: {"notifications"}, user: Nat, size: Nat \ {0}]

UniversityRequests ==
  [op: {"universities"}, user: Nat, size: Nat \ {0}, among: SUBSET Universities]

ConversationListRequests ==
  [op: {"conversations"}, user: Nat, size: Nat \ {0}, post: Nat \cup {None}]

CategoryRequests == [op: {"categories"}, region: Regions \cup {None}]

RangeRequests == [op: {"priceRange"}, user: Nat, keyword: Words \cup {None}]

ProductRequests == [op: {"tradable", "tradeProgress"}, user: Nat, post: Nat]

OfPosts == {"list", "search", "mySales", "userSales", "myLikes"}
Lists == OfPosts \cup {"purchases", "universities", "conversations", "notifications"}

-----------------------------------------------------------------------------
(* The rows of each list: an id, what orders it, and what distinguishes it *)
(* from the other rows that the LEFT JOINs make of one id.                 *)

Shown(p) == FindPost(db, p) /\ ~db.posts[p].hidden

OrNone(S) == IF S = {} THEN {None} ELSE S

\* LEFT JOIN product_image ON is_thumbnail AND NOT is_deleted.
WithThumbnails(posts) ==
  UNION {{[id |-> p, at |-> db.posts[p].at, join |-> i] :
            i \in OrNone(Thumbnails(db, p))} : p \in posts}

PagedPosts(r, blocked) ==
  WithThumbnails({p \in PostIds : /\ Shown(p)
                                  /\ db.posts[p].region = plan[r].region
                                  /\ db.posts[p].user \notin blocked})

\* 0 is falsy: no bound.
Matches(r, post) ==
  LET q == plan[r]
  IN /\ q.keyword = None \/ q.keyword \in post.title
     /\ q.university = None \/ db.users[post.user].university = q.university
     /\ q.currency = None \/ post.currency = q.currency
     /\ q.minPrice = 0 \/ post.price >= q.minPrice
     /\ q.maxPrice = 0 \/ post.price <= q.maxPrice
     /\ q.categories = {} \/ post.category \in q.categories
     /\ q.status = None \/ post.status = q.status

FoundPosts(r, blocked) ==
  {row \in PagedPosts(r, blocked) : Matches(r, db.posts[row.id])}

\* The switch over the sales filter.
Statuses(filter) == CASE filter = "FOR_SALE"  -> {"FOR_SALE", "RESERVED"}
                      [] filter = "COMPLETED" -> {"COMPLETED"}
                      [] OTHER                -> TradeStatus

MySales(r) ==
  WithThumbnails({p \in LiveRows(db.posts) :
    /\ db.posts[p].user = User(r)
    /\ db.posts[p].status \in Statuses(plan[r].filter)
    /\ plan[r].filter = "HIDDEN" => db.posts[p].hidden})

UserSales(r) ==
  WithThumbnails({p \in LiveRows(db.posts) :
    /\ db.posts[p].user = plan[r].seller
    /\ db.posts[p].status \in Statuses(plan[r].filter)
    /\ ~db.posts[p].hidden})

\* One row per like and thumbnail, of likes that are marked deleted as well.
MyLikes(r) ==
  UNION {{[id |-> row.id, at |-> row.at, join |-> <<row.join, i>>] :
            i \in FindLike(db, row.id, User(r))} :
         row \in WithThumbnails({p \in PostIds : Shown(p)})}

Purchases(r) ==
  {[id |-> i, at |-> db.progress[i].at] : i \in {j \in LiveRows(db.progress) :
     db.progress[j].buyer = User(r) /\ db.progress[j].status = "COMPLETED"}}

\* SELECT DISTINCT; ordered by the name, which stands for the university.
UniversitiesIn(r, region) ==
  {[id |-> u, at |-> u] : u \in plan[r].among \cap
     {db.users[db.posts[p].user].university :
        p \in {x \in PostIds : Shown(x) /\ db.posts[x].region = region}}}

\* A conversation its user has left shows again when a message follows.
MyConversations(r) ==
  UNION {{[id |-> c, at |-> db.conversations[c].sentAt, join |-> <<i, j>>] :
            i \in OrNone(Thumbnails(db, db.conversations[c].post)),
            j \in OrNone({k \in LiveRows(db.participants) :
                    db.participants[k].conv = c /\ db.participants[k].user # User(r)})} :
         c \in {db.participants[i].conv : i \in {k \in ActiveParticipants(db) :
                  /\ db.participants[k].user = User(r)
                  /\ plan[r].post \in
                       {None, db.conversations[db.participants[k].conv].post}}}}

Notifications(r) ==
  {[id |-> i, at |-> db.notifications[i].at] : i \in Owned(User(r))}

\* kept: the blocked users, or the primary region.
Rows(r, kept) ==
  CASE Op(r) = "list"          -> PagedPosts(r, kept)
    [] Op(r) = "search"        -> FoundPosts(r, kept)
    [] Op(r) = "mySales"       -> MySales(r)
    [] Op(r) = "userSales"     -> UserSales(r)
    [] Op(r) = "myLikes"       -> MyLikes(r)
    [] Op(r) = "purchases"     -> Purchases(r)
    [] Op(r) = "universities"  -> UniversitiesIn(r, kept)
    [] Op(r) = "conversations" -> MyConversations(r)
    [] Op(r) = "notifications" -> Notifications(r)

\* ORDER BY: a before b.  Only conversations have a second key.
Before(r, a, b) ==
  CASE Op(r) = "universities" \/ (Op(r) = "search" /\ plan[r].sort = "ASC")
         -> a.at < b.at
    [] Op(r) = "conversations" ->
         \/ a.at # None /\ (b.at = None \/ a.at > b.at)
         \/ a.at = b.at /\ a.id > b.id
    [] OTHER -> a.at > b.at

\* Rows that tie come in any order, another one for each query.
Orders(r, rows) ==
  {s \in SetToSeqs(rows) : \A i, j \in DOMAIN s : i < j => ~Before(r, s[j], s[i])}

-----------------------------------------------------------------------------
(* The handlers.  Each is the queries it awaits: a sequence of sets, the   *)
(* queries of one set being sent together.                                 *)

FindPagedProductPosts == <<{"filter"}, {"page"}, {"likes"}, {"chats"}, {"liked"}>>
SearchProductPosts    == <<{"filter"}, {"page"}, {"likes"}, {"chats"}, {"liked"}>>
FindMySales           == <<{"page"}, {"likes"}, {"chats"}, {"liked"}>>
FindUserSales         == <<{"page"}, {"likes"}, {"chats"}, {"liked"}>>

\* Everything is liked in the list of one's likes.
FindMyLikes           == <<{"page"}, {"likes"}, {"chats"}>>
FindMyPurchases       == <<{"page"}, {"posts"}, {"likes", "liked", "chats"}>>

SearchUniversitiesInPrimaryRegion == <<{"filter"}, {"page"}>>
GetConversations == <<{"page"}>>
GetNotifications == <<{"page"}>>

Queries(op) == CASE op = "list"          -> FindPagedProductPosts
                 [] op = "search"        -> SearchProductPosts
                 [] op = "mySales"       -> FindMySales
                 [] op = "userSales"     -> FindUserSales
                 [] op = "myLikes"       -> FindMyLikes
                 [] op = "purchases"     -> FindMyPurchases
                 [] op = "universities"  -> SearchUniversitiesInPrimaryRegion
                 [] op = "conversations" -> GetConversations
                 [] op = "notifications" -> GetNotifications

\* got of a list: the page's number, the queries left, what the client has
\* seen, the filter, the page; start: what the list held when the client asked
\* for its first page.
NoPage == [page |-> 1, todo |-> << >>, seen |-> << >>, kept |-> {}, ids |-> << >>,
           hasNext |-> FALSE, likes |-> << >>, chats |-> << >>, liked |-> {},
           start |-> {}]

Filter(r) == CASE Op(r) = "universities"       -> db.users[User(r)].primary
               [] Op(r) \in {"list", "search"} -> FindBlocked(db, User(r))
               [] OTHER                        -> {}

Ids(r, kept) == {row.id : row \in Rows(r, kept)}

AskForPage(r) ==
  /\ Op(r) \in Lists
  /\ \E from \in {"idle", "again"} :
       Step(r, from, "query",
            [IF from = "idle" THEN [NoPage EXCEPT !.start = Ids(r, Filter(r))]
                              ELSE got[r] EXCEPT !.todo = Queries(Op(r))])
  /\ OnlyReads

Awaits(r, query) ==
  pc[r] = "query" /\ Op(r) \in Lists /\ query \in Head(got[r].todo)

\* The post that an entry is about.
Subject(r, i) == IF Op(r) = "purchases" THEN db.progress[i].post ELSE i

Entry(r, page, i) ==
  IF Op(r) \in OfPosts \cup {"purchases"}
    THEN LET p == Subject(r, i)
         IN [id |-> i, likes |-> page.likes[p], chats |-> page.chats[p],
             liked |-> Op(r) = "myLikes" \/ p \in page.liked]
    ELSE [id |-> i]

\* The page is done: its entries go to the client.
Turn(r, page) ==
  Step(r, "query", IF page.hasNext THEN "again" ELSE "done",
       [page EXCEPT !.page = @ + 1,
          !.seen = @ \o [i \in DOMAIN page.ids |-> Entry(r, page, page.ids[i])],
          !.ids = << >>, !.likes = << >>, !.chats = << >>, !.liked = {}])

\* A query is answered: page is what the handler has now.
Proceed(r, query, page) ==
  LET rest == Head(page.todo) \ {query}
      todo == (IF rest = {} THEN << >> ELSE <<rest>>) \o Tail(page.todo)
      next == [page EXCEPT !.todo = todo]
  IN IF todo = << >> THEN Turn(r, next) ELSE Step(r, "query", "query", next)

\* No primary region: an empty list.
ReadFilter(r) ==
  /\ Awaits(r, "filter")
  /\ LET page == [got[r] EXCEPT !.kept = Filter(r)]
     IN IF page.kept = None
          THEN Step(r, "query", "done", [page EXCEPT !.todo = << >>])
          ELSE Proceed(r, "filter", page)
  /\ OnlyReads

\* An empty page of purchases is answered at once.
ReadPage(r) ==
  /\ Awaits(r, "page")
  /\ \E rows \in Orders(r, Rows(r, got[r].kept)) :
       LET slice == SlicePage(rows, got[r].page, plan[r].size)
           page == [got[r] EXCEPT !.hasNext = slice.hasNext,
                      !.ids = [i \in DOMAIN slice.contents |-> slice.contents[i].id]]
       IN IF Op(r) = "purchases" /\ page.ids = << >>
            THEN Turn(r, [page EXCEPT !.todo = << >>])
            ELSE Proceed(r, "page", page)
  /\ OnlyReads

\* The found ones of ids, in the order of ids.
Found(ids, found) ==
  LET kept == {k \in DOMAIN ids : ids[k] \in found}
  IN [n \in 1 .. Cardinality(kept) |->
        ids[CHOOSE k \in kept : Cardinality({j \in kept : j <= k}) = n]]

\* Mutant: a purchase goes with its post.
FindByIdsIncludingDeleted_Live(r) ==
  /\ Awaits(r, "posts")
  /\ LET found == {i \in ToSet(got[r].ids) : FindPost(db, Subject(r, i))}
     IN Proceed(r, "posts", [got[r] EXCEPT !.ids = Found(@, found)])
  /\ OnlyReads

\* The posts of the purchases; an entry whose post is not found is left out.
FindByIdsIncludingDeleted(r) ==
  /\ Awaits(r, "posts")
  /\ LET found == {i \in ToSet(got[r].ids) : Subject(r, i) \in PostIds}
     IN Proceed(r, "posts", [got[r] EXCEPT !.ids = Found(@, found)])
  /\ OnlyReads

\* Mutant: likes that are marked deleted are not counted.
CountLikes_Live(r) ==
  /\ Awaits(r, "likes")
  /\ Proceed(r, "likes", [got[r] EXCEPT !.likes =
       [p \in PostIds |-> Cardinality(FindLikes(db, p) \cap LiveRows(db.likes))]])
  /\ OnlyReads

CountLikes(r) ==
  /\ Awaits(r, "likes")
  /\ Proceed(r, "likes", [got[r] EXCEPT !.likes =
       [p \in PostIds |-> Cardinality(FindLikes(db, p))]])
  /\ OnlyReads

CountConversations(r) ==
  /\ Awaits(r, "chats")
  /\ Proceed(r, "chats", [got[r] EXCEPT !.chats =
       [p \in PostIds |-> Cardinality(FindConversations(db, p))]])
  /\ OnlyReads

FindLiked(r) ==
  /\ Awaits(r, "liked")
  /\ Proceed(r, "liked", [got[r] EXCEPT !.liked =
       {p \in PostIds : FindLike(db, p, User(r)) # {}}])
  /\ OnlyReads

-----------------------------------------------------------------------------
(* Summaries.                                                              *)

FindCategories(r) ==
  /\ Op(r) = "categories"
  /\ Step(r, "idle", "done", [c \in Categories |-> Cardinality({p \in PostIds :
       /\ Shown(p) /\ db.posts[p].category = c
       /\ plan[r].region \in {None, db.posts[p].region}})])
  /\ OnlyReads

PriceRanges(r, region, blocked) ==
  LET of(c) == {db.posts[p].price : p \in {x \in PostIds :
        /\ Shown(x) /\ db.posts[x].region = region /\ db.posts[x].currency = c
        /\ plan[r].keyword = None \/ plan[r].keyword \in db.posts[x].title
        /\ db.posts[x].user \notin blocked}}
  IN [c \in {k \in Currencies : of(k) # {}} |->
        [min |-> Min(of(c)), max |-> Max(of(c))]]

\* Region, blocked users, prices: one await each.
GetPriceRange(r) ==
  /\ Op(r) = "priceRange"
  /\ \/ /\ pc[r] = "idle"
        /\ LET region == db.users[User(r)].primary
           IN IF region = None THEN Refuse(r, "idle") ELSE Step(r, "idle", "blocked", region)
     \/ /\ pc[r] = "blocked"
        /\ Step(r, "blocked", "prices", [region |-> got[r], kept |-> FindBlocked(db, User(r))])
     \/ /\ pc[r] = "prices"
        /\ Step(r, "prices", "done", PriceRanges(r, got[r].region, got[r].kept))
  /\ OnlyReads

\* The conversations about p that u has not left, or that came back.
FindActiveByProduct(p, u) ==
  {db.participants[i].conv : i \in {j \in ActiveParticipants(db) :
     /\ db.participants[j].user = u
     /\ db.conversations[db.participants[j].conv].post = p}}

FindOtherParticipants(conversations, u) ==
  {<<db.participants[i].conv, db.participants[i].user>> :
     i \in {j \in LiveRows(db.participants) :
       db.participants[j].conv \in conversations /\ db.participants[j].user # u}}

\* getTradableUsers: the seller's active conversations about the post, the
\* other participants, the users that are left of them.
GetTradableUsers(r) ==
  /\ Op(r) = "tradable"
  /\ \/ /\ pc[r] = "idle"
        /\ IF FindPost(db, Post(r)) /\ IsOwner(db, Post(r), User(r))
             THEN Step(r, "idle", "mine", None) ELSE Refuse(r, "idle")
     \/ /\ pc[r] = "mine"
        /\ Step(r, "mine", "others", FindActiveByProduct(Post(r), User(r)))
     \/ /\ pc[r] = "others"
        /\ Step(r, "others", "users", FindOtherParticipants(got[r], User(r)))
     \/ /\ pc[r] = "users"
        /\ Step(r, "users", "done", {pair \in got[r] : FindById(db, pair[2])})
  /\ OnlyReads

\* getTradeProgress: null while there is none.
GetTradeProgress(r) ==
  /\ Op(r) = "tradeProgress"
  /\ \/ /\ pc[r] = "idle"
        /\ IF FindPost(db, Post(r)) /\ IsOwner(db, Post(r), User(r))
             THEN Step(r, "idle", "progress", None) ELSE Refuse(r, "idle")
     \/ /\ pc[r] = "progress"
        /\ \E i \in AnyOf(FindProgress(db, Post(r))) :
             IF i = None THEN Step(r, "progress", "done", None)
             ELSE Step(r, "progress", "buyer", db.progress[i])
     \/ /\ pc[r] = "buyer"
        /\ Step(r, "buyer", "done", [buyer |-> got[r].buyer, status |-> got[r].status,
                                     named |-> FindById(db, got[r].buyer)])
  /\ OnlyReads

ListingNext(r) ==
  \/ AskForPage(r) \/ ReadFilter(r) \/ ReadPage(r)
  \/ FindByIdsIncludingDeleted(r) \/ CountLikes(r) \/ CountConversations(r)
  \/ FindLiked(r) \/ FindCategories(r) \/ GetPriceRange(r)
  \/ GetTradableUsers(r) \/ GetTradeProgress(r)

-----------------------------------------------------------------------------

\* Of two requests to leave a conversation, the one that commits last may bear
\* the earlier second: the message that followed it makes the room active again.
Appearing(op) ==
  CASE op \in {"list", "search", "universities"} -> {"create", "unhide", "edit"}
    [] op = "mySales"       -> {"create", "hide", "unhide"}
    [] op = "userSales"     -> {"create", "unhide"}
    [] op = "myLikes"       -> {"create", "unhide", "like"}
    [] op = "purchases"     -> {}
    [] op = "conversations" -> {"createConversation", "send", "leave"}
    [] op = "notifications" -> {"edit"}

Vanishing(op) ==
  CASE op \in {"list", "userSales", "universities"} -> {"hide", "delete", "withdraw"}
    [] op = "search"        -> {"hide", "delete", "withdraw", "edit"}
    [] op = "mySales"       -> {"hide", "unhide", "delete", "withdraw"}
    [] op = "myLikes"       -> {"hide", "delete", "withdraw", "unlike"}
    [] op = "purchases"     -> {}
    [] op = "conversations" -> {"leave", "withdraw", "send"}
    [] op = "notifications" -> {"deleteNotifications", "deleteAllNotifications", "withdraw"}

\* Rows of one second, or two requests of the user to like one post that met
\* and so may have left two rows.
Tied(r) ==
  LET table == IF Op(r) \in OfPosts THEN db.posts
               ELSE IF Op(r) = "notifications" THEN db.notifications
               ELSE IF Op(r) = "purchases" THEN db.progress ELSE << >>
  IN \/ \E i, j \in DOMAIN table : i # j /\ table[i].at = table[j].at
     \/ /\ Op(r) = "myLikes"
        /\ \E p, q \in {x \in Req : Op(x) = "like" /\ User(x) = User(r)} :
             Post(p) = Post(q) /\ Met(p, q)

\* Reading a list to its end repeats an entry only when entries appeared
\* meanwhile, and skips one that was there at the start and still is only when
\* entries vanished meanwhile; rows of one second may do either.
ListsComplete ==
  \A r \in Req : Op(r) \in Lists /\ Done(r) /\ ~Tied(r) =>
    LET ids == [i \in DOMAIN got[r].seen |-> got[r].seen[i].id]
        With(ops) == MetAny(r, {q \in Req : Op(q) \in ops})
    IN /\ ~With(Appearing(Op(r))) => NoRepeats(ids)
       /\ ~With(Vanishing(Op(r))) /\ got[r].kept # None
            => got[r].start \cap Ids(r, got[r].kept) \subseteq ToSet(ids)

\* Whoever is told that they like a post is told of one like at least, unless
\* they liked or unliked it while the page was put together.
LikedIsCounted ==
  \A r \in Req : Op(r) \in OfPosts \cup {"purchases", "detail"} /\ Done(r) =>
    LET entries == IF Op(r) = "detail" THEN {got[r]} ELSE ToSet(got[r].seen)
    IN \A e \in entries : e.liked /\ e.likes = 0 =>
         MetAny(r, {q \in Req : Op(q) \in {"like", "unlike"} /\ User(q) = User(r)})

\* The users a seller may sell to are told from the messages: everybody who
\* still takes part in a conversation about the post which the seller has not
\* left, or in which something was said after; and nobody who had withdrawn.
TradableUsersAreActive ==
  \A r \in Req : Op(r) = "tradable" /\ Done(r) =>
    /\ \A pair \in got[r] :
         /\ db.conversations[pair[1]].post = Post(r)
         /\ \A q \in past[r] : ~(Op(q) = "withdraw" /\ User(q) = pair[2] /\ Done(q))
    /\ \A i, j \in LiveRows(db.participants) :
         LET c == db.participants[i].conv
         IN /\ c = db.participants[j].conv
            /\ db.conversations[c].post = Post(r)
            /\ db.participants[i].user = User(r)
            /\ db.participants[j].user # User(r)
            /\ FindById(db, db.participants[j].user)
            /\ \A q \in Req : Op(q) \in {"createConversation", "leave", "send"} => q \in past[r]
            /\ \/ db.participants[i].leftAt = None
               \/ \E m \in DOMAIN db.messages : /\ db.messages[m].conv = c
                                                /\ db.messages[m].at > db.participants[i].leftAt
            => <<c, db.participants[j].user>> \in got[r]

\* An answer put together from several queries does not contradict itself or
\* the rows: LikedIsCounted for the posts, TradableUsersAreActive for buyers.
AnswersAgree == LikedIsCounted /\ TradableUsersAreActive
=============================================================================
