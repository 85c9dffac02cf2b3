------------------------------- MODULE Trade --------------------------------
(***************************************************************************)
(* The trade of product posts: updateTradeStatus and the other requests    *)
(* that read or change a post's status (updateProductPost, hide, unhide,   *)
(* delete), deletePurchaseHistory of the buyer and createReview            *)
(* (apps/api-server/src/product-post and review).                          *)
(*                                                                         *)
(* A seller's request is one transaction under REPEATABLE READ: its first  *)
(* SELECT fixes what all its reads see, its UPDATEs wait for row locks and *)
(* write blindly, and everything it wrote appears at the commit.  No read  *)
(* locks anything.  A request inserts at most one trade_progress row, so   *)
(* the request also names the row.                                         *)
(***************************************************************************)
EXTENDS Naturals, FiniteSets

CONSTANTS
  Users,
  Posts,
  seller,         \* seller[t]: who wrote post t
  Conversations,
  convPost,       \* convPost[c]: the post conversation c is about
  participants,   \* participants[c]: the users with a live row in c
  Prices,
  Ops,            \* the requests the server receives
  Plans,          \* what they may ask for: a set of functions on Ops
  None,
  Faults,         \* {"abort"} when requests may fail half-way
  Patient         \* users who send one request at a time

SellerKinds == {"trade", "edit", "hide", "unhide", "delete"}
Kinds == SellerKinds \cup {"forget", "review"}

TradeStatus == {"FOR_SALE", "RESERVED", "COMPLETED"}

\* to, buyer and conv belong to "trade", price to "edit", row to "forget".
Requests == [kind: Kinds, user: Users, post: Posts, to: TradeStatus,
             buyer: Users \cup {None}, conv: Conversations \cup {None},
             price: Prices, row: Ops \cup {None}]

ASSUME TradeAssumption ==
  /\ None \notin Users /\ None \notin Conversations /\ None \notin Ops
  /\ Ops \cap Posts = {}
  /\ seller \in [Posts -> Users]
  /\ convPost \in [Conversations -> Posts]
  /\ participants \in [Conversations -> SUBSET Users]
  /\ Plans \subseteq [Ops -> Requests]
  /\ Prices # {}
  /\ Faults \subseteq {"abort"}
  /\ Patient \subseteq Users

VARIABLES
  op,        \* op[p]: what request p asks for, one of the Plans
  posts,     \* product_post, committed
  progress,  \* trade_progress, committed: the row request p inserted, or None
  reviews,   \* the createReview requests whose row is in the database
  rowLock,   \* the open transaction that has updated a post or progress row
  pc,
  snap,      \* what the SELECTs of a transaction saw
  pushed     \* requests whose push notifications went to SQS

vars == <<op, posts, progress, reviews, rowLock, pc, snap, pushed>>

PostRow == [status: TradeStatus, hidden: BOOLEAN, price: Prices, gone: BOOLEAN]

Progress == [post: Posts, conv: Conversations, buyer: Users,
             status: TradeStatus \ {"FOR_SALE"}, live: BOOLEAN]

Snapshot == [row: PostRow, cur: Ops \cup {None}]

ASSUME NoneAssumption == None \notin Progress

Idle == {"start", "done", "failed"}
PCs  == Idle \cup {"flush", "notify", "commit", "strike", "exists", "insert"}

TypeOK ==
  /\ op \in Plans
  /\ posts \in [Posts -> PostRow]
  /\ progress \in [Ops -> Progress \cup {None}]
  /\ reviews \subseteq Ops
  /\ rowLock \in [Posts \cup Ops -> Ops \cup {None}]
  /\ pc \in [Ops -> PCs]
  /\ snap \in [Ops -> Snapshot \cup {None}]
  /\ pushed \subseteq Ops

Init ==
  /\ op \in Plans
  /\ \E asked \in Prices :
       posts = [t \in Posts |-> [status |-> "FOR_SALE", hidden |-> FALSE,
                                 price |-> asked, gone |-> FALSE]]
  /\ progress = [p \in Ops |-> None]
  /\ reviews = {}
  /\ rowLock = [x \in Posts \cup Ops |-> None]
  /\ pc = [p \in Ops |-> "start"]
  /\ snap = [p \in Ops |-> None]
  /\ pushed = {}

Kind(p) == op[p].kind
User(p) == op[p].user
Post(p) == op[p].post

Goto(p, from, to) ==
  /\ pc[p] = from
  /\ pc' = [pc EXCEPT ![p] = to]

MayStart(p) ==
  User(p) \in Patient =>
    \A q \in Ops : q # p /\ User(q) = User(p) => pc[q] \in Idle

\* findByProductPostId: some row that is not deleted, in no given order.
Current(t) == {r \in Ops : /\ progress[r] # None
                           /\ progress[r].post = t
                           /\ progress[r].live}

FoundProgress(p) ==
  IF Kind(p) = "trade" /\ Current(Post(p)) # {} THEN Current(Post(p))
                                                ELSE {None}

-----------------------------------------------------------------------------
(* updateTradeStatus, on what the transaction has read.                    *)

\* validateUserHasChatWithProduct.
HasChat(p) ==
  /\ op[p].buyer # None
  /\ op[p].conv # None
  /\ convPost[op[p].conv] = Post(p)
  /\ op[p].buyer \in participants[op[p].conv]

OtherBuyer(p, s) == op[p].buyer # progress[s.cur].buyer

\* A completion without buyerId, or with the reserved buyer's.
SameBuyer(p, s) == op[p].buyer = None \/ ~OtherBuyer(p, s)

\* Mutant: a completed trade may be cancelled or reserved like a reserved one.
TradeAllowed_ReopensCompleted(p, s) ==
  \/ s.row.status = "FOR_SALE" /\ op[p].to # "FOR_SALE" /\ HasChat(p)
  \/ /\ s.row.status # "FOR_SALE"
     /\ s.cur # None
     /\ op[p].to # s.row.status
     /\ op[p].to = "FOR_SALE" \/ HasChat(p)

TradeAllowed(p, s) ==
  \/ /\ s.row.status = "FOR_SALE"
     /\ op[p].to # "FOR_SALE"
     /\ HasChat(p)
  \/ /\ s.row.status = "RESERVED"
     /\ s.cur # None
     /\ \/ op[p].to = "FOR_SALE"
        \/ op[p].to = "RESERVED" /\ HasChat(p) /\ OtherBuyer(p, s)
        \/ op[p].to = "COMPLETED" /\ (SameBuyer(p, s) \/ HasChat(p))

\* The reserved row becomes COMPLETED; otherwise it is deleted, and a row
\* for the new buyer inserted unless the post goes back on sale.
Completes(p, s) ==
  /\ s.row.status = "RESERVED"
  /\ op[p].to = "COMPLETED"
  /\ SameBuyer(p, s)

\* Mutant: going back on sale inserts a row as well.
Inserts_Always(p, s) == ~Completes(p, s)

Inserts(p, s) == op[p].to # "FOR_SALE" /\ ~Completes(p, s)

NewProgress(p) ==
  [post |-> Post(p), conv |-> op[p].conv, buyer |-> op[p].buyer,
   status |-> op[p].to, live |-> TRUE]

\* The trade_progress row a trade updates: none when the post was for sale.
OldRow(p, s) == IF s.row.status = "RESERVED" THEN s.cur ELSE None

-----------------------------------------------------------------------------
(* The transactions of the seller.                                         *)

\* Mutant: only completed posts are closed to edits.
MayEdit_Reserved(s) == s.row.status # "COMPLETED"

MayEdit(s)   == s.row.status = "FOR_SALE"
MayHide(s)   == s.row.status # "RESERVED" /\ ~s.row.hidden
MayUnhide(s) == s.row.hidden

Allowed(p, s) ==
  /\ ~s.row.gone
  /\ User(p) = seller[Post(p)]
  /\ CASE Kind(p) = "trade"  -> TradeAllowed(p, s)
       [] Kind(p) = "edit"   -> MayEdit(s)
       [] Kind(p) = "hide"   -> MayHide(s)
       [] Kind(p) = "unhide" -> MayUnhide(s)
       [] Kind(p) = "delete" -> TRUE

ReadSnapshot(p) ==
  /\ Kind(p) \in SellerKinds
  /\ MayStart(p)
  /\ \E c \in FoundProgress(p) :
       LET s == [row |-> posts[Post(p)], cur |-> c] IN
       /\ Goto(p, "start", IF Allowed(p, s) THEN "flush" ELSE "failed")
       /\ snap' = [snap EXCEPT ![p] = s]
  /\ UNCHANGED <<op, posts, progress, reviews, rowLock, pushed>>

\* What a flush makes of the post: only the columns that differ from the
\* snapshot, onto whatever the row holds by then.
Traded(p, s, row) ==
  IF op[p].to = s.row.status THEN row ELSE [row EXCEPT !.status = op[p].to]

Edited(p, s, row) ==
  IF op[p].price = s.row.price THEN row ELSE [row EXCEPT !.price = op[p].price]

Deleted(row) == [row EXCEPT !.gone = TRUE]

Written(p, s, row) ==
  CASE Kind(p) = "trade"  -> Traded(p, s, row)
    [] Kind(p) = "edit"   -> Edited(p, s, row)
    [] Kind(p) = "hide"   -> [row EXCEPT !.hidden = TRUE]
    [] Kind(p) = "unhide" -> [row EXCEPT !.hidden = FALSE]
    [] Kind(p) = "delete" -> Deleted(row)

\* The rows the flush updates, and so locks until the transaction ends.
Touched(p, s) ==
  (IF Written(p, s, s.row) # s.row THEN {Post(p)} ELSE {})
    \cup (IF Kind(p) = "trade" THEN {OldRow(p, s)} \ {None} ELSE {})

\* notifySaleEnded and notifyPriceChanged run inside the transaction.
Notifies(p, s) ==
  \/ Kind(p) = "trade" /\ op[p].to = "COMPLETED"
  \/ Kind(p) = "edit" /\ op[p].price # s.row.price /\ ~s.row.hidden

Flush(p) ==
  /\ Goto(p, "flush", IF Notifies(p, snap[p]) THEN "notify" ELSE "commit")
  /\ \A x \in Touched(p, snap[p]) : rowLock[x] = None
  /\ rowLock' = [x \in Posts \cup Ops |->
                   IF x \in Touched(p, snap[p]) THEN p ELSE rowLock[x]]
  /\ UNCHANGED <<op, posts, progress, reviews, snap, pushed>>

\* SQS takes the messages before the transaction commits.
Notify(p) ==
  /\ Goto(p, "notify", "commit")
  /\ pushed' = pushed \cup {p}
  /\ UNCHANGED <<op, posts, progress, reviews, rowLock, snap>>

Unlock(p) ==
  rowLock' = [x \in Posts \cup Ops |-> IF rowLock[x] = p THEN None
                                                         ELSE rowLock[x]]

\* Mutant: the row of the former buyer is not deleted.
WrittenProgress_KeepsOld(p, s, r) ==
  CASE r = p /\ Inserts(p, s) -> NewProgress(p)
    [] r # p /\ r = OldRow(p, s) /\ Completes(p, s) ->
         [progress[r] EXCEPT !.status = "COMPLETED"]
    [] OTHER -> progress[r]

WrittenProgress(p, s, r) ==
  CASE r = p /\ Inserts(p, s) -> NewProgress(p)
    [] r # p /\ r = OldRow(p, s) ->
         IF Completes(p, s) THEN [progress[r] EXCEPT !.status = "COMPLETED"]
                            ELSE [progress[r] EXCEPT !.live = FALSE]
    [] OTHER -> progress[r]

Commit(p) ==
  /\ Goto(p, "commit", "done")
  /\ posts' = [posts EXCEPT ![Post(p)] = Written(p, snap[p], @)]
  /\ progress' = IF Kind(p) = "trade"
                   THEN [r \in Ops |-> WrittenProgress(p, snap[p], r)]
                   ELSE progress
  /\ Unlock(p)
  /\ UNCHANGED <<op, reviews, snap, pushed>>

-----------------------------------------------------------------------------
(* deletePurchaseHistory: no transaction around the read and the flush,    *)
(* and no look at the row's status.                                        *)

FindPurchase(p) ==
  /\ Kind(p) = "forget"
  /\ MayStart(p)
  /\ LET r == op[p].row IN
     Goto(p, "start", IF /\ r # None
                         /\ progress[r] # None
                         /\ progress[r].live
                         /\ progress[r].buyer = User(p)
                        THEN "strike" ELSE "failed")
  /\ UNCHANGED <<op, posts, progress, reviews, rowLock, snap, pushed>>

StrikePurchase(p) ==
  /\ Goto(p, "strike", "done")
  /\ rowLock[op[p].row] = None
  /\ progress' = [progress EXCEPT ![op[p].row].live = FALSE]
  /\ UNCHANGED <<op, posts, reviews, rowLock, snap, pushed>>

-----------------------------------------------------------------------------
(* createReview: three statements, no transaction.                         *)

\* Mutant: no isCompleted check.
FindReviewedPost_AnyStatus(p) ==
  /\ Kind(p) = "review"
  /\ MayStart(p)
  /\ Goto(p, "start", IF ~posts[Post(p)].gone /\ User(p) # seller[Post(p)]
                        THEN "exists" ELSE "failed")
  /\ UNCHANGED <<op, posts, progress, reviews, rowLock, snap, pushed>>

FindReviewedPost(p) ==
  /\ Kind(p) = "review"
  /\ MayStart(p)
  /\ Goto(p, "start", IF /\ ~posts[Post(p)].gone
                         /\ posts[Post(p)].status = "COMPLETED"
                         /\ User(p) # seller[Post(p)]
                        THEN "exists" ELSE "failed")
  /\ UNCHANGED <<op, posts, progress, reviews, rowLock, snap, pushed>>

SameReview(p, q) == Post(p) = Post(q) /\ User(p) = User(q)

ExistsByProductAndReviewer(p) ==
  /\ Goto(p, "exists",
          IF \E q \in reviews : SameReview(p, q) THEN "failed" ELSE "insert")
  /\ UNCHANGED <<op, posts, progress, reviews, rowLock, snap, pushed>>

InsertReview(p) ==
  /\ Goto(p, "insert", "done")
  /\ reviews' = reviews \cup {p}
  /\ UNCHANGED <<op, posts, progress, rowLock, snap, pushed>>

-----------------------------------------------------------------------------
\* Mutant: a failed transaction is neither committed nor rolled back.
Abort_KeepsLocks(p) ==
  /\ "abort" \in Faults
  /\ pc[p] \notin Idle
  /\ pc' = [pc EXCEPT ![p] = "failed"]
  /\ UNCHANGED <<op, posts, progress, reviews, rowLock, snap, pushed>>

\* An await rejects (MySQL, SQS) or the process dies: MySQL rolls back, the
\* messages SQS has taken stay sent.
Abort(p) ==
  /\ "abort" \in Faults
  /\ pc[p] \notin Idle
  /\ pc' = [pc EXCEPT ![p] = "failed"]
  /\ Unlock(p)
  /\ UNCHANGED <<op, posts, progress, reviews, snap, pushed>>

Step(p) ==
  \/ ReadSnapshot(p) \/ Flush(p) \/ Notify(p) \/ Commit(p)
  \/ FindPurchase(p) \/ StrikePurchase(p)
  \/ FindReviewedPost(p) \/ ExistsByProductAndReviewer(p) \/ InsertReview(p)

Next == \E p \in Ops : Step(p) \/ Abort(p)

Spec == Init /\ [][Next]_vars

\* MySQL grants a row lock that became free and every await settles: while
\* some request can take a step, one does.
FairSpec == Spec /\ WF_vars(\E p \in Ops : Step(p))

-----------------------------------------------------------------------------
(* Safety.  Nothing in the server keeps a seller from sending two requests *)
(* at once; what holds of a post depends on whether its seller does.       *)

Steady(t) == seller[t] \in Patient

SteadyPosts == {t \in Posts : Steady(t)}

\* Whatever the buyer deletes or reviews meanwhile, whatever other sellers do
\* and whichever requests roll back: a post has at most one live
\* trade_progress row, of the post's own status, and none while it is for sale.
StatusMatchesProgress ==
  \A t \in SteadyPosts : \A q, r \in Current(t) :
    q = r /\ progress[r].status = posts[t].status

\* updateTradeStatus refuses every change of a completed trade.
CompletedIsFinal ==
  [][\A t \in Posts : posts[t].status = "COMPLETED"
                        => posts'[t].status = "COMPLETED"]_vars

\* The seller sent two requests at once, and the one that commits now was let
\* through on a status that the other has changed since.
StaleCommit(t) ==
  /\ ~Steady(t)
  /\ \E p \in Ops : /\ Post(p) = t
                    /\ pc[p] = "commit" /\ pc'[p] = "done"
                    /\ snap[p].row.status # posts[t].status

\* Of any post, however many requests its seller has in flight: a completed
\* trade is left, a reserved or sold post is edited, and a reserved post is
\* hidden, only by such a commit.
FrozenWhileTraded ==
  [][\A t \in Posts : StaleCommit(t) \/
       /\ posts[t].status = "COMPLETED" => posts'[t].status = "COMPLETED"
       /\ posts[t].status # "FOR_SALE" => posts'[t].price = posts[t].price
       /\ posts[t].status = "RESERVED" /\ posts'[t].hidden
            => posts[t].hidden]_vars

\* A review is of a trade that is completed, though createReview reads the
\* post in one statement and inserts in another.
ReviewedIsCompleted ==
  \A p \in reviews : Steady(Post(p)) => posts[Post(p)].status = "COMPLETED"

\* The lifecycle of TradeLifecycle: who holds a trade is read off its row.
HolderOf(t) ==
  IF Current(t) = {} THEN None
  ELSE progress[CHOOSE r \in Current(t) : TRUE].buyer

Lifecycle == INSTANCE TradeLifecycle
               WITH Posts <- SteadyPosts,
                    Nobody <- None,
                    status <- [t \in SteadyPosts |-> posts[t].status],
                    buyer <- [t \in SteadyPosts |-> HolderOf(t)]

\* The posts of patient sellers: each commit is one step of the lifecycle,
\* every other step is invisible.
ImplementsLifecycle == Lifecycle!Spec

\* No request waits for ever for a row that an open transaction has locked.
EveryRequestEnds == <>(\A p \in Ops : pc[p] \in {"done", "failed"})

-----------------------------------------------------------------------------
(* What comments of the code say and the code does not do.                 *)

\* getTradeProgress: 'trade progress, null if for sale', so a reserved post
\* has a row.
ReservedHasProgress ==
  \A t \in Posts : posts[t].status = "RESERVED" => Current(t) # {}
=============================================================================
