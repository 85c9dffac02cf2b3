---------------------------- MODULE TradeProofs ------------------------------
(***************************************************************************)
(* The safety of Trade for any number of users, posts and requests, and    *)
(* that it implements TradeLifecycle.                                      *)
(***************************************************************************)
EXTENDS Trade, TLAPS

\* A seller's transaction that has read its snapshot and not ended.
InTransaction(p) == pc[p] \in {"flush", "notify", "commit"}

\* A trade_progress row belongs to the committed trade that inserted it.
RowInv ==
  \A r \in Ops :
    progress[r] # None => pc[r] = "done" /\ progress[r].post = Post(r)

\* What a transaction decided on still holds of what it read, and the row it
\* found exists.
ReadInv ==
  \A p \in Ops : InTransaction(p) =>
    /\ Kind(p) \in SellerKinds
    /\ snap[p] \in Snapshot
    /\ Allowed(p, snap[p])
    /\ snap[p].cur # None =>
         /\ Kind(p) = "trade"
         /\ progress[snap[p].cur] # None
         /\ progress[snap[p].cur].post = Post(p)

\* The row a buyer is about to strike exists.
StrikeInv ==
  \A p \in Ops :
    pc[p] = "strike" => op[p].row \in Ops /\ progress[op[p].row] # None

\* No patient user has two requests in flight.
Alone ==
  \A p, q \in Ops :
    /\ User(p) = User(q) /\ User(p) \in Patient
    /\ pc[p] \notin Idle /\ pc[q] \notin Idle
    => p = q

\* So no commit has made the snapshot of a patient seller stale: the post is
\* as it was read, and the trade at most struck by the buyer.
SnapInv ==
  \A p \in Ops : InTransaction(p) /\ Steady(Post(p)) =>
    /\ posts[Post(p)] = snap[p].row
    /\ Kind(p) = "trade" => Current(Post(p)) \subseteq {snap[p].cur}

\* A post about to be reviewed is completed, as is a reviewed one.
ReviewInv ==
  \A p \in Ops :
    Steady(Post(p)) /\ (p \in reviews \/ pc[p] \in {"exists", "insert"})
      => posts[Post(p)].status = "COMPLETED"

\* What holds however the requests interleave ...
DataInv == TypeOK /\ RowInv /\ ReadInv /\ StrikeInv

\* ... and what holds of the posts of patient sellers.
IInv == DataInv /\ Alone /\ SnapInv /\ StatusMatchesProgress /\ ReviewInv

-----------------------------------------------------------------------------
(* Requests and rows.                                                      *)

LEMMA RequestTypes ==
  ASSUME op \in Plans, NEW p \in Ops
  PROVE  /\ Kind(p) \in Kinds
         /\ User(p) \in Users
         /\ Post(p) \in Posts
         /\ op[p].to \in TradeStatus
         /\ op[p].buyer \in Users \cup {None}
         /\ op[p].conv \in Conversations \cup {None}
         /\ op[p].price \in Prices
         /\ op[p].row \in Ops \cup {None}
<1>1. op[p] \in Requests
  BY TradeAssumption
<1> QED
  BY <1>1, Zenon DEF Requests, Kind, User, Post

\* No request changes what it asks for.
LEMMA OpStays ==
  ASSUME [Next]_vars
  PROVE  op' = op
  BY DEF Next, vars, Step, ReadSnapshot, Flush, Notify, Commit, FindPurchase,
     StrikePurchase, FindReviewedPost, ExistsByProductAndReviewer,
     InsertReview, Abort

\* What each write makes of a post.
LEMMA TradedRow ==
  ASSUME NEW p, NEW s, NEW row \in PostRow, op[p].to \in TradeStatus
  PROVE  /\ Traded(p, s, row) \in PostRow
         /\ Traded(p, s, row).status
              = IF op[p].to = s.row.status THEN row.status ELSE op[p].to
         /\ Traded(p, s, row).price = row.price
         /\ Traded(p, s, row).hidden = row.hidden
  BY DEF Traded, PostRow

LEMMA EditedRow ==
  ASSUME NEW p, NEW s, NEW row \in PostRow, op[p].price \in Prices
  PROVE  /\ Edited(p, s, row) \in PostRow
         /\ Edited(p, s, row).status = row.status
         /\ Edited(p, s, row).hidden = row.hidden
  BY DEF Edited, PostRow

LEMMA HiddenRow ==
  ASSUME NEW row \in PostRow, NEW b \in BOOLEAN
  PROVE  /\ [row EXCEPT !.hidden = b] \in PostRow
         /\ [row EXCEPT !.hidden = b].status = row.status
         /\ [row EXCEPT !.hidden = b].price = row.price
         /\ [row EXCEPT !.hidden = b].hidden = b
  BY DEF PostRow

LEMMA DeletedRow ==
  ASSUME NEW row \in PostRow
  PROVE  /\ Deleted(row) \in PostRow
         /\ Deleted(row).status = row.status
         /\ Deleted(row).price = row.price
         /\ Deleted(row).hidden = row.hidden
  BY DEF Deleted, PostRow

\* A commit writes a post row; only a trade writes the status, only an edit
\* the price, only a hide hides.
LEMMA WrittenRow ==
  ASSUME op \in Plans, NEW p \in Ops, Kind(p) \in SellerKinds,
         NEW s, NEW row \in PostRow
  PROVE  /\ Written(p, s, row) \in PostRow
         /\ Written(p, s, row).status
              = IF Kind(p) = "trade" /\ op[p].to # s.row.status
                  THEN op[p].to ELSE row.status
         /\ Kind(p) # "edit" => Written(p, s, row).price = row.price
         /\ Kind(p) # "hide" /\ Written(p, s, row).hidden => row.hidden
<1> USE RequestTypes DEF Written
<1>1. CASE Kind(p) = "trade"
  BY <1>1, TradedRow
<1>2. CASE Kind(p) = "edit"
  BY <1>2, EditedRow
<1>3. CASE Kind(p) = "hide"
  BY <1>3, HiddenRow
<1>4. CASE Kind(p) = "unhide"
  BY <1>4, HiddenRow
<1>5. CASE Kind(p) = "delete"
  BY <1>5, DeletedRow
<1> QED
  BY <1>1, <1>2, <1>3, <1>4, <1>5 DEF SellerKinds

\* The row a trade inserts has a buyer and a conversation, and is for a post
\* that is not for sale.
LEMMA InsertedRow ==
  ASSUME op \in Plans, NEW p \in Ops, NEW s, Kind(p) = "trade",
         s.row.status \in TradeStatus, Allowed(p, s), Inserts(p, s)
  PROVE  NewProgress(p) \in Progress
<1>1. HasChat(p) /\ op[p].to # "FOR_SALE"
  BY DEF Allowed, TradeAllowed, Inserts, Completes, SameBuyer
<1> QED
  BY <1>1, RequestTypes DEF HasChat, NewProgress, Progress

LEMMA StruckRow ==
  ASSUME NEW r \in Progress
  PROVE  /\ [r EXCEPT !.live = FALSE] \in Progress
         /\ [r EXCEPT !.live = FALSE].post = r.post
         /\ [r EXCEPT !.live = FALSE].buyer = r.buyer
         /\ [r EXCEPT !.live = FALSE].status = r.status
         /\ [r EXCEPT !.live = FALSE].live = FALSE
  BY DEF Progress

LEMMA CompletedRow ==
  ASSUME NEW r \in Progress
  PROVE  /\ [r EXCEPT !.status = "COMPLETED"] \in Progress
         /\ [r EXCEPT !.status = "COMPLETED"].post = r.post
         /\ [r EXCEPT !.status = "COMPLETED"].buyer = r.buyer
         /\ [r EXCEPT !.status = "COMPLETED"].status = "COMPLETED"
         /\ [r EXCEPT !.status = "COMPLETED"].live = r.live
  BY DEF Progress, TradeStatus

-----------------------------------------------------------------------------
(* What one step can do to a trade_progress row: insert it, strike it or   *)
(* complete it.                                                            *)

LEMMA CommitProgress ==
  ASSUME DataInv, NEW p \in Ops, Commit(p), NEW r \in Ops
  PROVE  LET s == snap[p] IN
         /\ pc[p] = "commit" /\ InTransaction(p) /\ progress[p] = None
         /\ Kind(p) # "trade" => progress'[r] = progress[r]
         /\ Kind(p) = "trade" =>
              /\ r = p =>
                   progress'[r] = IF Inserts(p, s) THEN NewProgress(p) ELSE None
              /\ r # p /\ r # OldRow(p, s) => progress'[r] = progress[r]
              /\ r # p /\ r = OldRow(p, s) =>
                   progress'[r] = IF Completes(p, s)
                                    THEN [progress[r] EXCEPT !.status = "COMPLETED"]
                                    ELSE [progress[r] EXCEPT !.live = FALSE]
<1>1. pc[p] = "commit" /\ InTransaction(p)
  BY DEF Commit, Goto, InTransaction
<1>2. progress[p] = None
  BY <1>1 DEF DataInv, RowInv
<1>3. CASE Kind(p) # "trade"
  BY <1>1, <1>2, <1>3 DEF Commit
<1>4. CASE Kind(p) = "trade"
  <2>1. progress'[r] = WrittenProgress(p, snap[p], r)
    BY <1>4 DEF Commit
  <2> QED
    BY <1>1, <1>2, <1>4, <2>1 DEF WrittenProgress
<1> QED
  BY <1>3, <1>4

LEMMA OldRowExists ==
  ASSUME DataInv, NEW p \in Ops, Commit(p), Kind(p) = "trade",
         OldRow(p, snap[p]) # None
  PROVE  /\ snap[p].row.status = "RESERVED"
         /\ OldRow(p, snap[p]) = snap[p].cur
         /\ snap[p].cur \in Ops
         /\ snap[p].cur # p
         /\ progress[snap[p].cur] \in Progress
         /\ progress[snap[p].cur].post = Post(p)
<1>1. pc[p] = "commit" /\ InTransaction(p) /\ progress[p] = None
  BY DEF Commit, Goto, InTransaction, DataInv, RowInv
<1>2. snap[p].row.status = "RESERVED" /\ OldRow(p, snap[p]) = snap[p].cur
  BY DEF OldRow
<1>3. /\ snap[p].cur \in Ops
      /\ progress[snap[p].cur] # None
      /\ progress[snap[p].cur].post = Post(p)
  BY <1>1, <1>2 DEF DataInv, ReadInv, Snapshot
<1> QED
  BY <1>1, <1>2, <1>3 DEF DataInv, TypeOK

LEMMA ProgressStep ==
  ASSUME DataInv, [Next]_vars, NEW r \in Ops
  PROVE  \/ progress'[r] = progress[r]
         \/ /\ progress[r] \in Progress
            /\ progress'[r] \in {[progress[r] EXCEPT !.live = FALSE],
                                 [progress[r] EXCEPT !.status = "COMPLETED"]}
         \/ /\ progress[r] = None
            /\ Commit(r)
            /\ Kind(r) = "trade"
            /\ Inserts(r, snap[r])
            /\ progress'[r] = NewProgress(r)
<1>1. \/ progress' = progress
      \/ \E p \in Ops : Commit(p) \/ StrikePurchase(p)
  BY DEF Next, vars, Step, ReadSnapshot, Flush, Notify, FindPurchase,
     FindReviewedPost, ExistsByProductAndReviewer, InsertReview, Abort
<1>2. ASSUME NEW p \in Ops, StrikePurchase(p), progress'[r] # progress[r]
      PROVE  /\ progress[r] \in Progress
             /\ progress'[r] = [progress[r] EXCEPT !.live = FALSE]
  <2>1. r = op[p].row /\ progress[r] # None
    BY <1>2 DEF StrikePurchase, Goto, DataInv, StrikeInv, TypeOK
  <2> QED
    BY <1>2, <2>1 DEF StrikePurchase, DataInv, TypeOK
<1>3. ASSUME NEW p \in Ops, Commit(p), r # p, progress'[r] # progress[r]
      PROVE  /\ progress[r] \in Progress
             /\ progress'[r] \in {[progress[r] EXCEPT !.live = FALSE],
                                  [progress[r] EXCEPT !.status = "COMPLETED"]}
  <2>1. Kind(p) = "trade" /\ r = OldRow(p, snap[p])
    BY <1>3, CommitProgress
  <2>2. r # None
    BY TradeAssumption
  <2> QED
    BY <1>3, <2>1, <2>2, CommitProgress, OldRowExists
<1>4. ASSUME Commit(r), progress'[r] # progress[r]
      PROVE  /\ progress[r] = None
             /\ Kind(r) = "trade"
             /\ Inserts(r, snap[r])
             /\ progress'[r] = NewProgress(r)
  BY <1>4, CommitProgress
<1> QED
  BY <1>1, <1>2, <1>3, <1>4

\* A row once inserted keeps its post and buyer, and is never live again.
LEMMA RowStays ==
  ASSUME DataInv, [Next]_vars, NEW r \in Ops, progress[r] # None
  PROVE  /\ progress'[r] \in Progress
         /\ progress'[r] # None
         /\ progress'[r].post = progress[r].post
         /\ progress'[r].buyer = progress[r].buyer
         /\ progress'[r].live => progress[r].live
<1>1. progress[r] \in Progress
  BY DEF DataInv, TypeOK
<1>2. CASE progress'[r] = progress[r]
  BY <1>1, <1>2
<1>3. CASE progress'[r] = [progress[r] EXCEPT !.live = FALSE]
  BY <1>1, <1>3, StruckRow, NoneAssumption
<1>4. CASE progress'[r] = [progress[r] EXCEPT !.status = "COMPLETED"]
  BY <1>1, <1>4, CompletedRow, NoneAssumption
<1> QED
  BY <1>2, <1>3, <1>4, ProgressStep

LEMMA ProgressType ==
  ASSUME DataInv, [Next]_vars, NEW r \in Ops
  PROVE  progress'[r] \in Progress \cup {None}
<1>1. CASE progress[r] # None
  BY <1>1, RowStays
<1>2. CASE progress[r] = None /\ progress'[r] # None
  <2>1. Commit(r) /\ Kind(r) = "trade" /\ Inserts(r, snap[r])
           /\ progress'[r] = NewProgress(r)
    BY <1>2, ProgressStep, NoneAssumption
  <2>2. Allowed(r, snap[r]) /\ snap[r].row.status \in TradeStatus
    BY <2>1 DEF Commit, Goto, DataInv, ReadInv, InTransaction, Snapshot,
       PostRow
  <2> QED
    BY <2>1, <2>2, InsertedRow DEF DataInv, TypeOK
<1> QED
  BY <1>1, <1>2

\* A transaction stays allowed: of the row it found it looks at the buyer only.
LEMMA AllowedStays ==
  ASSUME DataInv, [Next]_vars, NEW p \in Ops, InTransaction(p),
         snap'[p] = snap[p]
  PROVE  Allowed(p, snap[p])'
<1>1. op' = op /\ Allowed(p, snap[p])
  BY OpStays DEF DataInv, ReadInv
<1>2. CASE snap[p].cur = None
  BY <1>1, <1>2 DEF Allowed, TradeAllowed, Kind, User, Post, HasChat
<1>3. CASE snap[p].cur # None
  <2>1. snap[p].cur \in Ops /\ progress[snap[p].cur] # None
    BY <1>3 DEF DataInv, ReadInv, Snapshot
  <2>2. progress'[snap[p].cur].buyer = progress[snap[p].cur].buyer
    BY <2>1, RowStays
  <2>3. TradeAllowed(p, snap[p])' = TradeAllowed(p, snap[p])
    BY <1>1, <2>2 DEF TradeAllowed, HasChat, OtherBuyer, SameBuyer, Post
  <2> QED
    BY <1>1, <2>3 DEF Allowed, Kind, User, Post
<1> QED
  BY <1>2, <1>3

-----------------------------------------------------------------------------
(* The conjuncts of DataInv are preserved.                                 *)

LEMMA ProgressIsFunction ==
  ASSUME DataInv, [Next]_vars
  PROVE  progress' \in [Ops -> Progress \cup {None}]
<1>1. progress' = [r \in Ops |-> progress'[r]]
  <2>1. progress = [r \in Ops |-> progress[r]]
    BY DEF DataInv, TypeOK
  <2>2. CASE progress' = progress
    BY <2>1, <2>2
  <2>3. ASSUME NEW p \in Ops, Commit(p)
        PROVE  progress' = [r \in Ops |-> progress'[r]]
    BY <2>1, <2>3 DEF Commit
  <2>4. ASSUME NEW p \in Ops, StrikePurchase(p)
        PROVE  progress' = [r \in Ops |-> progress'[r]]
    BY <2>1, <2>4 DEF StrikePurchase
  <2> QED
    BY <2>2, <2>3, <2>4 DEF Next, vars, Step, ReadSnapshot, Flush, Notify,
       FindPurchase, FindReviewedPost, ExistsByProductAndReviewer,
       InsertReview, Abort
<1> QED
  BY <1>1, ProgressType

LEMMA FoundProgressType ==
  ASSUME NEW p \in Ops, NEW c \in FoundProgress(p)
  PROVE  /\ c \in Ops \cup {None}
         /\ c # None => /\ Kind(p) = "trade"
                        /\ progress[c] # None
                        /\ progress[c].post = Post(p)
  BY DEF FoundProgress, Current

LEMMA TypeStep == DataInv /\ [Next]_vars => TypeOK'
<1> SUFFICES ASSUME DataInv, [Next]_vars PROVE TypeOK'
  OBVIOUS
<1> USE ProgressIsFunction, OpStays DEF DataInv, TypeOK, PCs, Idle, Goto
<1>1. CASE UNCHANGED vars
  BY <1>1 DEF vars
<1>2. ASSUME NEW p \in Ops, Step(p) PROVE TypeOK'
  <2>1. CASE ReadSnapshot(p)
    <3>1. PICK c \in FoundProgress(p) :
            snap' = [snap EXCEPT ![p] = [row |-> posts[Post(p)], cur |-> c]]
      BY <2>1 DEF ReadSnapshot
    <3>2. [row |-> posts[Post(p)], cur |-> c] \in Snapshot
      BY <3>1, FoundProgressType, RequestTypes DEF Snapshot
    <3> QED
      BY <2>1, <3>1, <3>2 DEF ReadSnapshot
  <2>2. CASE Flush(p)
    BY <2>2 DEF Flush
  <2>3. CASE Notify(p)
    BY <2>3 DEF Notify
  <2>4. CASE Commit(p)
    <3>1. Written(p, snap[p], posts[Post(p)]) \in PostRow
      BY <2>4, WrittenRow, RequestTypes DEF Commit, ReadInv, InTransaction
    <3> QED
      BY <2>4, <3>1 DEF Commit, Unlock
  <2>5. CASE FindPurchase(p)
    BY <2>5 DEF FindPurchase
  <2>6. CASE StrikePurchase(p)
    BY <2>6 DEF StrikePurchase
  <2>7. CASE FindReviewedPost(p)
    BY <2>7 DEF FindReviewedPost
  <2>8. CASE ExistsByProductAndReviewer(p)
    BY <2>8 DEF ExistsByProductAndReviewer
  <2>9. CASE InsertReview(p)
    BY <2>9 DEF InsertReview
  <2> QED
    BY <1>2, <2>1, <2>2, <2>3, <2>4, <2>5, <2>6, <2>7, <2>8, <2>9 DEF Step
<1>3. ASSUME NEW p \in Ops, Abort(p) PROVE TypeOK'
  BY <1>3 DEF Abort, Unlock
<1> QED
  BY <1>1, <1>2, <1>3 DEF Next

LEMMA RowStep == DataInv /\ [Next]_vars => RowInv'
<1> SUFFICES ASSUME DataInv, [Next]_vars PROVE RowInv'
  OBVIOUS
<1> USE OpStays, RowStays DEF DataInv, TypeOK, RowInv, Idle, Goto, Post
<1>1. CASE UNCHANGED vars
  BY <1>1 DEF vars
<1>2. ASSUME NEW p \in Ops, Step(p) PROVE RowInv'
  <2>1. CASE ReadSnapshot(p)
    BY <2>1 DEF ReadSnapshot
  <2>2. CASE Flush(p)
    BY <2>2 DEF Flush
  <2>3. CASE Notify(p)
    BY <2>3 DEF Notify
  <2>4. CASE Commit(p)
    <3>1. ASSUME NEW r \in Ops, progress[r] = None, progress'[r] # None
          PROVE  r = p /\ progress'[r] = NewProgress(r)
      <4>1. Commit(r) /\ progress'[r] = NewProgress(r)
        BY <3>1, ProgressStep, NoneAssumption
      <4>2. pc'[r] = "done" /\ pc[r] = "commit"
        BY <4>1 DEF Commit
      <4> QED
        BY <2>4, <4>1, <4>2 DEF Commit
    <3>2. pc'[p] = "done" /\ \A r \in Ops : pc[r] = "done" => pc'[r] = "done"
      BY <2>4 DEF Commit
    <3>3. NewProgress(p).post = Post(p)
      BY DEF NewProgress
    <3>4. ASSUME NEW r \in Ops, progress'[r] # None
          PROVE  pc'[r] = "done" /\ progress'[r].post = Post(r)
      <4>1. CASE progress[r] = None
        BY <3>1, <3>2, <3>3, <3>4, <4>1
      <4>2. CASE progress[r] # None
        BY <3>2, <4>2
      <4> QED
        BY <4>1, <4>2
    <3> QED
      BY <3>4
  <2>5. CASE FindPurchase(p)
    BY <2>5 DEF FindPurchase
  <2>6. CASE StrikePurchase(p)
    <3>1. ASSUME NEW r \in Ops, progress[r] = None PROVE progress'[r] = None
      BY <2>6, <3>1 DEF StrikePurchase, StrikeInv
    <3>2. \A r \in Ops : pc[r] = "done" => pc'[r] = "done"
      BY <2>6 DEF StrikePurchase
    <3> QED
      BY <3>1, <3>2
  <2>7. CASE FindReviewedPost(p)
    BY <2>7 DEF FindReviewedPost
  <2>8. CASE ExistsByProductAndReviewer(p)
    BY <2>8 DEF ExistsByProductAndReviewer
  <2>9. CASE InsertReview(p)
    BY <2>9 DEF InsertReview
  <2> QED
    BY <1>2, <2>1, <2>2, <2>3, <2>4, <2>5, <2>6, <2>7, <2>8, <2>9 DEF Step
<1>3. ASSUME NEW p \in Ops, Abort(p) PROVE RowInv'
  BY <1>3 DEF Abort, Unlock
<1> QED
  BY <1>1, <1>2, <1>3 DEF Next

LEMMA StrikeStep == DataInv /\ [Next]_vars => StrikeInv'
<1> SUFFICES ASSUME DataInv, [Next]_vars PROVE StrikeInv'
  OBVIOUS
<1> USE OpStays, RowStays DEF DataInv, TypeOK, StrikeInv, Idle, Goto
<1>1. CASE UNCHANGED vars
  BY <1>1 DEF vars
<1>2. ASSUME NEW p \in Ops, Step(p) PROVE StrikeInv'
  <2>1. CASE ReadSnapshot(p)
    BY <2>1 DEF ReadSnapshot
  <2>2. CASE Flush(p)
    BY <2>2 DEF Flush
  <2>3. CASE Notify(p)
    BY <2>3 DEF Notify
  <2>4. CASE Commit(p)
    BY <2>4 DEF Commit
  <2>5. CASE FindPurchase(p)
    BY <2>5, RequestTypes DEF FindPurchase
  <2>6. CASE StrikePurchase(p)
    BY <2>6 DEF StrikePurchase
  <2>7. CASE FindReviewedPost(p)
    BY <2>7 DEF FindReviewedPost
  <2>8. CASE ExistsByProductAndReviewer(p)
    BY <2>8 DEF ExistsByProductAndReviewer
  <2>9. CASE InsertReview(p)
    BY <2>9 DEF InsertReview
  <2> QED
    BY <1>2, <2>1, <2>2, <2>3, <2>4, <2>5, <2>6, <2>7, <2>8, <2>9 DEF Step
<1>3. ASSUME NEW p \in Ops, Abort(p) PROVE StrikeInv'
  BY <1>3 DEF Abort, Unlock
<1> QED
  BY <1>1, <1>2, <1>3 DEF Next

\* A request is in its transaction because it has just read, or since before.
LEMMA TransactionKept ==
  ASSUME DataInv, [Next]_vars, NEW q \in Ops, InTransaction(q)'
  PROVE  \/ InTransaction(q) /\ snap'[q] = snap[q]
         \/ ReadSnapshot(q)
<1> USE DEF Goto, InTransaction, DataInv, TypeOK
<1>1. CASE UNCHANGED vars
  BY <1>1 DEF vars
<1>2. ASSUME NEW p \in Ops, ReadSnapshot(p), p # q
      PROVE  InTransaction(q) /\ snap'[q] = snap[q]
  BY <1>2 DEF ReadSnapshot
<1>3. ASSUME NEW p \in Ops, Flush(p) \/ Notify(p) \/ Commit(p)
      PROVE  InTransaction(q) /\ snap'[q] = snap[q]
  BY <1>3 DEF Flush, Notify, Commit
<1>4. ASSUME NEW p \in Ops, \/ FindPurchase(p) \/ StrikePurchase(p)
                            \/ FindReviewedPost(p) \/ InsertReview(p)
                            \/ ExistsByProductAndReviewer(p) \/ Abort(p)
      PROVE  InTransaction(q) /\ snap'[q] = snap[q]
  BY <1>4 DEF FindPurchase, StrikePurchase, FindReviewedPost, InsertReview,
     ExistsByProductAndReviewer, Abort
<1> QED
  BY <1>1, <1>2, <1>3, <1>4 DEF Next, Step

LEMMA ReadStep == DataInv /\ [Next]_vars => ReadInv'
<1> SUFFICES ASSUME DataInv, [Next]_vars, NEW q \in Ops, InTransaction(q)'
             PROVE  /\ Kind(q)' \in SellerKinds
                    /\ snap'[q] \in Snapshot
                    /\ Allowed(q, snap[q])'
                    /\ snap'[q].cur # None =>
                         /\ Kind(q)' = "trade"
                         /\ progress'[snap'[q].cur] # None
                         /\ progress'[snap'[q].cur].post = Post(q)'
  BY DEF ReadInv
<1>1. /\ op' = op
      /\ Kind(q)' = Kind(q)
      /\ Post(q)' = Post(q)
  BY OpStays DEF Kind, Post
<1>2. CASE InTransaction(q) /\ snap'[q] = snap[q]
  <2>1. /\ Kind(q) \in SellerKinds
        /\ snap[q] \in Snapshot
        /\ snap[q].cur \in Ops \cup {None}
        /\ snap[q].cur # None => /\ Kind(q) = "trade"
                                 /\ progress[snap[q].cur] # None
                                 /\ progress[snap[q].cur].post = Post(q)
    BY <1>2 DEF DataInv, ReadInv, Snapshot
  <2> QED
    BY <1>1, <1>2, <2>1, AllowedStays, RowStays
<1>3. CASE ReadSnapshot(q)
  <2> USE DEF ReadSnapshot, Goto
  <2>1. PICK c \in FoundProgress(q) :
          LET s == [row |-> posts[Post(q)], cur |-> c] IN
          /\ pc' = [pc EXCEPT ![q] = IF Allowed(q, s) THEN "flush" ELSE "failed"]
          /\ snap' = [snap EXCEPT ![q] = s]
    BY <1>3
  <2> DEFINE s == [row |-> posts[Post(q)], cur |-> c]
  <2>2. Allowed(q, s) /\ snap'[q] = s
    BY <2>1 DEF InTransaction, DataInv, TypeOK
  <2>3. s \in Snapshot
    BY FoundProgressType, RequestTypes DEF Snapshot, DataInv, TypeOK
  <2>4. UNCHANGED <<op, posts, progress>> /\ Kind(q) \in SellerKinds
    BY <1>3
  <2>5. Allowed(q, s)' = Allowed(q, s)
    BY <2>4 DEF Allowed, TradeAllowed, HasChat, OtherBuyer, SameBuyer, Kind,
       User, Post
  <2>6. Allowed(q, snap[q])'
    BY <2>2, <2>4, <2>5 DEF Allowed, TradeAllowed, HasChat, OtherBuyer,
       SameBuyer, Kind, User, Post
  <2> QED
    BY <1>1, <2>2, <2>3, <2>4, <2>6, FoundProgressType
<1> QED
  BY <1>2, <1>3, TransactionKept

LEMMA DataInit == Init => DataInv
<1> SUFFICES ASSUME Init PROVE DataInv
  OBVIOUS
<1>1. posts \in [Posts -> PostRow]
  BY DEF Init, PostRow, TradeStatus
<1> QED
  BY <1>1 DEF Init, DataInv, TypeOK, PCs, Idle, RowInv, ReadInv, StrikeInv,
     InTransaction

LEMMA DataStep == DataInv /\ [Next]_vars => DataInv'
  BY TypeStep, RowStep, StrikeStep, ReadStep DEF DataInv

\* What holds however the requests interleave, of one seller or several.
THEOREM DataInvariant == Spec => []DataInv
  BY DataInit, DataStep, PTL DEF Spec

\* Posts, trade_progress rows, locks and snapshots keep their types.
THEOREM TypeCorrect == Spec => []TypeOK
<1>1. DataInv => TypeOK
  BY DEF DataInv
<1> QED
  BY <1>1, DataInvariant, PTL

-----------------------------------------------------------------------------
(* The posts of sellers who send one request at a time.                    *)

LEMMA AloneStep ==
  ASSUME TypeOK, Alone, [Next]_vars
  PROVE  Alone'
<1> USE OpStays DEF TypeOK, Alone, Idle, User
<1>1. CASE UNCHANGED vars
  BY <1>1 DEF vars
<1>2. ASSUME NEW p \in Ops, Step(p) \/ Abort(p) PROVE Alone'
  <2>1. \A q \in Ops : q # p => pc'[q] = pc[q]
    BY <1>2 DEF Step, Goto, ReadSnapshot, Flush, Notify, Commit, FindPurchase,
       StrikePurchase, FindReviewedPost, ExistsByProductAndReviewer,
       InsertReview, Abort
  <2>2. pc[p] \notin Idle \/ pc'[p] \in Idle \/ MayStart(p)
    BY <1>2 DEF Step, Goto, ReadSnapshot, Flush, Notify, Commit, FindPurchase,
       StrikePurchase, FindReviewedPost, ExistsByProductAndReviewer,
       InsertReview, Abort
  <2> QED
    BY <2>1, <2>2 DEF MayStart
<1> QED
  BY <1>1, <1>2 DEF Next

\* A patient seller has at most one open transaction, so the post has.
LEMMA OneTransaction ==
  ASSUME DataInv, Alone, NEW p \in Ops, NEW q \in Ops,
         InTransaction(p), InTransaction(q), Post(p) = Post(q), Steady(Post(p))
  PROVE  p = q
<1>1. User(p) = seller[Post(p)] /\ User(q) = seller[Post(q)]
  BY DEF DataInv, ReadInv, Allowed
<1> QED
  BY <1>1 DEF Alone, Steady, InTransaction, Idle

\* What only a commit can do: change a post, or make a row live or completed.
LEMMA OnlyCommitWrites ==
  ASSUME DataInv, [Next]_vars, NEW t \in Posts,
         \A p \in Ops : Commit(p) => Post(p) # t
  PROVE  /\ posts'[t] = posts[t]
         /\ Current(t)' \subseteq Current(t)
         /\ \A r \in Current(t)' : progress'[r] = progress[r]
<1>1. posts'[t] = posts[t]
  BY DEF DataInv, TypeOK, Next, vars, Step, ReadSnapshot, Flush, Notify,
     Commit, FindPurchase, StrikePurchase, FindReviewedPost,
     ExistsByProductAndReviewer, InsertReview, Abort
<1>2. ASSUME NEW r \in Ops, progress'[r] # None, progress'[r].post = t,
             progress'[r].live
      PROVE  r \in Current(t) /\ progress'[r] = progress[r]
  <2>1. progress[r] # None
    <3>1. SUFFICES ASSUME progress[r] = None PROVE FALSE
      OBVIOUS
    <3>2. Commit(r) /\ progress'[r] = NewProgress(r)
      BY <1>2, <3>1, ProgressStep, NoneAssumption
    <3> QED
      BY <1>2, <3>2 DEF NewProgress
  <2>2. progress[r] \in Progress /\ progress[r].post = t /\ progress[r].live
    BY <1>2, <2>1, RowStays DEF DataInv, TypeOK
  <2>3. progress'[r] # [progress[r] EXCEPT !.live = FALSE]
    BY <1>2, <2>2, StruckRow
  <2>4. progress'[r] = progress[r]
    <3>1. \/ progress' = progress
          \/ \E p \in Ops : Commit(p) \/ StrikePurchase(p)
      BY DEF Next, vars, Step, ReadSnapshot, Flush, Notify, FindPurchase,
         FindReviewedPost, ExistsByProductAndReviewer, InsertReview, Abort
    <3>2. ASSUME NEW p \in Ops, Commit(p), progress'[r] # progress[r]
          PROVE  FALSE
      <4>1. Kind(p) = "trade" /\ r # p /\ r = OldRow(p, snap[p])
        BY <2>1, <3>2, CommitProgress
      <4>2. r # None
        BY TradeAssumption
      <4>3. progress[r].post = Post(p)
        BY <3>2, <4>1, <4>2, OldRowExists
      <4> QED
        BY <2>2, <3>2, <4>3
    <3>3. ASSUME NEW p \in Ops, StrikePurchase(p) PROVE progress'[r] = progress[r]
      BY <2>3, <3>3 DEF StrikePurchase, DataInv, TypeOK
    <3> QED
      BY <3>1, <3>2, <3>3
  <2> QED
    BY <2>1, <2>2, <2>4 DEF Current
<1> QED
  BY <1>1, <1>2 DEF Current

\* A commit writes what its snapshot allows, onto the post as it was read if
\* the seller is patient.
LEMMA CommitPost ==
  ASSUME DataInv, SnapInv, NEW p \in Ops, Commit(p)
  PROVE  /\ InTransaction(p)
         /\ Post(p) \in Posts
         /\ Kind(p) \in SellerKinds
         /\ Allowed(p, snap[p])
         /\ Steady(Post(p)) => snap[p].row = posts[Post(p)]
         /\ posts'[Post(p)] = Written(p, snap[p], posts[Post(p)])
         /\ posts[Post(p)] \in PostRow
<1>1. InTransaction(p)
  BY DEF Commit, Goto, InTransaction
<1>2. Post(p) \in Posts
  BY RequestTypes DEF DataInv, TypeOK
<1>3. /\ Kind(p) \in SellerKinds
      /\ Allowed(p, snap[p])
      /\ Steady(Post(p)) => snap[p].row = posts[Post(p)]
  BY <1>1 DEF DataInv, ReadInv, SnapInv
<1>4. posts[Post(p)] \in PostRow
  BY <1>2 DEF DataInv, TypeOK
<1>5. posts'[Post(p)] = Written(p, snap[p], posts[Post(p)])
  BY <1>2 DEF Commit, DataInv, TypeOK
<1> QED
  BY <1>1, <1>2, <1>3, <1>4, <1>5

\* What the commit of a trade leaves of the post's rows: the one it inserts,
\* the one it completes if the buyer has not struck it, or none.
LEMMA TradeCommit ==
  ASSUME DataInv, SnapInv, StatusMatchesProgress, [Next]_vars,
         NEW p \in Ops, Commit(p), Kind(p) = "trade",
         NEW t, t = Post(p), Steady(t)
  PROVE  LET s == snap[p] IN
         /\ posts'[t].status = op[p].to
         /\ s.row.status # "COMPLETED"
         /\ Inserts(p, s) => /\ op[p].to # "FOR_SALE"
                             /\ Current(t)' = {p}
                             /\ progress'[p] = NewProgress(p)
                             /\ NewProgress(p) \in Progress
         /\ Completes(p, s) =>
              /\ s.row.status = "RESERVED"
              /\ op[p].to = "COMPLETED"
              /\ Current(t) \subseteq {s.cur}
              /\ Current(t)' = Current(t)
              /\ \A r \in Current(t) : /\ progress'[r].status = "COMPLETED"
                                       /\ progress'[r].buyer = progress[r].buyer
         /\ ~Inserts(p, s) /\ ~Completes(p, s) =>
              /\ s.row.status = "RESERVED"
              /\ op[p].to = "FOR_SALE"
              /\ Current(t)' = {}
<1> DEFINE s == snap[p]
<1>1. /\ InTransaction(p)
      /\ t \in Posts
      /\ TradeAllowed(p, s)
      /\ Allowed(p, s)
      /\ s.row = posts[t]
      /\ s.row \in PostRow
      /\ s.row.status \in TradeStatus
      /\ posts'[t] = Written(p, s, s.row)
  BY CommitPost DEF Allowed, PostRow
<1>2. posts'[t].status = op[p].to
  BY <1>1, WrittenRow, CommitPost DEF DataInv, TypeOK
<1>3. s.row.status # "COMPLETED"
  BY <1>1 DEF TradeAllowed
<1>4. progress[p] = None /\ Current(t) \subseteq {s.cur} /\ p \notin Current(t)
  BY <1>1, CommitProgress DEF SnapInv, Current
<1>5. Inserts(p, s) => progress'[p] = NewProgress(p) /\ NewProgress(p) \in Progress
  BY <1>1, CommitProgress, InsertedRow DEF DataInv, TypeOK
<1>6. CASE s.row.status = "FOR_SALE"
  <2>1. Current(t) = {}
    BY <1>1, <1>6 DEF StatusMatchesProgress, SteadyPosts, Current, DataInv,
       TypeOK, Progress
  <2>2. Inserts(p, s) /\ ~Completes(p, s) /\ op[p].to # "FOR_SALE"
    BY <1>1, <1>6 DEF Inserts, Completes, TradeAllowed
  <2>3. OldRow(p, s) = None
    BY <1>6 DEF OldRow
  <2>4. \A r \in Ops : r # p => progress'[r] = progress[r]
    BY <2>3, CommitProgress, TradeAssumption
  <2>5. /\ progress'[p] # None
        /\ progress'[p].post = t
        /\ progress'[p].live
    BY <1>5, <2>2, NoneAssumption DEF NewProgress
  <2>6. Current(t)' = {p}
    BY <2>1, <2>4, <2>5 DEF Current
  <2> QED
    BY <1>2, <1>3, <1>5, <2>2, <2>6
<1>7. CASE s.row.status = "RESERVED"
  <2>1. /\ OldRow(p, s) = s.cur
        /\ s.cur # None
        /\ s.cur \in Ops
        /\ s.cur # p
        /\ progress[s.cur] \in Progress
        /\ progress[s.cur].post = t
    <3>1. OldRow(p, s) = s.cur /\ s.cur # None
      BY <1>1, <1>7 DEF OldRow, TradeAllowed
    <3> QED
      BY <3>1, OldRowExists
  <2>2. \A r \in Ops : r # p /\ r # s.cur => progress'[r] = progress[r]
    BY <2>1, CommitProgress
  <2>3. CASE Completes(p, s)
    <3>1. op[p].to = "COMPLETED" /\ ~Inserts(p, s)
      BY <2>3 DEF Completes, Inserts
    <3>2. progress'[s.cur] = [progress[s.cur] EXCEPT !.status = "COMPLETED"]
      BY <2>1, <2>3, CommitProgress
    <3>3. /\ progress'[s.cur] # None
          /\ progress'[s.cur].post = t
          /\ progress'[s.cur].buyer = progress[s.cur].buyer
          /\ progress'[s.cur].status = "COMPLETED"
          /\ progress'[s.cur].live = progress[s.cur].live
          /\ progress[s.cur] # None
      BY <2>1, <3>2, CompletedRow, NoneAssumption
    <3>4. progress'[p] = None
      BY <3>1, CommitProgress
    <3>5. Current(t)' = Current(t)
      BY <1>4, <2>1, <2>2, <3>3, <3>4 DEF Current
    <3> QED
      BY <1>2, <1>3, <1>4, <1>7, <2>3, <3>1, <3>3, <3>5
  <2>4. CASE ~Completes(p, s)
    <3>1. progress'[s.cur] = [progress[s.cur] EXCEPT !.live = FALSE]
      BY <2>1, <2>4, CommitProgress
    <3>2. ~progress'[s.cur].live
      BY <2>1, <3>1, StruckRow
    <3>3. \A r \in Ops : r # p => r \notin Current(t)'
      BY <1>4, <2>2, <3>2 DEF Current
    <3>4. CASE Inserts(p, s)
      <4>1. /\ progress'[p] # None
            /\ progress'[p].post = t
            /\ progress'[p].live
        BY <1>5, <3>4, NoneAssumption DEF NewProgress
      <4>2. Current(t)' = {p}
        BY <3>3, <4>1 DEF Current
      <4> QED
        BY <1>2, <1>3, <1>5, <2>4, <3>4, <4>2 DEF Inserts
    <3>5. CASE ~Inserts(p, s)
      <4>1. op[p].to = "FOR_SALE"
        BY <2>4, <3>5 DEF Inserts
      <4>2. progress'[p] = None
        BY <3>5, CommitProgress
      <4>3. Current(t)' = {}
        BY <3>3, <4>2 DEF Current
      <4> QED
        BY <1>2, <1>3, <1>7, <2>4, <3>5, <4>1, <4>3
    <3> QED
      BY <3>4, <3>5
  <2> QED
    BY <2>3, <2>4
<1> QED
  BY <1>1, <1>3, <1>6, <1>7 DEF TradeStatus

\* A post's status changes by the commit of a trade that found it otherwise.
LEMMA CommitStatus ==
  ASSUME DataInv, SnapInv, NEW p \in Ops, Commit(p), Steady(Post(p))
  PROVE  /\ Kind(p) # "trade" => posts'[Post(p)].status = posts[Post(p)].status
         /\ posts[Post(p)].status = "COMPLETED" => Kind(p) # "trade"
<1>1. /\ Kind(p) \in SellerKinds
      /\ Allowed(p, snap[p])
      /\ snap[p].row = posts[Post(p)]
      /\ posts'[Post(p)] = Written(p, snap[p], posts[Post(p)])
      /\ posts[Post(p)] \in PostRow
  BY CommitPost
<1>2. Kind(p) # "trade" => posts'[Post(p)].status = posts[Post(p)].status
  BY <1>1, WrittenRow DEF DataInv, TypeOK
<1>3. posts[Post(p)].status = "COMPLETED" => Kind(p) # "trade"
  BY <1>1 DEF Allowed, TradeAllowed
<1> QED
  BY <1>2, <1>3

\* A commit that is not a trade leaves all rows as they are.
LEMMA OtherCommit ==
  ASSUME DataInv, SnapInv, NEW p \in Ops, Commit(p), Kind(p) # "trade"
  PROVE  /\ UNCHANGED progress
         /\ \A t \in Posts : /\ posts'[t].status = posts[t].status
                              /\ Current(t)' = Current(t)
<1>1. progress' = progress
  BY DEF Commit
<1>2. \A t \in Posts : t # Post(p) => posts'[t] = posts[t]
  BY DEF Commit, DataInv, TypeOK
<1>3. posts'[Post(p)].status = posts[Post(p)].status
  BY CommitPost, WrittenRow DEF DataInv, TypeOK
<1> QED
  BY <1>1, <1>2, <1>3 DEF Current

LEMMA CompletedStays ==
  ASSUME DataInv, SnapInv, [Next]_vars, NEW t \in SteadyPosts,
         posts[t].status = "COMPLETED"
  PROVE  posts'[t].status = "COMPLETED"
<1>1. ASSUME NEW p \in Ops, Commit(p), Post(p) = t
      PROVE  posts'[t].status = "COMPLETED"
  BY <1>1, CommitStatus DEF SteadyPosts
<1>2. CASE \A p \in Ops : Commit(p) => Post(p) # t
  BY <1>2, OnlyCommitWrites DEF SteadyPosts
<1> QED
  BY <1>1, <1>2

LEMMA StatusStep ==
  ASSUME DataInv, SnapInv, StatusMatchesProgress, [Next]_vars
  PROVE  StatusMatchesProgress'
<1> SUFFICES ASSUME NEW t \in SteadyPosts, NEW q \in Current(t)', NEW r \in Current(t)'
             PROVE  q = r /\ progress'[r].status = posts'[t].status
  BY DEF StatusMatchesProgress, SteadyPosts
<1> USE DEF SteadyPosts
<1>1. ASSUME NEW p \in Ops, Commit(p), Kind(p) = "trade", Post(p) = t
      PROVE  q = r /\ progress'[r].status = posts'[t].status
  <2>1. CASE Inserts(p, snap[p])
    <3>1. /\ posts'[t].status = op[p].to
          /\ q = p
          /\ r = p
          /\ progress'[p] = NewProgress(p)
      BY <1>1, <2>1, TradeCommit
    <3> QED
      BY <3>1 DEF NewProgress
  <2>2. CASE Completes(p, snap[p])
    BY <1>1, <2>2, TradeCommit
  <2>3. CASE ~Inserts(p, snap[p]) /\ ~Completes(p, snap[p])
    BY <1>1, <2>3, TradeCommit
  <2> QED
    BY <2>1, <2>2, <2>3
<1>2. ASSUME NEW p \in Ops, Commit(p), Kind(p) # "trade"
      PROVE  q = r /\ progress'[r].status = posts'[t].status
  BY <1>2, OtherCommit DEF StatusMatchesProgress
<1>3. CASE \A p \in Ops : Commit(p) => Post(p) # t
  BY <1>3, OnlyCommitWrites DEF StatusMatchesProgress
<1> QED
  BY <1>1, <1>2, <1>3

LEMMA SnapStep ==
  ASSUME DataInv, Alone, SnapInv, StatusMatchesProgress, [Next]_vars
  PROVE  SnapInv'
<1> SUFFICES ASSUME NEW q \in Ops, InTransaction(q)', Steady(Post(q))
             PROVE  /\ posts'[Post(q)] = snap'[q].row
                    /\ Kind(q) = "trade" => Current(Post(q))' \subseteq {snap'[q].cur}
  BY OpStays DEF SnapInv, Steady, Post, Kind
<1>1. Post(q) \in Posts /\ Post(q)' = Post(q)
  BY RequestTypes, OpStays DEF DataInv, TypeOK, Post
<1>2. CASE ReadSnapshot(q)
  <2>1. PICK c \in FoundProgress(q) :
          snap' = [snap EXCEPT ![q] = [row |-> posts[Post(q)], cur |-> c]]
    BY <1>2 DEF ReadSnapshot
  <2>2. /\ snap'[q].row = posts[Post(q)]
        /\ snap'[q].cur = c
        /\ posts' = posts
        /\ progress' = progress
    BY <1>2, <2>1 DEF ReadSnapshot, DataInv, TypeOK
  <2>3. Current(Post(q))' = Current(Post(q))
    BY <1>1, <2>2 DEF Current
  <2>4. ASSUME Kind(q) = "trade" PROVE Current(Post(q)) \subseteq {c}
    BY <1>1, <2>4 DEF FoundProgress, StatusMatchesProgress, SteadyPosts
  <2> QED
    BY <2>2, <2>3, <2>4
<1>3. CASE InTransaction(q) /\ snap'[q] = snap[q]
  <2>1. \A p \in Ops : Commit(p) => Post(p) # Post(q)
    <3> SUFFICES ASSUME NEW p \in Ops, Commit(p), Post(p) = Post(q) PROVE FALSE
      OBVIOUS
    <3>1. p = q
      BY <1>3, OneTransaction, CommitPost
    <3> QED
      BY <3>1 DEF Commit, Goto, InTransaction, DataInv, TypeOK
  <2>2. /\ posts'[Post(q)] = posts[Post(q)]
        /\ Current(Post(q))' \subseteq Current(Post(q))
    BY <1>1, <2>1, OnlyCommitWrites
  <2> QED
    BY <1>3, <2>2 DEF SnapInv
<1> QED
  BY <1>2, <1>3, TransactionKept

LEMMA ReviewStep ==
  ASSUME DataInv, SnapInv, ReviewInv, [Next]_vars
  PROVE  ReviewInv'
<1> SUFFICES ASSUME NEW q \in Ops, Steady(Post(q)),
                    q \in reviews' \/ pc'[q] \in {"exists", "insert"}
             PROVE  posts'[Post(q)].status = "COMPLETED"
  BY OpStays DEF ReviewInv, Steady, Post
<1>1. posts[Post(q)].status = "COMPLETED"
  <2> USE DEF ReviewInv, Goto, DataInv, TypeOK
  <2>1. CASE q \in reviews \/ pc[q] \in {"exists", "insert"}
    BY <2>1
  <2>2. CASE q \notin reviews /\ pc[q] \notin {"exists", "insert"}
    <3>1. CASE UNCHANGED vars
      BY <2>2, <3>1 DEF vars
    <3>2. ASSUME NEW p \in Ops, ReadSnapshot(p) \/ Flush(p) \/ Notify(p) \/ Commit(p)
          PROVE  FALSE
      BY <2>2, <3>2 DEF ReadSnapshot, Flush, Notify, Commit
    <3>3. ASSUME NEW p \in Ops, \/ FindPurchase(p) \/ StrikePurchase(p) \/ Abort(p)
                                \/ ExistsByProductAndReviewer(p) \/ InsertReview(p)
          PROVE  FALSE
      BY <2>2, <3>3 DEF FindPurchase, StrikePurchase, Abort,
         ExistsByProductAndReviewer, InsertReview
    <3>4. ASSUME NEW p \in Ops, FindReviewedPost(p)
          PROVE  posts[Post(q)].status = "COMPLETED"
      BY <2>2, <3>4 DEF FindReviewedPost
    <3> QED
      BY <3>1, <3>2, <3>3, <3>4 DEF Next, Step
  <2> QED
    BY <2>1, <2>2
<1> QED
  BY <1>1, CompletedStays, RequestTypes DEF DataInv, TypeOK, SteadyPosts

LEMMA InvInit == Init => IInv
<1> SUFFICES ASSUME Init PROVE IInv
  OBVIOUS
<1>1. Alone /\ SnapInv /\ ReviewInv
  BY DEF Init, Alone, SnapInv, ReviewInv, InTransaction, Idle
<1>2. StatusMatchesProgress
  BY DEF Init, StatusMatchesProgress, Current
<1> QED
  BY <1>1, <1>2, DataInit DEF IInv

LEMMA InvStep == IInv /\ [Next]_vars => IInv'
  BY DataStep, AloneStep, SnapStep, StatusStep, ReviewStep DEF IInv, DataInv

-----------------------------------------------------------------------------
(* The theorems.                                                           *)

\* However other requests interleave, the snapshot of a seller who sends one
\* request at a time is never stale.
THEOREM TradeInvariant == Spec => []IInv
  BY InvInit, InvStep, PTL DEF Spec

\* A post of a patient seller has at most one live trade_progress row, of the
\* post's own status, and none while it is for sale, whatever is struck,
\* reviewed or rolled back meanwhile.
THEOREM StatusMatches == Spec => []StatusMatchesProgress
<1>1. IInv => StatusMatchesProgress
  BY DEF IInv
<1> QED
  BY <1>1, TradeInvariant, PTL

\* Every review in the database of a patient seller's post is of a completed
\* trade.
THEOREM ReviewsAreOfTrades == Spec => []ReviewedIsCompleted
<1>1. IInv => ReviewedIsCompleted
  BY DEF IInv, DataInv, TypeOK, ReviewInv, ReviewedIsCompleted
<1> QED
  BY <1>1, TradeInvariant, PTL

\* What the commit of a request that was let through on the post's present
\* status may do to it.
LEMMA FreshCommit ==
  ASSUME IInv, NEW p \in Ops, Commit(p), NEW t, t = Post(p),
         snap[p].row.status = posts[t].status
  PROVE  /\ posts[t].status = "COMPLETED" => posts'[t].status = "COMPLETED"
         /\ posts[t].status # "FOR_SALE" => posts'[t].price = posts[t].price
         /\ posts[t].status = "RESERVED" /\ posts'[t].hidden => posts[t].hidden
<1>1. /\ Kind(p) \in SellerKinds
      /\ Allowed(p, snap[p])
      /\ posts'[t] = Written(p, snap[p], posts[t])
      /\ posts[t] \in PostRow
  BY CommitPost DEF IInv
<1>2. /\ Kind(p) = "trade" => posts[t].status # "COMPLETED"
      /\ Kind(p) = "edit" => posts[t].status = "FOR_SALE"
      /\ Kind(p) = "hide" => posts[t].status # "RESERVED"
  BY <1>1 DEF Allowed, TradeAllowed, MayEdit, MayHide
<1> QED
  BY <1>1, <1>2, WrittenRow DEF IInv, DataInv, TypeOK

\* Any post, its seller patient or not: a completed trade is left, a reserved
\* or sold post edited and a reserved one hidden only by a request that was
\* let through on a status another request of the same seller has changed.
THEOREM TradedIsFrozen == Spec => FrozenWhileTraded
<1> DEFINE Frozen(t) ==
      /\ posts[t].status = "COMPLETED" => posts'[t].status = "COMPLETED"
      /\ posts[t].status # "FOR_SALE" => posts'[t].price = posts[t].price
      /\ posts[t].status = "RESERVED" /\ posts'[t].hidden => posts[t].hidden
<1>1. ASSUME IInv, [Next]_vars, NEW t \in Posts
      PROVE  StaleCommit(t) \/ Frozen(t)
  <2>1. CASE \A p \in Ops : Commit(p) => Post(p) # t
    BY <1>1, <2>1, OnlyCommitWrites DEF IInv
  <2>2. ASSUME NEW p \in Ops, Commit(p), Post(p) = t
        PROVE  StaleCommit(t) \/ Frozen(t)
    <3>1. CASE snap[p].row.status = posts[t].status
      BY <1>1, <2>2, <3>1, FreshCommit
    <3>2. CASE snap[p].row.status # posts[t].status
      <4>1. ~Steady(t)
        BY <1>1, <2>2, <3>2, CommitPost DEF IInv
      <4>2. pc[p] = "commit" /\ pc'[p] = "done"
        BY <1>1, <2>2 DEF Commit, Goto, IInv, DataInv, TypeOK
      <4> QED
        BY <2>2, <3>2, <4>1, <4>2 DEF StaleCommit
    <3> QED
      BY <3>1, <3>2
  <2> QED
    BY <2>1, <2>2
<1>2. IInv /\ [Next]_vars => [\A t \in Posts : StaleCommit(t) \/ Frozen(t)]_vars
  BY <1>1
<1> QED
  BY <1>2, TradeInvariant, PTL DEF Spec, FrozenWhileTraded

-----------------------------------------------------------------------------
(* Trade implements TradeLifecycle.                                        *)

\* A post keeps its holder while it keeps its rows.
LEMMA HolderKept ==
  ASSUME NEW t, Current(t)' = Current(t),
         \A r \in Current(t) : progress'[r].buyer = progress[r].buyer
  PROVE  HolderOf(t)' = HolderOf(t)
<1>1. CASE Current(t) = {}
  BY <1>1 DEF HolderOf
<1>2. CASE Current(t) # {}
  <2>1. (CHOOSE r \in Current(t) : TRUE) \in Current(t)
    BY <1>2
  <2>2. HolderOf(t) = progress[CHOOSE r \in Current(t) : TRUE].buyer
    BY <1>2 DEF HolderOf
  <2>3. HolderOf(t)' = progress'[CHOOSE r \in Current(t) : TRUE].buyer
    BY <1>2, Zenon DEF HolderOf
  <2> QED
    BY <2>1, <2>2, <2>3
<1> QED
  BY <1>1, <1>2

LEMMA HolderGone ==
  ASSUME NEW t, Current(t)' = {}
  PROVE  HolderOf(t)' = None
  BY DEF HolderOf

LEMMA HolderTaken ==
  ASSUME NEW t, NEW p, Current(t)' = {p}
  PROVE  HolderOf(t)' = progress'[p].buyer
<1>1. (CHOOSE r \in {p} : TRUE) = p
  OBVIOUS
<1>2. HolderOf(t)' = progress'[CHOOSE r \in {p} : TRUE].buyer
  BY Zenon DEF HolderOf
<1> QED
  BY <1>1, <1>2

LEMMA LifecycleBecomes ==
  ASSUME NEW t \in SteadyPosts, NEW st, posts'[t].status = st,
         NEW b, HolderOf(t)' = b,
         \A u \in SteadyPosts : u # t =>
           /\ posts'[u].status = posts[u].status
           /\ HolderOf(u)' = HolderOf(u)
  PROVE  Lifecycle!Become(t, st, b)
  BY DEF Lifecycle!Become

LEMMA LifecycleStays ==
  ASSUME \A u \in SteadyPosts : /\ posts'[u].status = posts[u].status
                                /\ HolderOf(u)' = HolderOf(u)
  PROVE  UNCHANGED Lifecycle!vars
  BY DEF Lifecycle!vars

LEMMA LifecycleForgets ==
  ASSUME NEW t \in SteadyPosts, posts[t].status # "FOR_SALE",
         NEW st, st = posts[t].status, Lifecycle!Become(t, st, None)
  PROVE  Lifecycle!Forget(t)
  BY DEF Lifecycle!Forget

\* The commit of a trade leaves the other posts' trades alone.
LEMMA OtherPostsKept ==
  ASSUME DataInv, [Next]_vars, NEW p \in Ops, Commit(p),
         NEW u \in Posts, Post(p) # u
  PROVE  posts'[u].status = posts[u].status /\ HolderOf(u)' = HolderOf(u)
<1>1. ASSUME NEW q \in Ops, Commit(q) PROVE q = p
  BY <1>1 DEF Commit, Goto, DataInv, TypeOK
<1>2. /\ posts'[u] = posts[u]
      /\ Current(u)' \subseteq Current(u)
  BY <1>1, OnlyCommitWrites
<1>3. ASSUME NEW r \in Current(u) PROVE progress'[r] = progress[r]
  <2>1. r \in Ops /\ progress[r] # None /\ progress[r].post = u
    BY <1>3 DEF Current
  <2>2. r # p
    BY <2>1, CommitProgress
  <2>3. r # None
    BY <2>1, TradeAssumption
  <2>4. Kind(p) = "trade" => r # OldRow(p, snap[p])
    BY <2>1, <2>3, OldRowExists
  <2> QED
    BY <2>1, <2>2, <2>4, CommitProgress
<1>4. Current(u) \subseteq Current(u)'
  BY <1>3 DEF Current
<1>5. Current(u)' = Current(u)
  BY <1>2, <1>4
<1> QED
  BY <1>2, <1>3, <1>5, HolderKept

\* Each trade that commits is a step of the lifecycle of its post.
LEMMA TradeMaps ==
  ASSUME IInv, [Next]_vars, NEW p \in Ops, Commit(p), Kind(p) = "trade",
         NEW t, t = Post(p), Steady(t)
  PROVE  Lifecycle!Next
<1> DEFINE s == snap[p]
<1>1. /\ t \in SteadyPosts
      /\ s.row = posts[t]
      /\ s.row.status \in TradeStatus
      /\ s.row.status # "COMPLETED"
      /\ op[p].to \in TradeStatus
      /\ posts'[t].status = op[p].to
      /\ TradeAllowed(p, s)
  <2>1. /\ t \in SteadyPosts
        /\ s.row = posts[t]
        /\ s.row.status \in TradeStatus
        /\ Allowed(p, s)
    BY CommitPost DEF IInv, PostRow, SteadyPosts
  <2>2. op[p].to \in TradeStatus
    BY RequestTypes DEF IInv, DataInv, TypeOK
  <2>3. TradeAllowed(p, s)
    BY <2>1 DEF Allowed
  <2>4. s.row.status # "COMPLETED" /\ posts'[t].status = op[p].to
    BY TradeCommit DEF IInv
  <2> QED
    BY <2>1, <2>2, <2>3, <2>4
<1>2. ASSUME NEW st, st = op[p].to, NEW b, HolderOf(t)' = b
      PROVE  Lifecycle!Become(t, st, b)
  BY <1>1, <1>2, LifecycleBecomes, OtherPostsKept DEF IInv, SteadyPosts
<1>3. CASE Inserts(p, s)
  <2>1. /\ op[p].to # "FOR_SALE"
        /\ Current(t)' = {p}
        /\ progress'[p] = NewProgress(p)
        /\ NewProgress(p) \in Progress
    BY <1>3, TradeCommit DEF IInv
  <2>2. PICK b \in Users : HolderOf(t)' = b
    BY <2>1, HolderTaken DEF NewProgress, Progress
  <2>3. \A st : st = op[p].to => Lifecycle!Become(t, st, b)
    BY <1>2, <2>2
  <2>4. CASE s.row.status = "FOR_SALE"
    <3>1. op[p].to \in {"RESERVED", "COMPLETED"}
      BY <1>1, <2>1 DEF TradeStatus
    <3>2. Lifecycle!Sell(t)
      BY <1>1, <2>2, <2>3, <2>4, <3>1 DEF Lifecycle!Sell
    <3> QED
      BY <1>1, <3>2 DEF Lifecycle!Next
  <2>5. CASE s.row.status = "RESERVED" /\ op[p].to = "RESERVED"
    <3>1. Lifecycle!ChangeBuyer(t)
      BY <1>1, <2>2, <2>3, <2>5 DEF Lifecycle!ChangeBuyer
    <3> QED
      BY <1>1, <3>1 DEF Lifecycle!Next
  <2>6. CASE s.row.status = "RESERVED" /\ op[p].to = "COMPLETED"
    <3>1. Lifecycle!Complete(t)
      BY <1>1, <2>2, <2>3, <2>6 DEF Lifecycle!Complete
    <3> QED
      BY <1>1, <3>1 DEF Lifecycle!Next
  <2> QED
    BY <1>1, <2>1, <2>4, <2>5, <2>6 DEF TradeStatus
<1>4. CASE Completes(p, s)
  <2>1. HolderOf(t)' = HolderOf(t)
    BY <1>4, TradeCommit, HolderKept DEF IInv
  <2>2. s.row.status = "RESERVED" /\ op[p].to = "COMPLETED"
    BY <1>4 DEF Completes
  <2>3. PICK b : b = HolderOf(t) /\ Lifecycle!Become(t, "COMPLETED", b)
    BY <1>2, <2>1, <2>2
  <2>4. Lifecycle!Complete(t)
    BY <1>1, <2>2, <2>3 DEF Lifecycle!Complete
  <2> QED
    BY <1>1, <2>4 DEF Lifecycle!Next
<1>5. CASE ~Inserts(p, s) /\ ~Completes(p, s)
  <2>1. /\ s.row.status = "RESERVED"
        /\ op[p].to = "FOR_SALE"
        /\ HolderOf(t)' = None
    BY <1>5, TradeCommit, HolderGone DEF IInv
  <2>2. Lifecycle!Cancel(t)
    BY <1>1, <1>2, <2>1 DEF Lifecycle!Cancel
  <2> QED
    BY <1>1, <2>2 DEF Lifecycle!Next
<1> QED
  BY <1>3, <1>4, <1>5

\* The trade of an impatient seller's post is not seen.
LEMMA UnsteadyStutters ==
  ASSUME DataInv, [Next]_vars, NEW p \in Ops, Commit(p), ~Steady(Post(p))
  PROVE  UNCHANGED Lifecycle!vars
  BY OtherPostsKept, LifecycleStays DEF SteadyPosts

\* A commit of any other request is invisible.
LEMMA OtherCommitStutters ==
  ASSUME IInv, NEW p \in Ops, Commit(p), Kind(p) # "trade"
  PROVE  UNCHANGED Lifecycle!vars
<1>1. \A u \in Posts : /\ posts'[u].status = posts[u].status
                       /\ Current(u)' = Current(u)
                       /\ progress' = progress
  BY OtherCommit DEF IInv
<1>2. \A u \in Posts : HolderOf(u)' = HolderOf(u)
  BY <1>1, HolderKept
<1> QED
  BY <1>1, <1>2, LifecycleStays DEF SteadyPosts

\* A buyer who strikes the live row forgets the trade; striking a row that is
\* deleted already is invisible.
LEMMA StrikeMaps ==
  ASSUME IInv, NEW p \in Ops, StrikePurchase(p),
         NEW r, r = op[p].row, NEW t, t = progress[r].post
  PROVE  Lifecycle!Next \/ UNCHANGED Lifecycle!vars
<1>1. /\ r \in Ops
      /\ progress[r] # None
      /\ progress[r] \in Progress
      /\ posts' = posts
      /\ progress' = [progress EXCEPT ![r].live = FALSE]
  BY DEF StrikePurchase, Goto, IInv, DataInv, StrikeInv, TypeOK
<1>2. /\ t \in Posts
      /\ progress[r].status # "FOR_SALE"
      /\ ~progress'[r].live
      /\ \A q \in Ops : q # r => progress'[q] = progress[q]
  BY <1>1 DEF Progress, IInv, DataInv, TypeOK
<1>3. ASSUME NEW u \in Posts, r \notin Current(u)
      PROVE  HolderOf(u)' = HolderOf(u)
  <2>1. Current(u)' = Current(u)
    BY <1>1, <1>2, <1>3 DEF Current
  <2>2. \A q \in Current(u) : progress'[q] = progress[q]
    BY <1>2, <1>3 DEF Current
  <2> QED
    BY <2>1, <2>2, HolderKept
<1>4. CASE r \notin Current(t) \/ ~Steady(t)
  <2>1. \A u \in SteadyPosts : r \notin Current(u)
    BY <1>4 DEF Current, SteadyPosts
  <2> QED
    BY <1>1, <1>3, <2>1, LifecycleStays DEF SteadyPosts
<1>5. CASE r \in Current(t) /\ Steady(t)
  <2>1. /\ \A q \in Current(t) : q = r
        /\ posts[t].status # "FOR_SALE"
    BY <1>2, <1>5 DEF IInv, StatusMatchesProgress, SteadyPosts
  <2>2. Current(t)' = {}
    <3> SUFFICES ASSUME NEW q \in Ops, progress'[q] # None,
                        progress'[q].post = t, progress'[q].live
                 PROVE  FALSE
      BY DEF Current
    <3> QED
      BY <1>2, <2>1 DEF Current
  <2>3. HolderOf(t)' = None
    BY <2>2, HolderGone
  <2>4. \A u \in Posts : u # t => r \notin Current(u)
    BY DEF Current
  <2>5. PICK st : st = posts[t].status /\ Lifecycle!Become(t, st, None)
    BY <1>1, <1>2, <1>3, <1>5, <2>3, <2>4, LifecycleBecomes DEF SteadyPosts
  <2>6. t \in SteadyPosts
    BY <1>2, <1>5 DEF SteadyPosts
  <2>7. Lifecycle!Forget(t)
    BY <2>1, <2>5, <2>6, LifecycleForgets
  <2> QED
    BY <2>6, <2>7 DEF Lifecycle!Next
<1> QED
  BY <1>4, <1>5

LEMMA LifecycleInit == Init => Lifecycle!Init
<1> SUFFICES ASSUME Init PROVE Lifecycle!Init
  OBVIOUS
<1>1. \A t \in Posts : posts[t].status = "FOR_SALE" /\ HolderOf(t) = None
  BY DEF Init, HolderOf, Current
<1> QED
  BY <1>1 DEF Lifecycle!Init, SteadyPosts

\* Of the posts of patient sellers: every commit of a trade and every struck
\* purchase is one step of the lifecycle, and nothing else of what requests
\* do, of these sellers or of others, can be seen of it.
THEOREM Refinement == Spec => ImplementsLifecycle
<1>1. ASSUME IInv, [Next]_vars PROVE Lifecycle!Next \/ UNCHANGED Lifecycle!vars
  <2>1. ASSUME NEW p \in Ops, Commit(p)
        PROVE  Lifecycle!Next \/ UNCHANGED Lifecycle!vars
    BY <1>1, <2>1, TradeMaps, OtherCommitStutters, UnsteadyStutters DEF IInv
  <2>2. ASSUME NEW p \in Ops, StrikePurchase(p)
        PROVE  Lifecycle!Next \/ UNCHANGED Lifecycle!vars
    BY <1>1, <2>2, StrikeMaps
  <2>3. CASE UNCHANGED <<posts, progress>>
    <3>1. \A u \in Posts : Current(u)' = Current(u)
      BY <2>3 DEF Current
    <3> QED
      BY <2>3, <3>1, HolderKept, LifecycleStays DEF SteadyPosts
  <2> QED
    BY <1>1, <2>1, <2>2, <2>3 DEF Next, vars, Step, ReadSnapshot, Flush,
       Notify, FindPurchase, FindReviewedPost, ExistsByProductAndReviewer,
       InsertReview, Abort
<1>2. IInv /\ [Next]_vars => [Lifecycle!Next]_(Lifecycle!vars)
  BY <1>1
<1> QED
  BY <1>2, LifecycleInit, TradeInvariant, PTL
     DEF Spec, ImplementsLifecycle, Lifecycle!Spec
=============================================================================
