------------------------------- MODULE Posts --------------------------------
(***************************************************************************)
(* Posts with their images and likes (ProductPostService): create, edit,   *)
(* hide, unhide, delete, like, unlike and the page of one post; and what   *)
(* withdrawUser does to them.  Trade has the trade status, Ownership the   *)
(* rest of withdrawUser.                                                   *)
(***************************************************************************)
EXTENDS Fanout

\* imageKeys: only how many there are; the first is the thumbnail.
CreateRequests ==
  [op: {"create"}, user: Nat, title: SUBSET Words, category: Categories,
   currency: Currencies, price: Nat, images: Nat]

\* The other fields go the way of the price; no images: imageKeys is absent.
EditRequests ==
  [op: {"edit"}, user: Nat, post: Nat, price: Nat \cup {None}, images: Nat]

HideRequests == [op: {"hide", "unhide"}, user: Nat, post: Nat]

LikeRequests == [op: {"like", "unlike"}, user: Nat, post: Nat]

DeleteRequests == [op: {"delete"}, user: Nat, post: Nat]

DetailRequests == [op: {"detail"}, user: Nat, post: Nat]

WithdrawRequests == [op: {"withdraw"}, user: Nat]

Post(r) == plan[r].post

-----------------------------------------------------------------------------
(* createProductPost: one transaction.                                     *)

\* Mutant: a user without a primary region may post.
ReadAuthor_AnyRegion(r) ==
  /\ Op(r) = "create"
  /\ IF FindById(db, User(r)) THEN Step(r, "idle", "create", db.users[User(r)].primary)
                              ELSE Refuse(r, "idle")
  /\ OnlyReads

ReadAuthor(r) ==
  /\ Op(r) = "create"
  /\ IF FindById(db, User(r)) /\ db.users[User(r)].primary # None
       THEN Step(r, "idle", "create", db.users[User(r)].primary)
       ELSE Refuse(r, "idle")
  /\ OnlyReads

NewImages(r, post, n) ==
  [i \in 1 .. n |-> [post |-> post, thumb |-> i = 1, live |-> TRUE, by |-> r]]

InsertPost(r) ==
  /\ pc[r] = "create"
  /\ db' = [db EXCEPT
       !.posts = Append(@, [user |-> User(r), region |-> got[r],
         title |-> plan[r].title, category |-> plan[r].category,
         currency |-> plan[r].currency, price |-> plan[r].price,
         status |-> "FOR_SALE", hidden |-> FALSE, at |-> now,
         live |-> TRUE, by |-> r]),
       !.images = @ \o NewImages(r, Len(db.posts) + 1, plan[r].images)]
  /\ Step(r, "create", "done", None)
  /\ OnlyTables

-----------------------------------------------------------------------------
(* updateProductPost: one transaction, with the notifications inside it.   *)

MayUpdate(r) == /\ FindPost(db, Post(r))
                /\ IsOwner(db, Post(r), User(r))
                /\ db.posts[Post(r)].status = "FOR_SALE"

\* What the flush writes: a column that differs from the snapshot.
PriceChanges(r) == plan[r].price \notin {None, got[r].price}

ReadPost(r) ==
  /\ Op(r) = "edit"
  /\ IF MayUpdate(r)
       THEN Step(r, "idle", "edit",
                 [price |-> db.posts[Post(r)].price,
                  hidden |-> db.posts[Post(r)].hidden,
                  interested |-> Interested(db, Post(r))])
       ELSE Refuse(r, "idle")
  /\ OnlyReads

\* From its UPDATEs to its commit a transaction keeps the rows it changed.
InTransaction(q) == pc[q] \in {"notify", "push", "commit"}
PostLocked(p) ==
  \E q \in Req : InTransaction(q) /\ Op(q) = "edit" /\ Post(q) = p
ImagesLocked(p) ==
  \E q \in Req : InTransaction(q) /\ Op(q) = "edit" /\ Post(q) = p /\ plan[q].images > 0

\* Mutant: the new images do not replace the old ones.
Imaged_Added(d, r) ==
  [d EXCEPT !.images = @ \o NewImages(r, Post(r), plan[r].images)]

\* softDeleteByProductId is an UPDATE of the latest rows, then the inserts.
Imaged(d, r) ==
  IF plan[r].images = 0 THEN d
  ELSE [d EXCEPT !.images = SoftDelete(@, FindImages(d, Post(r)))
                              \o NewImages(r, Post(r), plan[r].images)]

FlushEdit(r) ==
  /\ pc[r] = "edit"
  /\ plan[r].images > 0 => ~ImagesLocked(Post(r))
  /\ PriceChanges(r) => ~PostLocked(Post(r))
  /\ IF PriceChanges(r) /\ ~got[r].hidden
       THEN Step(r, "edit", "notify", got[r]) /\ NoWrite
       ELSE /\ Step(r, "edit", "done", [notified |-> FALSE])
            /\ db' = IF PriceChanges(r)
                 THEN Imaged([db EXCEPT !.posts[Post(r)].price = plan[r].price], r)
                 ELSE Imaged(db, r)
  /\ OnlyTables

CommitEdit(r) ==
  /\ pc[r] = "commit"
  /\ LET edited == Imaged([db EXCEPT !.posts[Post(r)].price = plan[r].price], r)
     IN db' = [edited EXCEPT
          !.notifications = @ \o Notified(r, got[r].targets, got[r].likers)]
  /\ Step(r, "commit", "done", [notified |-> TRUE])
  /\ OnlyTables

-----------------------------------------------------------------------------
(* hide, unhide and delete: a transaction that reads the post and writes   *)
(* one column of it.                                                       *)

Allows(r) ==
  LET post == db.posts[Post(r)]
  IN /\ FindPost(db, Post(r))
     /\ IsOwner(db, Post(r), User(r))
     /\ Op(r) = "hide" => post.status # "RESERVED" /\ ~post.hidden
     /\ Op(r) = "unhide" => post.hidden

ReadOwnPost(r) ==
  /\ Op(r) \in {"hide", "unhide", "delete"}
  /\ IF Allows(r) THEN Step(r, "idle", Op(r), None) ELSE Refuse(r, "idle")
  /\ OnlyReads

HideProductPost(r) ==
  /\ pc[r] \in {"hide", "unhide"}
  /\ ~PostLocked(Post(r))
  /\ Step(r, Op(r), "done", None)
  /\ db' = [db EXCEPT !.posts[Post(r)].hidden = (Op(r) = "hide")]
  /\ OnlyTables

DeleteProductPost(r) ==
  /\ pc[r] = "delete"
  /\ ~PostLocked(Post(r))
  /\ Step(r, "delete", "done", None)
  /\ db' = [db EXCEPT !.images = SoftDelete(@, FindImages(db, Post(r))),
                      !.posts  = SoftDelete(@, {Post(r)})]
  /\ OnlyTables

-----------------------------------------------------------------------------
(* Likes.                                                                  *)

\* A hidden post may be liked.
ReadLike(r) ==
  /\ Op(r) = "like"
  /\ IF FindPost(db, Post(r)) /\ FindLike(db, Post(r), User(r)) = {}
       THEN Step(r, "idle", "like", None) ELSE Refuse(r, "idle")
  /\ OnlyReads

InsertLike(r) ==
  /\ Step(r, "like", "done", None)
  /\ db' = [db EXCEPT !.likes = Append(@,
       [user |-> User(r), post |-> Post(r), live |-> TRUE, stored |-> TRUE,
        by |-> r])]
  /\ OnlyTables

\* Mutant: one row goes.
DeleteLike_First(r) ==
  /\ Op(r) = "unlike"
  /\ Step(r, "idle", "done", None)
  /\ LET mine == FindLike(db, Post(r), User(r))
     IN db' = [db EXCEPT !.likes =
          IF mine = {} THEN @ ELSE Write(@, {Min(mine)}, "stored", FALSE)]
  /\ OnlyTables

\* unlikeProductPost deletes the rows themselves, all that match.
DeleteLike(r) ==
  /\ Op(r) = "unlike"
  /\ Step(r, "idle", "done", None)
  /\ db' = [db EXCEPT !.likes =
       Write(@, FindLike(db, Post(r), User(r)), "stored", FALSE)]
  /\ OnlyTables

-----------------------------------------------------------------------------
(* findProductPostDetail: post, images, like count and own like, one await *)
(* each.                                                                   *)

NoDetail == [isOwner |-> FALSE, images |-> 0, likes |-> 0, liked |-> FALSE]

ReadDetail(r) ==
  /\ Op(r) = "detail"
  /\ IF FindPost(db, Post(r))
       THEN Step(r, "idle", "images",
                 [NoDetail EXCEPT !.isOwner = IsOwner(db, Post(r), User(r))])
       ELSE Refuse(r, "idle")
  /\ OnlyReads

ReadRest(r) ==
  /\ Op(r) = "detail"
  /\ \/ /\ pc[r] = "images"
        /\ Step(r, "images", "count",
                [got[r] EXCEPT !.images = Cardinality(FindImages(db, Post(r)))])
     \/ /\ pc[r] = "count"
        /\ Step(r, "count", "own",
                [got[r] EXCEPT !.likes = Cardinality(FindLikes(db, Post(r)))])
     \/ /\ pc[r] = "own"
        /\ Step(r, "own", "done",
                [got[r] EXCEPT !.liked = (FindLike(db, Post(r), User(r)) # {})])
  /\ OnlyReads

-----------------------------------------------------------------------------
(* withdrawUser.                                                           *)

ReadWithdrawing(r) ==
  /\ Op(r) = "withdraw"
  /\ IF User(r) \in UserIds
       THEN Step(r, "idle", "withdraw",
                 {p \in LiveRows(db.posts) : IsOwner(db, p, User(r))})
       ELSE Refuse(r, "idle")
  /\ OnlyReads

OwnedBy(table, u) == {i \in LiveRows(table) : table[i].user = u}

\* The images are those of the posts that were found; the other UPDATEs see
\* the latest rows.  The likes are only marked.
Withdraw(r) ==
  /\ pc[r] = "withdraw"
  /\ \A p \in OwnedBy(db.posts, User(r)) : ~PostLocked(p)
  /\ LET Swept(table) == SoftDelete(table, OwnedBy(table, User(r)))
     IN db' = [db EXCEPT
          !.images = SoftDelete(@, UNION {FindImages(db, p) : p \in got[r]}),
          !.posts = Swept(@), !.likes = Swept(@), !.participants = Swept(@),
          !.notifications = Swept(@),
          !.users[User(r)].live = FALSE, !.users[User(r)].devices = FALSE,
          !.users[User(r)].primary = None]
  /\ Step(r, "withdraw", "done", None)
  /\ OnlyTables

PostsNext(r) ==
  \/ ReadAuthor(r) \/ InsertPost(r)
  \/ ReadPost(r) \/ FlushEdit(r) \/ CommitEdit(r)
  \/ ReadOwnPost(r) \/ HideProductPost(r) \/ DeleteProductPost(r)
  \/ ReadLike(r) \/ InsertLike(r) \/ DeleteLike(r)
  \/ ReadDetail(r) \/ ReadRest(r)
  \/ ReadWithdrawing(r) \/ Withdraw(r)

-----------------------------------------------------------------------------

\* Whatever is edited, deleted and withdrawn at once, a live post shows one
\* thumbnail at most, and if it was ever given images it has one; an image
\* outlives its post, and a post its seller, only when the request that
\* stored it was in flight with the one that deleted the other.
ImagesFollowPost ==
  LET Outlived(q, ops) == q \in Req /\ MetAny(q, {x \in Req : Op(x) \in ops})
  IN \A p \in PostIds :
       /\ Cardinality(Thumbnails(db, p)) <= 1
       /\ FindPost(db, p) /\ FindImages(db, p) = {}
            => \A i \in DOMAIN db.images : db.images[i].post # p
       /\ ~FindPost(db, p) => \A i \in FindImages(db, p) :
            Outlived(db.images[i].by, {"delete", "withdraw"})
       /\ FindPost(db, p) /\ ~FindById(db, db.posts[p].user)
            => Outlived(db.posts[p].by, {"withdraw"})

\* A user likes a post once, unless two like requests met; and unliking takes
\* back every like that was there when the request came.
LikesUnique ==
  /\ \A p \in PostIds, u \in UserIds : \A i, j \in FindLike(db, p, u) :
       i # j => \E q, r \in Req : Op(q) = "like" /\ Op(r) = "like" /\ Met(q, r)
  /\ \A r \in Req : Op(r) = "unlike" /\ Done(r) =>
       \A i \in FindLike(db, Post(r), User(r)) : db.likes[i].by \in Req \ past[r]
=============================================================================
