------------------------------ MODULE MCTrade -------------------------------
(* Instances of Trade for TLC.                                             *)
EXTENDS Trade, TLC

CONSTANTS o1, o2, o3, o4, o5, o6, o7, sally, alice, bob, t1, t2, c1, c2, c3

Ask(k, u) == [kind |-> k, user |-> u, post |-> t1, to |-> "FOR_SALE",
              buyer |-> None, conv |-> None, price |-> 1, row |-> None]

TradeWith(s, b, c) ==
  [Ask("trade", sally) EXCEPT !.to = s, !.buyer = b, !.conv = c]

Cancel == Ask("trade", sally)
Edit   == [Ask("edit", sally) EXCEPT !.price = 2]
OfT2(r) == [r EXCEPT !.post = t2]
Forget(u, r) == [Ask("forget", u) EXCEPT !.row = r]

\* Sally sells t1, on which c1 and c2 are; c3 is about another post.
SellerOf == t1 :> sally @@ t2 :> alice
AboutPost == c1 :> t1 @@ c2 :> t1 @@ c3 :> t2
InChat == c1 :> {sally, alice} @@ c2 :> {sally, bob} @@ c3 :> {sally, alice}

\* Sally reserves, changes the buyer, cancels and completes in any order,
\* names a conversation of another post once, while the buyer deletes the
\* purchase and reviews it.
Sale ==
  o1 :> TradeWith("RESERVED", alice, c1) @@ o2 :> TradeWith("RESERVED", bob, c2)
    @@ o3 :> Cancel @@ o4 :> TradeWith("COMPLETED", bob, c2)
    @@ o5 :> TradeWith("RESERVED", alice, c3) @@ o6 :> Forget(alice, o1)
    @@ o7 :> Ask("review", alice)

\* Sally edits, hides, unhides and deletes around one reservation, which she
\* completes for whoever holds it.
Upkeep ==
  o1 :> TradeWith("RESERVED", alice, c1) @@ o2 :> Edit
    @@ o3 :> Ask("hide", sally) @@ o4 :> TradeWith("COMPLETED", None, None)
    @@ o5 :> Ask("unhide", sally) @@ o6 :> Ask("delete", sally)
    @@ o7 :> Ask("edit", bob)

\* Alice's devices reserve, complete, edit and hide her post at once, while
\* Sally, who buys it, deletes the purchase and reviews it.
TwoDevices ==
  o1 :> OfT2([TradeWith("RESERVED", sally, c3) EXCEPT !.user = alice])
    @@ o2 :> OfT2([TradeWith("COMPLETED", sally, c3) EXCEPT !.user = alice])
    @@ o3 :> OfT2([Edit EXCEPT !.user = alice])
    @@ o4 :> OfT2(Ask("hide", alice))
    @@ o5 :> OfT2(Forget(sally, o1)) @@ o6 :> OfT2(Ask("review", sally))
    @@ o7 :> OfT2(Ask("edit", sally))

ReserveAndComplete ==
  o1 :> TradeWith("RESERVED", alice, c1) @@ o2 :> TradeWith("COMPLETED", bob, c2)

\* Alice deletes the purchase that is only reserved for her.
ForgetReserved ==
  o1 :> TradeWith("RESERVED", alice, c1) @@ o2 :> Forget(alice, o1)

SellerPlans   == {Sale, Upkeep, TwoDevices}
CompletePlans == {ReserveAndComplete}
ForgetPlans   == {ForgetReserved}
=============================================================================
