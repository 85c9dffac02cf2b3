------------------------------ MODULE MCMarket ------------------------------
(* Market for TLC: every two or three requests of one group, at any time.  *)
EXTENDS Market

CONSTANTS A, B, uni, word, books, won

\* 1 sells posts 1 and 2 and has bought 3 and 4 from 2; 2 and 3 like post 1
\* and talk about it.
Person(home, school, on) ==
  [primary |-> home, university |-> school, priceOn |-> on, devices |-> on,
   live |-> TRUE]

Sale(u, home, words, cost, state, s) ==
  [user |-> u, region |-> home, title |-> words, category |-> books,
   currency |-> won, price |-> cost, status |-> state, hidden |-> FALSE,
   at |-> s, live |-> TRUE, by |-> 0]

Image(p, first) == [post |-> p, thumb |-> first, live |-> TRUE, by |-> 0]
Heart(u, p) == [user |-> u, post |-> p, live |-> TRUE, stored |-> TRUE, by |-> 0]
Room(p, n, s) == [post |-> p, last |-> n, sentAt |-> s, by |-> 0]
Member(c, u) == NewParticipant(c, u)
Said(c, n, u, s) == [conv |-> c, number |-> n, sender |-> u, at |-> s, by |-> 0]
Notice(u, p, s) == [user |-> u, post |-> p, about |-> "LIKE", read |-> FALSE,
                    at |-> s, live |-> TRUE, by |-> 0]
Bought(p, c, s) == [post |-> p, buyer |-> 1, conv |-> c, status |-> "COMPLETED",
                    at |-> s, live |-> TRUE]

Start ==
  [users  |-> <<Person(A, uni, TRUE), Person(A, uni, TRUE), Person(A, None, TRUE),
                Person(None, None, FALSE)>>,
   posts  |-> <<Sale(1, A, {word}, 5, "FOR_SALE", 0), Sale(1, A, {}, 7, "FOR_SALE", 1),
                Sale(2, A, {word}, 9, "COMPLETED", 2), Sale(2, B, {word}, 3, "COMPLETED", 3)>>,
   images |-> <<Image(1, TRUE), Image(1, FALSE), Image(3, TRUE)>>,
   likes  |-> <<Heart(2, 1), Heart(3, 1), Heart(1, 3)>>,
   conversations |-> <<Room(1, 2, 1), Room(1, 0, None), Room(3, 1, 2)>>,
   participants  |-> <<Member(1, 2), Member(1, 1),
                       [Member(2, 3) EXCEPT !.muted = TRUE], Member(2, 1),
                       Member(3, 1), [Member(3, 2) EXCEPT !.blocking = TRUE]>>,
   messages |-> <<Said(1, 1, 2, 0), Said(1, 2, 1, 1), Said(3, 1, 1, 2)>>,
   notifications |-> <<Notice(1, 3, 0), Notice(1, 3, 1), Notice(1, 3, 2)>>,
   progress |-> <<Bought(3, 3, 1), Bought(4, 3, 2)>>,
   blocks |-> {<<3, 2>>}]

Pairs(L) == {<<L[p[1]], L[p[2]]>> : p \in {q \in (DOMAIN L) \X (DOMAIN L) : q[1] <= q[2]}}
Triples(L) == {<<L[t[1]], L[t[2]], L[t[3]]>> :
                 t \in {q \in (DOMAIN L) \X (DOMAIN L) \X (DOMAIN L) :
                          q[1] <= q[2] /\ q[2] <= q[3]}}
With(F, L) == {<<F[f]>> \o p : f \in DOMAIN F, p \in Pairs(L)}
WithOne(F, L) == {<<F[f], L[l]>> : f \in DOMAIN F, l \in DOMAIN L}

On(o, u, p)   == [op |-> o, user |-> u, post |-> p]
In(o, u, c)   == [op |-> o, user |-> u, conv |-> c]
Leave(u)      == [op |-> "withdraw", user |-> u]
Edit(p, cost, n) == [op |-> "edit", user |-> 1, post |-> p, price |-> cost, images |-> n]
Create(cost)  == [op |-> "create", user |-> 1, title |-> {word}, category |-> books,
                  currency |-> won, price |-> cost, images |-> 2]
Setting(u, v) == [op |-> "settings", user |-> u, on |-> v]

\* The posts and their images.
Editing ==
  Triples(<<Edit(1, 6, 2), Edit(1, None, 1), On("hide", 1, 1), On("delete", 1, 1),
            Leave(1), Create(6)>>)
    \cup WithOne(<<On("delete", 2, 1), On("unhide", 1, 1), [Create(1) EXCEPT !.user = 4]>>,
                 <<On("hide", 1, 1), Edit(1, 6, 0), On("detail", 2, 1)>>)
    \cup {<<On("detail", 2, 1), On("delete", 1, 1)>>}

\* Who hears of a new price.
Notifying ==
  With(<<Edit(1, 6, 0)>>,
       <<Setting(2, FALSE), Setting(3, FALSE), On("like", 4, 1), On("unlike", 2, 1),
         In("leave", 2, 1), Leave(3), Setting(4, TRUE)>>)
    \cup WithOne(<<[op |-> "deleteAllNotifications", user |-> 1],
                   [op |-> "deleteNotifications", user |-> 1, ids |-> {1, 2}],
                   [op |-> "getSettings", user |-> 2]>>,
                 <<[op |-> "readNotification", user |-> 1, id |-> 1],
                   [op |-> "readNotification", user |-> 2, id |-> 1], Setting(2, FALSE)>>)

Liking ==
  With(<<On("detail", 2, 1), On("like", 2, 2), On("like", 4, 1)>>,
       <<On("like", 2, 2), On("unlike", 2, 1), On("unlike", 2, 2), On("like", 2, 1),
         Leave(3), Leave(2)>>)

List(o, u)  == [op |-> o, user |-> u, size |-> 1]
Sales(f)    == List("mySales", 1) @@ [filter |-> f]
SalesOf(f)  == List("userSales", 3) @@ [seller |-> 2, filter |-> f]
Of(u)       == List("list", u) @@ [region |-> A]
Search(f)   == f @@ List("search", 3) @@
  [region |-> A, keyword |-> None, university |-> None, currency |-> None,
   minPrice |-> 0, maxPrice |-> 0, categories |-> {}, status |-> None, sort |-> "ASC"]
Rooms(p)    == List("conversations", 1) @@ [post |-> p]
Schools(u)  == List("universities", u) @@ [among |-> {uni}]

\* The lists, with what changes them.
Reading ==
  WithOne(<<Of(1), Of(3), Sales(None), Sales("HIDDEN"), SalesOf("COMPLETED"),
            Search([keyword |-> word, sort |-> "DESC"]), Search([maxPrice |-> 6]),
            List("myLikes", 2), Schools(3)>>,
          <<Create(6), Edit(1, 8, 1), On("hide", 1, 1), On("delete", 1, 2), Leave(1),
            On("like", 2, 2), On("unlike", 2, 1)>>)
    \cup WithOne(<<List("notifications", 1), List("purchases", 1), Rooms(None), Rooms(1),
                   Schools(4)>>,
                 <<[op |-> "deleteNotifications", user |-> 1, ids |-> {3}],
                   In("send", 2, 1), On("createConversation", 4, 2), In("leave", 1, 1),
                   Leave(3), On("delete", 2, 3), On("unlike", 1, 3)>>)
    \cup WithOne(<<[op |-> "categories", region |-> A],
                   [op |-> "priceRange", user |-> 3, keyword |-> word],
                   [op |-> "priceRange", user |-> 4, keyword |-> None],
                   On("tradeProgress", 2, 3), On("tradeProgress", 2, 1),
                   On("tradable", 2, 1)>>,
                 <<On("hide", 1, 1), Leave(1)>>)
    \cup {<<On("like", 2, 2), On("like", 2, 2), On("unlike", 2, 2), List("myLikes", 2)>>,
          <<In("leave", 1, 1), In("leave", 1, 1), In("send", 2, 1), Rooms(None)>>}

\* A conversation is looked for and created, left and found again.
Meeting ==
  Triples(<<On("createConversation", 4, 1), On("createConversation", 2, 1),
            On("hide", 1, 1), On("delete", 1, 1), In("permission", 2, 1),
            In("permission", 1, 1), Leave(1)>>)
    \cup WithOne(<<On("createConversation", 1, 1)>>,
                 <<On("hide", 1, 1), In("permission", 4, 1)>>)
    \cup With(<<On("tradable", 1, 1)>>,
              <<In("leave", 1, 1), In("send", 2, 1), Leave(3)>>)

Pages(u, c) == [op |-> "messages", user |-> u, conv |-> c, size |-> 1]
Enter(u, c) == [op |-> "enter", user |-> u, conv |-> c, size |-> 2]

\* Messages are read while others are sent.
Talking ==
  With(<<Enter(2, 1), Pages(2, 1), Enter(3, 2)>>,
       <<In("send", 1, 1), In("send", 1, 2), In("leave", 2, 1)>>)
    \cup WithOne(<<In("send", 1, 3), In("send", 2, 3)>>, <<Enter(2, 3), Enter(1, 3)>>)
    \cup WithOne(<<In("send", 2, 1), Enter(4, 1), Pages(4, 1), In("send", 4, 9), Pages(4, 9)>>,
                 <<Enter(1, 1), In("leave", 4, 1)>>)
    \cup {<<On("createConversation", 4, 2), Enter(4, 4), In("send", 1, 4)>>}

AllPlans ==
  Editing \cup Notifying \cup Liking \cup Reading \cup Meeting \cup Talking
=============================================================================
