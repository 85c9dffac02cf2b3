----------------------------- MODULE MCAccount ------------------------------
(* Account for TLC: two to four requests of one group, at any time.        *)
EXTENDS Account

CONSTANTS ann, bob, cid, dan, eve, A, B, C, D, t1, t2, phone, mia, uni

\* Four users; the first has three regions, an agreement, a device and two
\* blocks, the third has reported.
Person(p) == [person |-> p, nick |-> p, token |-> 0, email |-> None,
              live |-> TRUE, by |-> 0]
Region(i, x, first) ==
  [user |-> i, region |-> x, primary |-> first, live |-> TRUE, by |-> 0]
Block(i, j) == [user |-> i, blocked |-> j, live |-> TRUE, by |-> 0]

Start ==
  [users   |-> <<Person(ann), Person(bob), Person(cid), Person(dan)>>,
   regions |-> <<Region(1, A, TRUE), Region(1, B, FALSE), Region(1, C, FALSE)>>,
   agreements |-> <<[user |-> 1, terms |-> t1, live |-> TRUE, by |-> 0]>>,
   blocks  |-> <<Block(1, 2), Block(1, 3)>>,
   reports |-> <<[user |-> 3, target |-> 1, live |-> TRUE, by |-> 0]>>,
   devices |-> <<[user |-> 1, token |-> phone, live |-> TRUE, by |-> 0]>>]

Address == <<mia, uni>>

Pairs(L) == {<<L[p[1]], L[p[2]]>> : p \in {q \in (DOMAIN L) \X (DOMAIN L) : q[1] <= q[2]}}
Triples(L) == {<<L[t[1]], L[t[2]], L[t[3]]>> :
                 t \in {q \in (DOMAIN L) \X (DOMAIN L) \X (DOMAIN L) :
                          q[1] <= q[2] /\ q[2] <= q[3]}}

Leave(u) == [op |-> "withdraw", user |-> u]
SignIn1(o) == [op |-> "signIn", person |-> ann, oauth |-> o]
SignUp1(p, n) == [op |-> "signUp", person |-> p, oauth |-> p, nick |-> n]
Exchange(q) == [op |-> "refresh", user |-> 1, held |-> q]
Rename(u, n) == [op |-> "profile", user |-> u, nick |-> n]

Tokens == Triples(<<SignIn1(ann), Exchange(0), Leave(1), Exchange(1), Exchange(2)>>)
            \cup {<<SignUp1(ann, bob), Exchange(1), Exchange(1)>>,
                  <<Exchange(0), SignIn1(ann), Exchange(1), Exchange(1)>>}
Names == Triples(<<SignUp1(eve, eve), SignUp1(eve, bob), Rename(1, eve),
                   Rename(2, eve), Rename(1, bob), Leave(2)>>)
Queries == Pairs(<<SignIn1(bob), Rename(1, eve),
                   [op |-> "exists", person |-> eve, oauth |-> eve],
                   [op |-> "nicknameExists", nick |-> bob],
                   [op |-> "agreements", user |-> 1],
                   [op |-> "getProfile", user |-> 1]>>)

OnRegion(o, u, x) == [op |-> o, user |-> u, region |-> x]
Put(xs, x) == [op |-> "putRegions", user |-> 1, regions |-> xs, primary |-> x]

RegionPlans ==
  Triples(<<Put(<<B, D>>, D), Put(<<A, B, C, D>>, None),
            OnRegion("addRegion", 1, D), OnRegion("setPrimary", 1, B),
            OnRegion("setPrimary", 1, C), OnRegion("deleteRegion", 1, B),
            OnRegion("addRegion", 1, A), OnRegion("deleteRegion", 1, A), Leave(1)>>)
    \cup Pairs(<<Put(<<A, A>>, None), OnRegion("deleteRegion", 1, A)>>)
    \cup Triples(<<OnRegion("onboard", 2, A), OnRegion("addRegion", 2, A),
                   OnRegion("onboard", 2, B), Leave(2)>>)

Agree(u, ts) == [op |-> "agree", user |-> u, terms |-> ts]
Blocks(o, j) == [op |-> o, user |-> 1, blocked |-> j]
Report(i, why) == [op |-> "report", user |-> i, target |-> 4, reason |-> why]
Token(u) == [op |-> "device", user |-> u, token |-> phone]

Owned ==
  Triples(<<Agree(1, <<t2>>), Agree(1, <<t2, t1>>), Agree(2, <<t1, t2>>), Leave(1)>>)
    \cup Triples(<<Blocks("block", 4), Blocks("unblock", 4), Blocks("unblock", 2),
                   Report(1, "SEXUAL_HARASSMENT"), Leave(1), Leave(4)>>)
    \cup Pairs(<<Report(3, "OTHER"), Blocks("block", 1), Report(4, "OTHER"),
                 [op |-> "blockedList", user |-> 1, size |-> 1], Leave(3)>>)
    \cup {<<[op |-> "blockedList", user |-> 1, size |-> 1], x, y>> :
            x, y \in {Blocks("block", 4), Blocks("unblock", 2), Leave(3)}}
    \cup Triples(<<Token(1), Token(2), Token(3), Leave(1)>>)
    \cup {<<Token(1), Token(2), Token(3), Token(4)>>}

Mail(e) == [op |-> "sendCode", user |-> 1, email |-> e]
Verify(c) == [op |-> "verify", user |-> 1, code |-> c]

Codes == {<<Mail(Address), Mail(e), Verify(1), Verify(c)>> :
            c \in 0 .. 2, e \in {<<mia>>, <<ann, uni>>}}
           \cup {<<Mail(Address), Verify(1), Leave(1)>>}

EmailsUsed == {Address, <<ann, uni>>, <<mia>>}

PopupPlans == {<<p>> : p \in PopupRequests}

AllPlans ==
  Tokens \cup Names \cup Queries \cup RegionPlans \cup Owned \cup Codes \cup PopupPlans

VersionsUsed == {<<1>>, <<1, 0>>, <<1, 2>>, <<1, 10>>, <<0, 9, 9>>, <<1, 2, None>>,
                 <<2, None, 1>>}

Popup(p, t, v) == [platform |-> p, type |-> t, version |-> v, active |-> TRUE,
                   live |-> TRUE]
PopupsShown ==
  {Popup("IOS", "FORCE", <<1, 2>>), Popup("IOS", "RECOMMEND", <<1, 10>>),
   Popup("ANDROID", "FORCE", <<1>>), Popup("ANDROID", "FORCE", <<1, 2, None>>),
   Popup("ANDROID", "RECOMMEND", <<2, None, 1>>),
   [Popup("IOS", "FORCE", <<2, None, 1>>) EXCEPT !.active = FALSE]}
=============================================================================
