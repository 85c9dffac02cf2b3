---------------------------- MODULE AccountProofs ----------------------------
(***************************************************************************)
(* The safety of Account for any persons, requests, tables at the start    *)
(* and failures.                                                           *)
(***************************************************************************)
EXTENDS Account, RequestsProofs, FiniteSetTheorems

TokenOps == {"signUp", "signIn", "refresh"}

\* The steps a handler can be at, by its operation.
StageOps ==
  [create |-> {"signUp"}, sign |-> TokenOps, store |-> TokenOps,
   answer |-> TokenOps, nick |-> {"profile"}, profile |-> {"profile"},
   replace |-> {"putRegions"}, primary |-> {"setPrimary"},
   drop |-> {"deleteRegion"}, insert |-> {"onboard", "addRegion"},
   agreed |-> {"agree"}, agree |-> {"agree"}, block |-> {"block"},
   unblock |-> {"unblock"}, report |-> {"report"}, page |-> {"blockedList"},
   register |-> {"device"}, withdraw |-> {"withdraw"},
   set |-> {"sendCode"}, mail |-> {"sendCode"},
   user |-> {"verify"}, delete |-> {"verify"}, commit |-> {"verify"}]

StageInv ==
  \A r \in Req : /\ pc[r] \in DOMAIN StageOps \cup Ends \cup {"idle"}
                 /\ pc[r] \in DOMAIN StageOps => Op(r) \in StageOps[pc[r]]

-----------------------------------------------------------------------------

LEMMA RequestTypes ==
  ASSUME plan \in Plans, NEW r \in Req
  PROVE  /\ Op(r) = "signUp" =>
              plan[r].person \in Persons /\ plan[r].nick \in Nicknames
         /\ Op(r) = "profile" => plan[r].nick \in Nicknames
         /\ Op(r) = "device" => plan[r].token \in DeviceTokens
         /\ Op(r) = "sendCode" => plan[r].email \in Emails
         /\ Op(r) = "verify" => plan[r].code \in Nat
         /\ Op(r) = "agree" =>
              /\ plan[r].terms \in TermsLists
              /\ plan[r].terms \in Seq(Terms \cup {None})
         /\ Op(r) = "putRegions" =>
              plan[r].regions \in Seq(Regions \cup {None})
         /\ Op(r) = "blockedList" => plan[r].size \in Nat \ {0}
         /\ Op(r) = "popup" => plan[r].version \in Versions
<1>1. plan[r] \in AccountRequests
  BY AccountAssumption DEF Req
<1>2. TermsLists \subseteq Seq(Terms \cup {None})
  BY DEF TermsLists
<1>3. QED
  BY <1>1, <1>2 DEF Op, AccountRequests, RegistrationRequests, RefreshRequests,
       ProfileRequests, RegionRequests, PrimaryRequests, AgreementRequests,
       BlockRequests, ReportRequests, DeviceRequests, VerificationRequests,
       PopupRequests

LEMMA RequestNumbers ==
  ASSUME plan \in Plans
  PROVE  /\ Len(plan) \in Nat /\ Req = 1 .. Len(plan)
         /\ Req \subseteq Nat /\ 0 \notin Req
BY AccountAssumption DEF Req

-----------------------------------------------------------------------------
(* Every step of a handler is one of Requests, and stays on its path.      *)

\* The handler of r makes a step, to the end or on the path of its operation.
Advances(r) ==
  /\ Moves(r)
  /\ pc'[r] \in DOMAIN StageOps \cup Ends
  /\ pc'[r] \in DOMAIN StageOps => Op(r) \in StageOps[pc'[r]]

LEMMA StepAdvances ==
  ASSUME RequestInv, StageInv, NEW r \in Req, NEW from, NEW to, NEW v,
         Step(r, from, to, v),
         from \in DOMAIN StageOps \cup {"idle"},
         to \in DOMAIN StageOps \cup Ends,
         to \in DOMAIN StageOps =>
           \/ Op(r) \in StageOps[to]
           \/ from # "idle" /\ StageOps[from] \subseteq StageOps[to]
  PROVE  Advances(r)
<1>1. from \notin Ends /\ to # "idle"
  BY DEF Ends, StageOps
<1>2. Moves(r) /\ pc[r] = from /\ pc'[r] = to
  BY <1>1, StepMoves
<1>3. QED
  BY <1>2 DEF Advances, StageInv, Op

LEMMA HandleAdvances ==
  ASSUME RequestInv, StageInv, NEW r \in Req, Handle(r)
  PROVE  Advances(r)
<1>1. CASE SignUp(r)
  BY <1>1, StepAdvances
     DEF SignUp, FindPerson, Refuse, StageOps, Ends, TokenOps
<1>2. CASE CreateUser(r)
  BY <1>2, StepAdvances
     DEF CreateUser, Refuse, StageOps, Ends, TokenOps
<1>3. CASE SignIn(r)
  BY <1>3, StepAdvances
     DEF SignIn, FindPerson, Refuse, StageOps, Ends, TokenOps
<1>4. CASE CheckUserExists(r)
  BY <1>4, StepAdvances
     DEF CheckUserExists, FindPerson, Refuse, StageOps, Ends, TokenOps
<1>5. CASE Refresh(r)
  BY <1>5, StepAdvances
     DEF Refresh, Refuse, StageOps, Ends, TokenOps
<1>6. CASE SignTokens(r)
  BY <1>6, StepAdvances
     DEF SignTokens, Refuse, StageOps, Ends, TokenOps
<1>7. CASE StoreToken(r)
  BY <1>7, StepAdvances
     DEF StoreToken, Refuse, StageOps, Ends, TokenOps
<1>8. CASE Answer(r)
  BY <1>8, StepAdvances
     DEF Answer, Refuse, StageOps, Ends, TokenOps
<1>9. CASE CheckNicknameExists(r)
  BY <1>9, StepAdvances
     DEF CheckNicknameExists, Refuse, StageOps, Ends, TokenOps
<1>10. CASE FindProfile(r)
  BY <1>10, StepAdvances
     DEF FindProfile, Refuse, StageOps, Ends, TokenOps
<1>11. CASE FindNickname(r)
  BY <1>11, StepAdvances
     DEF FindNickname, Refuse, StageOps, Ends, TokenOps
<1>12. CASE SetNickname(r)
  BY <1>12, StepAdvances
     DEF SetNickname, Refuse, StageOps, Ends, TokenOps
<1>13. CASE ReadRegionList(r)
  BY <1>13, StepAdvances
     DEF ReadRegionList, Refuse, StageOps, Ends, TokenOps
<1>14. CASE ReplaceRegions(r)
  BY <1>14, StepAdvances
     DEF ReplaceRegions, Refuse, StageOps, Ends, TokenOps
<1>15. CASE ReadPrimary(r)
  BY <1>15, StepAdvances
     DEF ReadPrimary, Refuse, StageOps, Ends, TokenOps
<1>16. CASE MovePrimary(r)
  BY <1>16, StepAdvances
     DEF MovePrimary, Refuse, StageOps, Ends, TokenOps
<1>17. CASE ReadRegion(r)
  BY <1>17, StepAdvances
     DEF ReadRegion, Refuse, StageOps, Ends, TokenOps
<1>18. CASE DropRegion(r)
  BY <1>18, StepAdvances
     DEF DropRegion, Refuse, StageOps, Ends, TokenOps
<1>19. CASE ReadRegions(r)
  BY <1>19, StepAdvances
     DEF ReadRegions, Refuse, StageOps, Ends, TokenOps
<1>20. CASE InsertRegion(r)
  BY <1>20, StepAdvances
     DEF InsertRegion, Refuse, StageOps, Ends, TokenOps
<1>21. CASE ReadTerms(r)
  BY <1>21, StepAdvances
     DEF ReadTerms, Refuse, StageOps, Ends, TokenOps
<1>22. CASE FindAgreed(r)
  BY <1>22, StepAdvances
     DEF FindAgreed, Refuse, StageOps, Ends, TokenOps
<1>23. CASE InsertAgreements(r)
  BY <1>23, StepAdvances
     DEF InsertAgreements, Refuse, StageOps, Ends, TokenOps
<1>24. CASE GetUserAgreements(r)
  BY <1>24, StepAdvances
     DEF GetUserAgreements, Refuse, StageOps, Ends, TokenOps
<1>25. CASE GetUserProfile(r)
  BY <1>25, StepAdvances
     DEF GetUserProfile, Refuse, StageOps, Ends, TokenOps
<1>26. CASE ReadBlock(r)
  BY <1>26, StepAdvances
     DEF ReadBlock, Refuse, StageOps, Ends, TokenOps
<1>27. CASE InsertBlock(r)
  BY <1>27, StepAdvances
     DEF InsertBlock, Refuse, StageOps, Ends, TokenOps
<1>28. CASE DeleteBlock(r)
  BY <1>28, StepAdvances
     DEF DeleteBlock, Refuse, StageOps, Ends, TokenOps
<1>29. CASE ReadReport(r)
  BY <1>29, StepAdvances
     DEF ReadReport, Refuse, StageOps, Ends, TokenOps
<1>30. CASE InsertReport(r)
  BY <1>30, StepAdvances
     DEF InsertReport, Refuse, StageOps, Ends, TokenOps
<1>31. CASE GetBlockedUsers(r)
  BY <1>31, StepAdvances
     DEF GetBlockedUsers, BlockedPage, Refuse, StageOps, Ends, TokenOps
<1>32. CASE FindDevice(r)
  BY <1>32, StepAdvances
     DEF FindDevice, Refuse, StageOps, Ends, TokenOps
<1>33. CASE RegisterDevice(r)
  BY <1>33, StepAdvances
     DEF RegisterDevice, Refuse, StageOps, Ends, TokenOps
<1>34. CASE ReadWithdrawing(r)
  BY <1>34, StepAdvances
     DEF ReadWithdrawing, Refuse, StageOps, Ends, TokenOps
<1>35. CASE Withdraw(r)
  BY <1>35, StepAdvances
     DEF Withdraw, Refuse, StageOps, Ends, TokenOps
<1>36. CASE SendCode(r)
  BY <1>36, StepAdvances
     DEF SendCode, Refuse, StageOps, Ends, TokenOps
<1>37. CASE SetVerificationCode(r)
  BY <1>37, StepAdvances
     DEF SetVerificationCode, Refuse, StageOps, Ends, TokenOps
<1>38. CASE MailCode(r)
  BY <1>38, StepAdvances
     DEF MailCode, Refuse, StageOps, Ends, TokenOps
<1>39. CASE GetVerificationCode(r)
  BY <1>39, StepAdvances
     DEF GetVerificationCode, Refuse, StageOps, Ends, TokenOps
<1>40. CASE FindVerifying(r)
  BY <1>40, StepAdvances
     DEF FindVerifying, Refuse, StageOps, Ends, TokenOps
<1>41. CASE DeleteVerificationCode(r)
  BY <1>41, StepAdvances
     DEF DeleteVerificationCode, Refuse, StageOps, Ends, TokenOps
<1>42. CASE CommitVerified(r)
  BY <1>42, StepAdvances
     DEF CommitVerified, Refuse, StageOps, Ends, TokenOps
<1>43. CASE CheckUpdatePopup(r)
  BY <1>43, StepAdvances
     DEF CheckUpdatePopup, Refuse, StageOps, Ends, TokenOps
<1>44. QED
  BY <1>1, <1>2, <1>3, <1>4, <1>5, <1>6, <1>7, <1>8, <1>9, <1>10, <1>11,
     <1>12, <1>13, <1>14, <1>15, <1>16, <1>17, <1>18, <1>19, <1>20, <1>21,
     <1>22, <1>23, <1>24, <1>25, <1>26, <1>27, <1>28, <1>29, <1>30, <1>31,
     <1>32, <1>33, <1>34, <1>35, <1>36, <1>37, <1>38, <1>39, <1>40, <1>41,
     <1>42, <1>43
     DEF Handle, RegistrationNext, InterestRegionsNext, OwnershipNext,
         VerificationNext

-----------------------------------------------------------------------------
(* The tables keep their types.                                            *)

Session == [user: UserIds, token: 0 .. Horizon \cup {None},
            new: 0 .. Horizon \cup {None}]

Cached == [code: Req, email: Emails]

\* What a handler carries from one step to the next.
GotOk(r) ==
  /\ pc[r] \in {"sign", "store", "answer"} => got[r] \in Session
  /\ pc[r] = "store" => got[r].new # None
  /\ pc[r] = "replace" => ToSet(plan[r].regions) \subseteq Regions
  /\ pc[r] = "insert" => plan[r].region \in Regions /\ got[r] \in BOOLEAN
  /\ pc[r] \in {"agreed", "agree"} => ToSet(plan[r].terms) \subseteq Terms
  /\ pc[r] = "block" => plan[r].blocked \in UserIds
  /\ pc[r] = "report" => plan[r].target \in UserIds /\ got[r] \in BOOLEAN
  /\ pc[r] \in {"user", "delete", "commit"} => got[r] \in Cached

GotInv == \A r \in Req : GotOk(r)

StoreInv ==
  /\ plan \in Plans
  /\ db \in Tables(UserIds, Writers)
  /\ codes \in [DOMAIN codes -> Cached]
  /\ DOMAIN codes \subseteq UserIds
  /\ mails \subseteq [email: Emails, code: Req]
  /\ now \in 0 .. Horizon

LEMMA SeqGrows ==
  ASSUME NEW A, NEW B, A \subseteq B, NEW s \in Seq(A)
  PROVE  s \in Seq(B)
<1>1. Len(s) \in Nat /\ s = [i \in 1 .. Len(s) |-> s[i]]
  OBVIOUS
<1>2. \A i \in 1 .. Len(s) : s[i] \in B
  OBVIOUS
<1>3. QED
  BY <1>1, <1>2, FunctionIsSeq

LEMMA TablesGrow ==
  ASSUME NEW us, NEW vs, us \subseteq vs, NEW ws, NEW D \in Tables(us, ws)
  PROVE  D \in Tables(vs, ws)
<1>1. /\ InterestRegionRow(us, ws) \subseteq InterestRegionRow(vs, ws)
      /\ UserAgreementRow(us, ws) \subseteq UserAgreementRow(vs, ws)
      /\ UserBlockRow(us, ws) \subseteq UserBlockRow(vs, ws)
      /\ ReportRow(us, ws) \subseteq ReportRow(vs, ws)
      /\ DeviceRow(us, ws) \subseteq DeviceRow(vs, ws)
  BY DEF InterestRegionRow, UserAgreementRow, UserBlockRow, ReportRow, DeviceRow
<1>2. QED
  BY <1>1, SeqGrows DEF Tables

\* A deleted row is a row, of any table.
LEMMA DeletedRow ==
  ASSUME NEW us, NEW ws
  PROVE  /\ \A row \in UserRow(ws) : [row EXCEPT !["live"] = FALSE] \in UserRow(ws)
         /\ \A row \in InterestRegionRow(us, ws) :
              [row EXCEPT !["live"] = FALSE] \in InterestRegionRow(us, ws)
         /\ \A row \in UserAgreementRow(us, ws) :
              [row EXCEPT !["live"] = FALSE] \in UserAgreementRow(us, ws)
         /\ \A row \in UserBlockRow(us, ws) :
              [row EXCEPT !["live"] = FALSE] \in UserBlockRow(us, ws)
         /\ \A row \in ReportRow(us, ws) :
              [row EXCEPT !["live"] = FALSE] \in ReportRow(us, ws)
         /\ \A row \in DeviceRow(us, ws) :
              [row EXCEPT !["live"] = FALSE] \in DeviceRow(us, ws)
BY DEF UserRow, InterestRegionRow, UserAgreementRow, UserBlockRow, ReportRow,
       DeviceRow

LEMMA SoftDeleteType ==
  ASSUME NEW R, NEW table \in Seq(R), NEW S,
         \A row \in R : [row EXCEPT !["live"] = FALSE] \in R
  PROVE  /\ SoftDelete(table, S) \in Seq(R)
         /\ Len(SoftDelete(table, S)) = Len(table)
<1>1. /\ Len(table) \in Nat
      /\ \A i \in 1 .. Len(table) : table[i] \in R
  OBVIOUS
<1>2. SoftDelete(table, S)
        = [i \in 1 .. Len(table) |-> SoftDelete(table, S)[i]]
  BY <1>1 DEF SoftDelete, Write
<1>3. \A i \in 1 .. Len(table) : SoftDelete(table, S)[i] \in R
  BY <1>1 DEF SoftDelete, Write
<1>4. QED
  BY <1>1, <1>2, <1>3, FunctionIsSeq

LEMMA UserRowUpdates ==
  ASSUME NEW ws, NEW row \in UserRow(ws)
  PROVE  /\ \A v \in 0 .. Horizon \cup {None} :
              [row EXCEPT !["token"] = v] \in UserRow(ws)
         /\ \A v \in Nicknames : [row EXCEPT !["nick"] = v] \in UserRow(ws)
         /\ \A v \in Emails \cup {None} :
              [row EXCEPT !["email"] = v] \in UserRow(ws)
BY DEF UserRow

LEMMA UserWrites ==
  ASSUME NEW ws, NEW table \in Seq(UserRow(ws)), NEW S, NEW f, NEW v,
         \/ f = "token" /\ v \in 0 .. Horizon \cup {None}
         \/ f = "nick" /\ v \in Nicknames
         \/ f = "email" /\ v \in Emails \cup {None}
  PROVE  /\ Write(table, S, f, v) \in Seq(UserRow(ws))
         /\ Len(Write(table, S, f, v)) = Len(table)
<1>1. ASSUME NEW i \in DOMAIN table
      PROVE  [table[i] EXCEPT ![f] = v] \in UserRow(ws)
  <2>1. table[i] \in UserRow(ws)
    OBVIOUS
  <2>2. QED
    BY <2>1, UserRowUpdates
<1>2. QED
  BY <1>1, WriteType

LEMMA TableTypes ==
  ASSUME NEW us, NEW ws, NEW D \in Tables(us, ws)
  PROVE  /\ D.users \in Seq(UserRow(ws)) /\ Len(D.users) \in Nat
         /\ D.regions \in Seq(InterestRegionRow(us, ws))
         /\ D.agreements \in Seq(UserAgreementRow(us, ws))
         /\ D.blocks \in Seq(UserBlockRow(us, ws))
         /\ D.reports \in Seq(ReportRow(us, ws))
         /\ D.devices \in Seq(DeviceRow(us, ws))
BY DEF Tables

\* What the writes of the tables come to.
Typed == /\ db' \in Tables(UserIds, Writers)
         /\ Len(db.users) <= Len(db'.users)

LEMMA UsersTyped ==
  ASSUME StageInv, StoreInv, GotInv, NEW r \in Req,
         \/ CreateUser(r) \/ StoreToken(r) \/ SetNickname(r) \/ CommitVerified(r)
  PROVE  Typed
<1>1. db \in Tables(UserIds, Writers)
  BY DEF StoreInv
<1>2. db.users \in Seq(UserRow(Writers)) /\ Len(db.users) \in Nat
  BY <1>1, TableTypes
<1>3. ASSUME NEW rows \in Seq(UserRow(Writers)), Len(db.users) <= Len(rows),
             db' = [db EXCEPT !["users"] = rows]
      PROVE  Typed
  <2>1. db' \in Tables(UserIds, Writers) /\ db'.users = rows
    BY <1>1, <1>3 DEF Tables
  <2>2. QED
    BY <1>2, <1>3, <2>1 DEF Typed
<1>4. CASE CreateUser(r)
  <2>1. pc[r] = "create"
    BY <1>4 DEF CreateUser, Step
  <2>2. plan[r].person \in Persons /\ plan[r].nick \in Nicknames /\ r \in Writers
    BY <2>1, RequestTypes DEF StoreInv, StageInv, StageOps, Writers
  <2>3. PICK row : row = [person |-> plan[r].person, nick |-> plan[r].nick,
                          token |-> None, email |-> None, live |-> TRUE, by |-> r]
    OBVIOUS
  <2>4. row \in UserRow(Writers)
    BY <2>2, <2>3 DEF UserRow
  <2>5. /\ Append(db.users, row) \in Seq(UserRow(Writers))
        /\ Len(db.users) <= Len(Append(db.users, row))
    BY <1>2, <2>4
  <2>6. db' = [db EXCEPT !["users"] = Append(db.users, row)]
    BY <1>4, <2>3 DEF CreateUser, Store
  <2>7. QED
    BY <1>3, <2>5, <2>6
<1>5. CASE StoreToken(r)
  <2>1. got[r].new \in 0 .. Horizon \cup {None}
    BY <1>5 DEF StoreToken, Step, GotInv, GotOk, Session
  <2>2. PICK rows : rows = Write(db.users, {got[r].user}, "token", got[r].new)
    OBVIOUS
  <2>3. rows \in Seq(UserRow(Writers)) /\ Len(db.users) <= Len(rows)
    BY <1>2, <2>1, <2>2, UserWrites
  <2>4. db' = db \/ db' = [db EXCEPT !["users"] = rows]
    BY <1>5, <2>2 DEF StoreToken, Store, NoWrite
  <2>5. QED
    BY <1>1, <1>2, <1>3, <2>3, <2>4 DEF Typed
<1>6. CASE SetNickname(r)
  <2>1. pc[r] = "profile"
    BY <1>6 DEF SetNickname, Step
  <2>2. plan[r].nick \in Nicknames
    BY <2>1, RequestTypes DEF StoreInv, StageInv, StageOps
  <2>3. PICK rows : rows = Write(db.users, {User(r)}, "nick", plan[r].nick)
    OBVIOUS
  <2>4. rows \in Seq(UserRow(Writers)) /\ Len(db.users) <= Len(rows)
    BY <1>2, <2>2, <2>3, UserWrites
  <2>5. db' = [db EXCEPT !["users"] = rows]
    BY <1>6, <2>3 DEF SetNickname, Store
  <2>6. QED
    BY <1>2, <1>3, <2>4, <2>5
<1>7. CASE CommitVerified(r)
  <2>1. got[r].email \in Emails
    BY <1>7 DEF CommitVerified, Step, GotInv, GotOk, Cached
  <2>2. PICK rows : rows = Write(db.users, {User(r)}, "email", got[r].email)
    OBVIOUS
  <2>3. rows \in Seq(UserRow(Writers)) /\ Len(db.users) <= Len(rows)
    BY <1>2, <2>1, <2>2, UserWrites
  <2>4. db' = [db EXCEPT !["users"] = rows]
    BY <1>7, <2>2 DEF CommitVerified, Store
  <2>5. QED
    BY <1>2, <1>3, <2>3, <2>4
<1>8. QED
  BY <1>4, <1>5, <1>6, <1>7

LEMMA RegionsTyped ==
  ASSUME StageInv, StoreInv, GotInv, NEW r \in Req, User(r) \in UserIds,
         \/ ReplaceRegions(r) \/ MovePrimary(r) \/ DropRegion(r) \/ InsertRegion(r)
  PROVE  Typed
<1>1. db \in Tables(UserIds, Writers) /\ r \in Writers
  BY DEF StoreInv, Writers
<1>2. PICK Row : Row = InterestRegionRow(UserIds, Writers)
  OBVIOUS
<1>3. db.regions \in Seq(Row) /\ Len(db.users) \in Nat
  BY <1>1, <1>2, TableTypes
<1>4. ASSUME NEW rows \in Seq(Row), db' = [db EXCEPT !["regions"] = rows]
      PROVE  Typed
  <2>1. db' \in Tables(UserIds, Writers) /\ db'.users = db.users
    BY <1>1, <1>2, <1>4 DEF Tables
  <2>2. QED
    BY <1>3, <2>1 DEF Typed
<1>5. ASSUME NEW x \in Regions, NEW b \in BOOLEAN PROVE NewRegion(r, x, b) \in Row
  BY <1>1, <1>2 DEF NewRegion, InterestRegionRow
<1>6. ASSUME NEW S PROVE SoftDelete(db.regions, S) \in Seq(Row)
  BY <1>2, <1>3, DeletedRow, SoftDeleteType
<1>7. CASE ReplaceRegions(r)
  <2>1. pc[r] = "replace" /\ ToSet(plan[r].regions) \subseteq Regions
    BY <1>7 DEF ReplaceRegions, Step, GotInv, GotOk
  <2>2. plan[r].regions \in Seq(Regions \cup {None})
    BY <2>1, RequestTypes DEF StoreInv, StageInv, StageOps
  <2>3. PICK new : new = [i \in DOMAIN plan[r].regions |->
                            NewRegion(r, plan[r].regions[i],
                                      plan[r].regions[i] = plan[r].primary)]
    OBVIOUS
  <2>4. /\ Len(plan[r].regions) \in Nat
        /\ DOMAIN plan[r].regions = 1 .. Len(plan[r].regions)
        /\ \A i \in 1 .. Len(plan[r].regions) : plan[r].regions[i] \in Regions
    BY <2>1, <2>2 DEF ToSet
  <2>5. ASSUME NEW i \in 1 .. Len(plan[r].regions) PROVE new[i] \in Row
    <3>1. (plan[r].regions[i] = plan[r].primary) \in BOOLEAN
      OBVIOUS
    <3>2. plan[r].regions[i] \in Regions
      BY <2>4
    <3>3. new[i] = NewRegion(r, plan[r].regions[i],
                             plan[r].regions[i] = plan[r].primary)
      BY <2>3, <2>4
    <3>4. NewRegion(r, plan[r].regions[i],
                    plan[r].regions[i] = plan[r].primary) \in Row
      BY <1>1, <1>2, <3>1, <3>2 DEF NewRegion, InterestRegionRow
    <3>5. QED
      BY <3>3, <3>4
  <2>6. new \in Seq(Row)
    BY <2>3, <2>4, <2>5, FunctionIsSeq
  <2>7. db' = [db EXCEPT !["regions"] = SoftDelete(db.regions, got[r]) \o new]
    BY <1>7, <2>3 DEF ReplaceRegions, Store
  <2>8. SoftDelete(db.regions, got[r]) \o new \in Seq(Row)
    BY <1>6, <2>6
  <2>9. QED
    BY <1>4, <2>7, <2>8
<1>8. CASE MovePrimary(r)
  <2>1. ASSUME NEW table \in Seq(Row), NEW S, NEW b \in BOOLEAN
        PROVE  Write(table, S, "primary", b) \in Seq(Row)
    <3>1. /\ Len(table) \in Nat
          /\ \A i \in 1 .. Len(table) : table[i] \in Row
      OBVIOUS
    <3>2. \A row \in Row : [row EXCEPT !["primary"] = b] \in Row
      BY <1>2 DEF InterestRegionRow
    <3>3. PICK rows : rows = Write(table, S, "primary", b)
      OBVIOUS
    <3>4. /\ rows = [i \in 1 .. Len(table) |-> rows[i]]
          /\ \A i \in 1 .. Len(table) : rows[i] \in Row
      BY <3>1, <3>2, <3>3 DEF Write
    <3>5. QED
      BY <3>1, <3>3, <3>4, FunctionIsSeq
  <2>2. Write(db.regions, got[r].clear, "primary", FALSE) \in Seq(Row)
    BY <1>3, <2>1
  <2>3. Write(Write(db.regions, got[r].clear, "primary", FALSE),
              got[r].set, "primary", TRUE) \in Seq(Row)
    BY <2>1, <2>2
  <2>4. QED
    BY <1>4, <1>8, <2>3 DEF MovePrimary, Store
<1>9. CASE DropRegion(r)
  BY <1>4, <1>6, <1>9 DEF DropRegion, Store
<1>10. CASE InsertRegion(r)
  <2>1. NewRegion(r, plan[r].region, got[r]) \in Row
    BY <1>5, <1>10 DEF InsertRegion, Step, GotInv, GotOk
  <2>2. Append(db.regions, NewRegion(r, plan[r].region, got[r])) \in Seq(Row)
    BY <1>3, <2>1
  <2>3. QED
    BY <1>4, <1>10, <2>2 DEF InsertRegion, Store
<1>11. QED
  BY <1>7, <1>8, <1>9, <1>10

LEMMA OwnedTyped ==
  ASSUME StageInv, StoreInv, GotInv, NEW r \in Req, User(r) \in UserIds,
         \/ InsertAgreements(r) \/ InsertBlock(r) \/ DeleteBlock(r)
         \/ InsertReport(r) \/ RegisterDevice(r)
  PROVE  Typed
<1>1. /\ db \in Tables(UserIds, Writers) /\ r \in Writers
      /\ Len(db.users) \in Nat
  BY TableTypes DEF StoreInv, Writers
<1>2. CASE InsertAgreements(r)
  <2>1. PICK Row : Row = UserAgreementRow(UserIds, Writers)
    OBVIOUS
  <2>2. pc[r] = "agree" /\ ToSet(plan[r].terms) \subseteq Terms
    BY <1>2 DEF InsertAgreements, Step, GotInv, GotOk
  <2>3. plan[r].terms \in Seq(Terms \cup {None})
    BY <2>2, RequestTypes DEF StoreInv, StageInv, StageOps
  <2>4. PICK new : new = [i \in DOMAIN plan[r].terms |->
                            [user |-> User(r), terms |-> plan[r].terms[i],
                             live |-> TRUE, by |-> r]]
    OBVIOUS
  <2>5. /\ Len(plan[r].terms) \in Nat
        /\ DOMAIN plan[r].terms = 1 .. Len(plan[r].terms)
        /\ \A i \in 1 .. Len(plan[r].terms) : plan[r].terms[i] \in Terms
    BY <2>2, <2>3 DEF ToSet
  <2>6. \A i \in 1 .. Len(plan[r].terms) : new[i] \in Row
    BY <1>1, <2>1, <2>4, <2>5 DEF UserAgreementRow
  <2>7. new \in Seq(Row)
    BY <2>4, <2>5, <2>6, FunctionIsSeq
  <2>8. db.agreements \in Seq(Row)
    BY <1>1, <2>1, TableTypes
  <2>9. db.agreements \o new \in Seq(Row)
    BY <2>7, <2>8
  <2>10. db' = [db EXCEPT !["agreements"] = db.agreements \o new]
    BY <1>2, <2>4 DEF InsertAgreements, Store
  <2>11. db' \in Tables(UserIds, Writers) /\ db'.users = db.users
    BY <1>1, <2>1, <2>9, <2>10 DEF Tables
  <2>12. QED
    BY <1>1, <2>11 DEF Typed
<1>3. db.blocks \in Seq(UserBlockRow(UserIds, Writers))
  BY <1>1, TableTypes
<1>4. ASSUME NEW u \in UserIds PROVE NewBlock(r, u) \in UserBlockRow(UserIds, Writers)
  BY <1>1 DEF NewBlock, UserBlockRow
<1>5. CASE InsertBlock(r)
  <2>1. plan[r].blocked \in UserIds
    BY <1>5 DEF InsertBlock, Step, GotInv, GotOk
  <2>2. Append(db.blocks, NewBlock(r, plan[r].blocked))
          \in Seq(UserBlockRow(UserIds, Writers))
    BY <1>3, <1>4, <2>1
  <2>3. db' \in Tables(UserIds, Writers) /\ db'.users = db.users
    BY <1>1, <1>5, <2>2 DEF InsertBlock, Store, Tables
  <2>4. QED
    BY <1>1, <2>3 DEF Typed
<1>6. CASE DeleteBlock(r)
  <2>1. SoftDelete(db.blocks, got[r]) \in Seq(UserBlockRow(UserIds, Writers))
    BY <1>3, DeletedRow, SoftDeleteType
  <2>2. db' \in Tables(UserIds, Writers) /\ db'.users = db.users
    BY <1>1, <1>6, <2>1 DEF DeleteBlock, Store, Tables
  <2>3. QED
    BY <1>1, <2>2 DEF Typed
<1>7. CASE InsertReport(r)
  <2>1. plan[r].target \in UserIds /\ got[r] \in BOOLEAN
    BY <1>7 DEF InsertReport, Step, GotInv, GotOk
  <2>2. PICK report : report = [user |-> User(r), target |-> plan[r].target,
                                live |-> TRUE, by |-> r]
    OBVIOUS
  <2>3. report \in ReportRow(UserIds, Writers)
    BY <1>1, <2>1, <2>2 DEF ReportRow
  <2>4. Append(db.reports, report) \in Seq(ReportRow(UserIds, Writers))
    BY <1>1, <2>3, TableTypes
  <2>5. PICK blocks : blocks = IF got[r]
                                 THEN Append(db.blocks, NewBlock(r, plan[r].target))
                                 ELSE db.blocks
    OBVIOUS
  <2>6. blocks \in Seq(UserBlockRow(UserIds, Writers))
    BY <1>3, <1>4, <2>1, <2>5
  <2>7. db' = [db EXCEPT !["reports"] = Append(db.reports, report),
                         !["blocks"] = blocks]
    BY <1>1, <1>7, <2>2, <2>5 DEF InsertReport, Tables
  <2>8. db' \in Tables(UserIds, Writers) /\ db'.users = db.users
    BY <1>1, <2>4, <2>6, <2>7 DEF Tables
  <2>9. QED
    BY <1>1, <2>8 DEF Typed
<1>8. CASE RegisterDevice(r)
  <2>1. pc[r] = "register"
    BY <1>8 DEF RegisterDevice, Step
  <2>2. plan[r].token \in DeviceTokens
    BY <2>1, RequestTypes DEF StoreInv, StageInv, StageOps
  <2>3. PICK device : device = [user |-> User(r), token |-> plan[r].token,
                                live |-> TRUE, by |-> r]
    OBVIOUS
  <2>4. device \in DeviceRow(UserIds, Writers)
    BY <1>1, <2>2, <2>3 DEF DeviceRow
  <2>5. SoftDelete(db.devices, got[r]) \in Seq(DeviceRow(UserIds, Writers))
    BY <1>1, TableTypes, DeletedRow, SoftDeleteType
  <2>6. Append(SoftDelete(db.devices, got[r]), device)
          \in Seq(DeviceRow(UserIds, Writers))
    BY <2>4, <2>5
  <2>7. db' = [db EXCEPT !["devices"] =
                 Append(SoftDelete(db.devices, got[r]), device)]
    BY <1>8, <2>3 DEF RegisterDevice, Store
  <2>8. db' \in Tables(UserIds, Writers) /\ db'.users = db.users
    BY <1>1, <2>6, <2>7 DEF Tables
  <2>9. QED
    BY <1>1, <2>8 DEF Typed
<1>9. QED
  BY <1>2, <1>5, <1>6, <1>7, <1>8

\* withdrawUser deletes rows of every table and changes no other field but
\* the user's token.
LEMMA WithdrawWrites ==
  ASSUME StoreInv, NEW r \in Req, Withdraw(r)
  PROVE  /\ DOMAIN db' = DOMAIN db /\ db' = [t \in DOMAIN db |-> db'[t]]
         /\ db'.users = SoftDelete(Write(db.users, {User(r)}, "token", None),
                                   {User(r)})
         /\ \A t \in SweptTables :
              db'[t] = SoftDelete(db[t], OwnedBy(db[t], User(r)))
<1>1. DOMAIN db = SweptTables \cup {"users"} /\ "users" \notin SweptTables
  BY DEF StoreInv, Tables, SweptTables
<1>2. PICK swept : swept = Swept(db, User(r))
  OBVIOUS
<1>3. /\ DOMAIN swept = DOMAIN db
      /\ swept.users = db.users
      /\ \A t \in SweptTables :
           swept[t] = SoftDelete(db[t], OwnedBy(db[t], User(r)))
  BY <1>1, <1>2 DEF Swept
<1>4. db' = [swept EXCEPT !["users"] =
               SoftDelete(Write(swept.users, {User(r)}, "token", None), {User(r)})]
  BY <1>2 DEF Withdraw
<1>5. QED
  BY <1>1, <1>3, <1>4

LEMMA WithdrawTyped ==
  ASSUME StoreInv, NEW r \in Req, Withdraw(r)
  PROVE  Typed
<1>1. db \in Tables(UserIds, Writers) /\ Len(db.users) \in Nat
  BY TableTypes DEF StoreInv
<1>2. /\ SoftDelete(db.regions, OwnedBy(db.regions, User(r)))
           \in Seq(InterestRegionRow(UserIds, Writers))
      /\ SoftDelete(db.agreements, OwnedBy(db.agreements, User(r)))
           \in Seq(UserAgreementRow(UserIds, Writers))
      /\ SoftDelete(db.blocks, OwnedBy(db.blocks, User(r)))
           \in Seq(UserBlockRow(UserIds, Writers))
      /\ SoftDelete(db.reports, OwnedBy(db.reports, User(r)))
           \in Seq(ReportRow(UserIds, Writers))
      /\ SoftDelete(db.devices, OwnedBy(db.devices, User(r)))
           \in Seq(DeviceRow(UserIds, Writers))
  BY <1>1, TableTypes, DeletedRow, SoftDeleteType
<1>3. PICK users : users = Write(db.users, {User(r)}, "token", None)
  OBVIOUS
<1>4. users \in Seq(UserRow(Writers)) /\ Len(users) = Len(db.users)
  BY <1>1, <1>3, TableTypes, UserWrites
<1>5. /\ SoftDelete(users, {User(r)}) \in Seq(UserRow(Writers))
      /\ Len(SoftDelete(users, {User(r)})) = Len(db.users)
  <2>1. \A row \in UserRow(Writers) :
          [row EXCEPT !["live"] = FALSE] \in UserRow(Writers)
    BY DEF UserRow
  <2>2. QED
    BY <1>4, <2>1, SoftDeleteType
<1>6. /\ DOMAIN db' = DOMAIN db /\ db' = [t \in DOMAIN db |-> db'[t]]
      /\ db'.users = SoftDelete(users, {User(r)})
      /\ \A t \in SweptTables :
           db'[t] = SoftDelete(db[t], OwnedBy(db[t], User(r)))
  BY <1>3, WithdrawWrites
<1>7. db' \in Tables(UserIds, Writers)
  BY <1>1, <1>2, <1>5, <1>6 DEF Tables, SweptTables
<1>8. QED
  BY <1>1, <1>5, <1>6, <1>7 DEF Typed

-----------------------------------------------------------------------------
(* Which tables and keys a step writes.                                    *)

UsersWrite(r) ==
  CreateUser(r) \/ StoreToken(r) \/ SetNickname(r) \/ CommitVerified(r)

RegionsWrite(r) ==
  ReplaceRegions(r) \/ MovePrimary(r) \/ DropRegion(r) \/ InsertRegion(r)

OwnedWrite(r) ==
  \/ InsertAgreements(r) \/ InsertBlock(r) \/ DeleteBlock(r)
  \/ InsertReport(r) \/ RegisterDevice(r)

RedisWrite(r) ==
  SetVerificationCode(r) \/ MailCode(r) \/ DeleteVerificationCode(r)

LEMMA HandleWrites ==
  ASSUME NEW r \in Req, Handle(r)
  PROVE  /\ \/ UsersWrite(r) \/ RegionsWrite(r) \/ OwnedWrite(r) \/ Withdraw(r)
            \/ UNCHANGED db
         /\ RedisWrite(r) \/ UNCHANGED <<codes, mails>>
         /\ now' = now
<1>1. CASE SignUp(r)
  BY <1>1 DEF SignUp, FindPerson, NoWrite, NoRedis
<1>2. CASE CreateUser(r)
  BY <1>2 DEF CreateUser, UsersWrite, NoRedis
<1>3. CASE SignIn(r)
  BY <1>3 DEF SignIn, FindPerson, NoWrite, NoRedis
<1>4. CASE CheckUserExists(r)
  BY <1>4 DEF CheckUserExists, FindPerson, NoWrite, NoRedis
<1>5. CASE Refresh(r)
  BY <1>5 DEF Refresh, NoWrite, NoRedis
<1>6. CASE SignTokens(r)
  BY <1>6 DEF SignTokens, NoWrite, NoRedis
<1>7. CASE StoreToken(r)
  BY <1>7 DEF StoreToken, UsersWrite, NoRedis, NoWrite
<1>8. CASE Answer(r)
  BY <1>8 DEF Answer, NoWrite, NoRedis
<1>9. CASE CheckNicknameExists(r)
  BY <1>9 DEF CheckNicknameExists, NoWrite, NoRedis
<1>10. CASE FindProfile(r)
  BY <1>10 DEF FindProfile, NoWrite, NoRedis
<1>11. CASE FindNickname(r)
  BY <1>11 DEF FindNickname, NoWrite, NoRedis
<1>12. CASE SetNickname(r)
  BY <1>12 DEF SetNickname, UsersWrite, NoRedis
<1>13. CASE ReadRegionList(r)
  BY <1>13 DEF ReadRegionList, OnlyRegions, NoWrite, NoRedis
<1>14. CASE ReplaceRegions(r)
  BY <1>14 DEF ReplaceRegions, OnlyRegions, RegionsWrite, NoRedis
<1>15. CASE ReadPrimary(r)
  BY <1>15 DEF ReadPrimary, OnlyRegions, NoWrite, NoRedis
<1>16. CASE MovePrimary(r)
  BY <1>16 DEF MovePrimary, OnlyRegions, RegionsWrite, NoRedis
<1>17. CASE ReadRegion(r)
  BY <1>17 DEF ReadRegion, OnlyRegions, NoWrite, NoRedis
<1>18. CASE DropRegion(r)
  BY <1>18 DEF DropRegion, OnlyRegions, RegionsWrite, NoRedis
<1>19. CASE ReadRegions(r)
  BY <1>19 DEF ReadRegions, OnlyRegions, NoWrite, NoRedis
<1>20. CASE InsertRegion(r)
  BY <1>20 DEF InsertRegion, OnlyRegions, RegionsWrite, NoRedis
<1>21. CASE ReadTerms(r)
  BY <1>21 DEF ReadTerms, OnlyOwned, NoWrite, NoRedis
<1>22. CASE FindAgreed(r)
  BY <1>22 DEF FindAgreed, OnlyOwned, NoWrite, NoRedis
<1>23. CASE InsertAgreements(r)
  BY <1>23 DEF InsertAgreements, OnlyOwned, OwnedWrite, NoRedis
<1>24. CASE GetUserAgreements(r)
  BY <1>24 DEF GetUserAgreements, OnlyOwned, NoWrite, NoRedis
<1>25. CASE GetUserProfile(r)
  BY <1>25 DEF GetUserProfile, OnlyOwned, NoWrite, NoRedis
<1>26. CASE ReadBlock(r)
  BY <1>26 DEF ReadBlock, OnlyOwned, NoWrite, NoRedis
<1>27. CASE InsertBlock(r)
  BY <1>27 DEF InsertBlock, OnlyOwned, OwnedWrite, NoRedis
<1>28. CASE DeleteBlock(r)
  BY <1>28 DEF DeleteBlock, OnlyOwned, OwnedWrite, NoRedis
<1>29. CASE ReadReport(r)
  BY <1>29 DEF ReadReport, OnlyOwned, NoWrite, NoRedis
<1>30. CASE InsertReport(r)
  BY <1>30 DEF InsertReport, OnlyOwned, OwnedWrite, NoRedis
<1>31. CASE GetBlockedUsers(r)
  BY <1>31 DEF GetBlockedUsers, OnlyOwned, NoWrite, NoRedis
<1>32. CASE FindDevice(r)
  BY <1>32 DEF FindDevice, OnlyOwned, NoWrite, NoRedis
<1>33. CASE RegisterDevice(r)
  BY <1>33 DEF RegisterDevice, OnlyOwned, OwnedWrite, NoRedis
<1>34. CASE ReadWithdrawing(r)
  BY <1>34 DEF ReadWithdrawing, OnlyOwned, NoWrite, NoRedis
<1>35. CASE Withdraw(r)
  BY <1>35 DEF Withdraw, OnlyOwned, NoRedis
<1>36. CASE SendCode(r)
  BY <1>36 DEF SendCode, NoWrite, NoRedis
<1>37. CASE SetVerificationCode(r)
  BY <1>37 DEF SetVerificationCode, NoWrite, RedisWrite
<1>38. CASE MailCode(r)
  BY <1>38 DEF MailCode, NoWrite, RedisWrite
<1>39. CASE GetVerificationCode(r)
  BY <1>39 DEF GetVerificationCode, NoWrite, NoRedis
<1>40. CASE FindVerifying(r)
  BY <1>40 DEF FindVerifying, NoWrite, NoRedis
<1>41. CASE DeleteVerificationCode(r)
  BY <1>41 DEF DeleteVerificationCode, NoWrite, RedisWrite
<1>42. CASE CommitVerified(r)
  BY <1>42 DEF CommitVerified, UsersWrite, NoRedis
<1>43. CASE CheckUpdatePopup(r)
  BY <1>43 DEF CheckUpdatePopup, NoWrite, NoRedis
<1>44. QED
  BY <1>1, <1>2, <1>3, <1>4, <1>5, <1>6, <1>7, <1>8, <1>9, <1>10, <1>11,
     <1>12, <1>13, <1>14, <1>15, <1>16, <1>17, <1>18, <1>19, <1>20, <1>21,
     <1>22, <1>23, <1>24, <1>25, <1>26, <1>27, <1>28, <1>29, <1>30, <1>31,
     <1>32, <1>33, <1>34, <1>35, <1>36, <1>37, <1>38, <1>39, <1>40, <1>41,
     <1>42, <1>43
     DEF Handle, RegistrationNext, InterestRegionsNext, OwnershipNext,
         VerificationNext

LEMMA HandleTyped ==
  ASSUME RequestInv, StageInv, StoreInv, GotInv, NEW r \in Req, Handle(r)
  PROVE  Typed
<1>1. ASSUME RegionsWrite(r) \/ OwnedWrite(r) PROVE User(r) \in UserIds
  <2>1. pc[r] \in {"replace", "primary", "drop", "insert", "agree", "block",
                   "unblock", "report", "register"}
    BY <1>1 DEF RegionsWrite, OwnedWrite, ReplaceRegions, MovePrimary, DropRegion,
         InsertRegion, InsertAgreements, InsertBlock, DeleteBlock, InsertReport,
         RegisterDevice, Step
  <2>2. /\ pc[r] \in DOMAIN StageOps
        /\ StageOps[pc[r]]
             \subseteq {"putRegions", "setPrimary", "deleteRegion", "onboard",
                        "addRegion", "agree", "block", "unblock", "report", "device"}
    BY <2>1 DEF StageOps
  <2>3. Op(r) \in {"putRegions", "setPrimary", "deleteRegion", "onboard",
                  "addRegion", "agree", "block", "unblock", "report", "device"}
    BY <2>2 DEF StageInv
  <2>4. QED
    BY <2>3 DEF Handle, Acts
<1>2. CASE UNCHANGED db
  BY <1>2, TableTypes DEF StoreInv, Typed
<1>3. QED
  BY <1>1, <1>2, HandleWrites, UsersTyped, RegionsTyped, OwnedTyped,
     WithdrawTyped DEF UsersWrite, RegionsWrite, OwnedWrite

-----------------------------------------------------------------------------
(* What the handlers carry keeps its type.                                 *)

\* The steps at which a handler carries nothing with a type.
Carefree == Ends \cup {"create", "nick", "profile", "primary", "drop", "unblock",
                      "page", "register", "withdraw", "set", "mail"}

LEMMA CarefreeOk ==
  ASSUME NEW r \in Req, pc'[r] \in Carefree
  PROVE  GotOk(r)'
BY DEF GotOk, Carefree, Ends

LEMMA StepGoes ==
  ASSUME RequestInv, NEW r \in Req, NEW from, NEW to, NEW v, Step(r, from, to, v)
  PROVE  pc[r] = from /\ pc'[r] = to /\ got'[r] = v /\ plan' = plan
BY DEF RequestInv, Step

LEMMA SeqIsOnto ==
  ASSUME NEW R, NEW ids \in Seq(R)
  PROVE  Len(ids) \in Nat /\ ids \in Surjection(1 .. Len(ids), ToSet(ids))
<1>1. /\ Len(ids) \in Nat /\ DOMAIN ids = 1 .. Len(ids)
      /\ ids = [i \in 1 .. Len(ids) |-> ids[i]]
  OBVIOUS
<1>2. \A i \in 1 .. Len(ids) : ids[i] \in ToSet(ids)
  BY <1>1 DEF ToSet
<1>3. \A x \in ToSet(ids) : \E i \in 1 .. Len(ids) : ids[i] = x
  BY <1>1 DEF ToSet
<1>4. QED
  BY <1>1, <1>2, <1>3 DEF Surjection

\* A list that has as many members that exist as it is long has no others, and
\* each of them once.
LEMMA ListedExist ==
  ASSUME NEW R, NEW ids \in Seq(R), NEW K,
         Cardinality(ToSet(ids) \cap K) = Len(ids)
  PROVE  /\ ToSet(ids) \subseteq K
         /\ \A i, j \in DOMAIN ids : ids[i] = ids[j] => i = j
<1>1. Len(ids) \in Nat /\ ids \in Surjection(1 .. Len(ids), ToSet(ids))
  BY SeqIsOnto
<1>2. PICK n \in Nat : n = Len(ids)
  BY <1>1
<1>3. IsFiniteSet(1 .. n) /\ Cardinality(1 .. n) = n
  <2>1. 1 \in Int /\ n \in Int
    OBVIOUS
  <2>2. /\ IsFiniteSet(1 .. n)
        /\ Cardinality(1 .. n) = IF 1 > n THEN 0 ELSE n - 1 + 1
    BY <2>1, FS_Interval
  <2>3. QED
    BY <2>2
<1>4. IsFiniteSet(ToSet(ids)) /\ Cardinality(ToSet(ids)) <= n
  BY <1>1, <1>2, <1>3, FS_Surjection
<1>5. ToSet(ids) \cap K \in SUBSET ToSet(ids)
  OBVIOUS
<1>6. /\ Cardinality(ToSet(ids) \cap K) <= Cardinality(ToSet(ids))
      /\ Cardinality(ToSet(ids)) = Cardinality(ToSet(ids) \cap K)
           => ToSet(ids) = ToSet(ids) \cap K
  BY <1>4, <1>5, FS_Subset
<1>7. Cardinality(ToSet(ids)) \in Nat
  BY <1>4, FS_CardinalityType
<1>8. ToSet(ids) \subseteq K /\ Cardinality(ToSet(ids)) = n
  BY <1>2, <1>4, <1>6, <1>7
<1>9. ids \in Injection(1 .. n, ToSet(ids))
  BY <1>1, <1>2, <1>3, <1>8, FS_Surjection
<1>10. DOMAIN ids = 1 .. n
  BY <1>2
<1>11. QED
  BY <1>8, <1>9, <1>10 DEF Injection, IsInjective

LEMMA LoadedTyped ==
  ASSUME StoreInv, NEW u \in UserIds
  PROVE  Loaded(u) \in Session /\ Loaded(u).new = None
<1>1. db.users[u] \in UserRow(Writers)
  BY TableTypes DEF StoreInv, UserIds
<1>2. QED
  BY <1>1 DEF Loaded, Session, UserRow

LEMMA FoundUsers ==
  ASSUME NEW person
  PROVE  FindByProviderId(db, person) \subseteq UserIds
BY DEF FindByProviderId, LiveRows, UserIds

LEMMA HandleGot ==
  ASSUME RequestInv, StageInv, StoreInv, GotInv, NEW r \in Req, Handle(r),
         UserIds \subseteq UserIds', Req' = Req
  PROVE  GotOk(r)'
<1>a. Session \subseteq Session'
  BY DEF Session
<1>1. CASE SignUp(r)
  <2>1. \/ pc'[r] \in Carefree
        \/ pc'[r] = "sign" /\ (\E u \in UserIds : got'[r] = Loaded(u))
    BY <1>1, StepGoes, FoundUsers DEF SignUp, FindPerson, AnyOf, Refuse, Carefree, Ends
  <2>2. QED
    BY <2>1, CarefreeOk, LoadedTyped, <1>a DEF GotOk
<1>2. CASE CreateUser(r)
  <2>1. /\ pc'[r] = "sign"
        /\ got'[r] = [user |-> Len(db.users) + 1, token |-> None, new |-> None]
    BY <1>2, StepGoes DEF CreateUser
  <2>2. Len(db.users) + 1 \in UserIds'
    <3>1. PICK row : db' = [db EXCEPT !["users"] = Append(db.users, row)]
      BY <1>2 DEF CreateUser, Store
    <3>2. "users" \in DOMAIN db /\ db.users \in Seq(UserRow(Writers))
      BY DEF StoreInv, Tables
    <3>3. db'.users = Append(db.users, row)
      BY <3>1, <3>2
    <3>4. DOMAIN Append(db.users, row) = 1 .. Len(db.users) + 1
          /\ Len(db.users) \in Nat
      BY <3>2
    <3>5. QED
      BY <3>3, <3>4 DEF UserIds
  <2>3. got'[r] \in Session'
    BY <2>1, <2>2 DEF Session
  <2>4. QED
    BY <2>1, <2>3 DEF GotOk
<1>3. CASE SignIn(r)
  <2>1. \/ pc'[r] \in Carefree
        \/ pc'[r] = "sign" /\ (\E u \in UserIds : got'[r] = Loaded(u))
    BY <1>3, StepGoes, FoundUsers DEF SignIn, FindPerson, AnyOf, Refuse, Carefree, Ends
  <2>2. QED
    BY <2>1, CarefreeOk, LoadedTyped, <1>a DEF GotOk
<1>4. CASE CheckUserExists(r)
  BY <1>4, StepGoes, CarefreeOk DEF CheckUserExists, FindPerson, Refuse,
     Carefree, Ends
<1>5. CASE Refresh(r)
  <2>1. ValidToken(r) => User(r) \in UserIds
    BY DEF ValidToken, FindById, LiveRows, UserIds
  <2>2. \/ pc'[r] \in Carefree
        \/ ValidToken(r) /\ pc'[r] = "sign" /\ got'[r] = Loaded(User(r))
    BY <1>5, StepGoes DEF Refresh, Refuse, Carefree, Ends
  <2>3. QED
    BY <2>1, <2>2, CarefreeOk, LoadedTyped, <1>a DEF GotOk
<1>6. CASE SignTokens(r)
  <2>1. /\ pc[r] = "sign" /\ pc'[r] = "store"
        /\ got'[r] = [got[r] EXCEPT !.new = now]
    BY <1>6, StepGoes DEF SignTokens
  <2>2. got[r] \in Session
    BY <2>1 DEF GotInv, GotOk
  <2>3. now \in 0 .. Horizon /\ None \notin Nat /\ Horizon \in Nat
    BY NoneAssumption, AccountAssumption DEF StoreInv
  <2>4. got'[r] \in Session /\ got'[r].new = now
    BY <2>1, <2>2, <2>3 DEF Session
  <2>5. got'[r].new # None
    BY <2>3, <2>4
  <2>6. QED
    BY <2>1, <2>4, <2>5, <1>a DEF GotOk
<1>7. CASE StoreToken(r)
  <2>1. pc[r] = "store" /\ pc'[r] = "answer" /\ got'[r] = got[r]
    BY <1>7, StepGoes DEF StoreToken
  <2>2. got'[r] \in Session
    BY <2>1 DEF GotInv, GotOk
  <2>3. QED
    BY <2>1, <2>2, <1>a DEF GotOk
<1>8. CASE Answer(r)
  BY <1>8, StepGoes, CarefreeOk DEF Answer, Refuse, Carefree, Ends
<1>9. CASE CheckNicknameExists(r)
  BY <1>9, StepGoes, CarefreeOk DEF CheckNicknameExists, Refuse, Carefree,
     Ends
<1>10. CASE FindProfile(r)
  BY <1>10, StepGoes, CarefreeOk DEF FindProfile, Refuse, Carefree, Ends
<1>11. CASE FindNickname(r)
  BY <1>11, StepGoes, CarefreeOk DEF FindNickname, Refuse, Carefree, Ends
<1>12. CASE SetNickname(r)
  BY <1>12, StepGoes, CarefreeOk DEF SetNickname, Refuse, Carefree, Ends
<1>13. CASE ReadRegionList(r)
  <2>1. \/ pc'[r] \in Carefree
        \/ /\ pc'[r] = "replace" /\ Op(r) = "putRegions" /\ plan' = plan
           /\ Cardinality(ToSet(plan[r].regions) \cap Regions)
                = Len(plan[r].regions)
    BY <1>13, StepGoes DEF ReadRegionList, Refuse, Carefree, Ends
  <2>2. Op(r) = "putRegions" => plan[r].regions \in Seq(Regions \cup {None})
    BY RequestTypes DEF StoreInv
  <2>3. QED
    BY <2>1, <2>2, CarefreeOk, ListedExist DEF GotOk
<1>14. CASE ReplaceRegions(r)
  BY <1>14, StepGoes, CarefreeOk DEF ReplaceRegions, Refuse, Carefree, Ends
<1>15. CASE ReadPrimary(r)
  BY <1>15, StepGoes, CarefreeOk DEF ReadPrimary, Refuse, Carefree, Ends
<1>16. CASE MovePrimary(r)
  BY <1>16, StepGoes, CarefreeOk DEF MovePrimary, Refuse, Carefree, Ends
<1>17. CASE ReadRegion(r)
  BY <1>17, StepGoes, CarefreeOk DEF ReadRegion, Refuse, Carefree, Ends
<1>18. CASE DropRegion(r)
  BY <1>18, StepGoes, CarefreeOk DEF DropRegion, Refuse, Carefree, Ends
<1>19. CASE ReadRegions(r)
  <2>1. \/ pc'[r] \in Carefree
        \/ /\ pc'[r] = "insert" /\ plan' = plan
           /\ plan[r].region \in Regions /\ got'[r] \in BOOLEAN
    BY <1>19, StepGoes DEF ReadRegions, MayOnboard, MayAdd, Refuse, Carefree, Ends
  <2>2. QED
    BY <2>1, CarefreeOk DEF GotOk
<1>20. CASE InsertRegion(r)
  BY <1>20, StepGoes, CarefreeOk DEF InsertRegion, Refuse, Carefree, Ends
<1>21. CASE ReadTerms(r)
  <2>1. \/ pc'[r] \in Carefree
        \/ /\ pc'[r] = "agreed" /\ plan' = plan
           /\ ToSet(plan[r].terms) \subseteq Terms
    BY <1>21, StepGoes DEF ReadTerms, Refuse, Carefree, Ends
  <2>2. QED
    BY <2>1, CarefreeOk DEF GotOk
<1>22. CASE FindAgreed(r)
  <2>1. \/ pc'[r] \in Carefree
        \/ pc[r] = "agreed" /\ pc'[r] \in {"agreed", "agree"} /\ plan' = plan
    BY <1>22, StepGoes DEF FindAgreed, Refuse, Carefree, Ends
  <2>2. QED
    BY <2>1, CarefreeOk DEF GotInv, GotOk
<1>23. CASE InsertAgreements(r)
  BY <1>23, StepGoes, CarefreeOk DEF InsertAgreements, Refuse, Carefree,
     Ends
<1>24. CASE GetUserAgreements(r)
  BY <1>24, StepGoes, CarefreeOk DEF GetUserAgreements, Refuse, Carefree,
     Ends
<1>25. CASE GetUserProfile(r)
  BY <1>25, StepGoes, CarefreeOk DEF GetUserProfile, Refuse, Carefree, Ends
<1>26. CASE ReadBlock(r)
  <2>1. \/ pc'[r] \in Carefree
        \/ /\ pc'[r] = "block" /\ plan' = plan
           /\ FindById(db, plan[r].blocked)
    BY <1>26, StepGoes DEF ReadBlock, MayBlock, Refuse, Carefree, Ends
  <2>2. FindById(db, plan[r].blocked) => plan[r].blocked \in UserIds
    BY DEF FindById, LiveRows, UserIds
  <2>3. QED
    BY <2>1, <2>2, CarefreeOk DEF GotOk
<1>27. CASE InsertBlock(r)
  BY <1>27, StepGoes, CarefreeOk DEF InsertBlock, Refuse, Carefree, Ends
<1>28. CASE DeleteBlock(r)
  BY <1>28, StepGoes, CarefreeOk DEF DeleteBlock, Refuse, Carefree, Ends
<1>29. CASE ReadReport(r)
  <2>1. \/ pc'[r] \in Carefree
        \/ /\ pc'[r] = "report" /\ plan' = plan
           /\ FindById(db, plan[r].target) /\ got'[r] \in BOOLEAN
    BY <1>29, StepGoes DEF ReadReport, Refuse, Carefree, Ends
  <2>2. FindById(db, plan[r].target) => plan[r].target \in UserIds
    BY DEF FindById, LiveRows, UserIds
  <2>3. QED
    BY <2>1, <2>2, CarefreeOk DEF GotOk
<1>30. CASE InsertReport(r)
  BY <1>30, StepGoes, CarefreeOk DEF InsertReport, Refuse, Carefree, Ends
<1>31. CASE GetBlockedUsers(r)
  BY <1>31, StepGoes, CarefreeOk DEF GetBlockedUsers, BlockedPage, Refuse,
     Carefree, Ends
<1>32. CASE FindDevice(r)
  BY <1>32, StepGoes, CarefreeOk DEF FindDevice, Refuse, Carefree, Ends
<1>33. CASE RegisterDevice(r)
  BY <1>33, StepGoes, CarefreeOk DEF RegisterDevice, Refuse, Carefree, Ends
<1>34. CASE ReadWithdrawing(r)
  BY <1>34, StepGoes, CarefreeOk DEF ReadWithdrawing, Refuse, Carefree, Ends
<1>35. CASE Withdraw(r)
  BY <1>35, StepGoes, CarefreeOk DEF Withdraw, Refuse, Carefree, Ends
<1>36. CASE SendCode(r)
  BY <1>36, StepGoes, CarefreeOk DEF SendCode, Refuse, Carefree, Ends
<1>37. CASE SetVerificationCode(r)
  BY <1>37, StepGoes, CarefreeOk DEF SetVerificationCode, Refuse, Carefree,
     Ends
<1>38. CASE MailCode(r)
  BY <1>38, StepGoes, CarefreeOk DEF MailCode, Refuse, Carefree, Ends
<1>39. CASE GetVerificationCode(r)
  <2>1. \/ pc'[r] \in Carefree
        \/ /\ pc'[r] = "user" /\ got'[r] = StoredCode(User(r))
           /\ StoredCode(User(r)) # None
    BY <1>39, StepGoes DEF GetVerificationCode, Refuse, Carefree, Ends
  <2>2. StoredCode(User(r)) # None => StoredCode(User(r)) \in Cached
    BY DEF StoredCode, StoreInv
  <2>3. QED
    BY <2>1, <2>2, CarefreeOk DEF GotOk, Cached
<1>40. CASE FindVerifying(r)
  <2>1. \/ pc'[r] \in Carefree
        \/ pc[r] = "user" /\ pc'[r] = "delete" /\ got'[r] = got[r]
    BY <1>40, StepGoes DEF FindVerifying, Refuse, Carefree, Ends
  <2>2. QED
    BY <2>1, CarefreeOk DEF GotInv, GotOk, Cached
<1>41. CASE DeleteVerificationCode(r)
  <2>1. pc[r] = "delete" /\ pc'[r] = "commit" /\ got'[r] = got[r]
    BY <1>41, StepGoes DEF DeleteVerificationCode
  <2>2. QED
    BY <2>1 DEF GotInv, GotOk, Cached
<1>42. CASE CommitVerified(r)
  BY <1>42, StepGoes, CarefreeOk DEF CommitVerified, Refuse, Carefree, Ends
<1>43. CASE CheckUpdatePopup(r)
  BY <1>43, StepGoes, CarefreeOk DEF CheckUpdatePopup, Refuse, Carefree,
     Ends
<1>44. QED
  BY <1>1, <1>2, <1>3, <1>4, <1>5, <1>6, <1>7, <1>8, <1>9, <1>10, <1>11,
     <1>12, <1>13, <1>14, <1>15, <1>16, <1>17, <1>18, <1>19, <1>20, <1>21,
     <1>22, <1>23, <1>24, <1>25, <1>26, <1>27, <1>28, <1>29, <1>30, <1>31,
     <1>32, <1>33, <1>34, <1>35, <1>36, <1>37, <1>38, <1>39, <1>40, <1>41,
     <1>42, <1>43
     DEF Handle, RegistrationNext, InterestRegionsNext, OwnershipNext,
         VerificationNext

-----------------------------------------------------------------------------
(* The types hold.                                                         *)

LEMMA SetCodeEffect ==
  ASSUME NEW r \in Req, SetVerificationCode(r)
  PROVE  /\ DOMAIN codes' = DOMAIN codes \cup {User(r)}
         /\ codes' = [u \in DOMAIN codes' |-> codes'[u]]
         /\ codes'[User(r)] = [code |-> r, email |-> plan[r].email]
         /\ \A u \in DOMAIN codes : u # User(r) => codes'[u] = codes[u]
         /\ mails' = mails
BY DEF SetVerificationCode

LEMMA DeleteCodeEffect ==
  ASSUME NEW u, DeleteCode(u)
  PROVE  /\ DOMAIN codes' = DOMAIN codes \ {u}
         /\ codes' = [v \in DOMAIN codes' |-> codes'[v]]
         /\ \A v \in DOMAIN codes' : codes'[v] = codes[v]
BY DEF DeleteCode, Restrict

LEMMA RedisTyped ==
  ASSUME StageInv, StoreInv, UserIds \subseteq UserIds', Req' = Req,
         NEW r \in Req, Handle(r)
  PROVE  /\ codes' \in [DOMAIN codes' -> Cached']
         /\ DOMAIN codes' \subseteq UserIds'
         /\ mails' \subseteq [email: Emails, code: Req']
<1>1. Cached' = Cached
  BY DEF Cached
<1>2. CASE SetVerificationCode(r)
  <2>1. pc[r] = "set"
    BY <1>2 DEF SetVerificationCode, Step
  <2>2. Op(r) = "sendCode"
    BY <2>1 DEF StageInv, StageOps
  <2>3. plan[r].email \in Emails /\ User(r) \in UserIds
    BY <2>2, RequestTypes DEF StoreInv, Handle, Acts
  <2>4. [code |-> r, email |-> plan[r].email] \in Cached
    BY <2>3 DEF Cached
  <2>5. /\ DOMAIN codes' = DOMAIN codes \cup {User(r)}
        /\ codes' = [u \in DOMAIN codes' |-> codes'[u]]
        /\ codes'[User(r)] = [code |-> r, email |-> plan[r].email]
        /\ \A u \in DOMAIN codes : u # User(r) => codes'[u] = codes[u]
        /\ mails' = mails
    BY <1>2, SetCodeEffect
  <2>6. \A u \in DOMAIN codes' : codes'[u] \in Cached
    BY <2>4, <2>5 DEF StoreInv
  <2>7. QED
    BY <1>1, <2>3, <2>5, <2>6 DEF StoreInv
<1>3. CASE MailCode(r)
  <2>1. pc[r] = "mail"
    BY <1>3 DEF MailCode, Step
  <2>2. Op(r) = "sendCode"
    BY <2>1 DEF StageInv, StageOps
  <2>3. plan[r].email \in Emails
    BY <2>2, RequestTypes DEF StoreInv
  <2>4. QED
    BY <1>1, <1>3, <2>3 DEF StoreInv, MailCode
<1>4. CASE DeleteVerificationCode(r)
  <2>1. /\ DOMAIN codes' = DOMAIN codes \ {User(r)}
        /\ codes' = [v \in DOMAIN codes' |-> codes'[v]]
        /\ \A v \in DOMAIN codes' : codes'[v] = codes[v]
        /\ mails' = mails
    BY <1>4, DeleteCodeEffect DEF DeleteVerificationCode
  <2>2. QED
    BY <1>1, <2>1 DEF StoreInv
<1>5. CASE UNCHANGED <<codes, mails>>
  BY <1>1, <1>5 DEF StoreInv
<1>6. QED
  BY <1>2, <1>3, <1>4, <1>5, HandleWrites DEF RedisWrite

DataInv == RequestInv /\ StageInv /\ StoreInv /\ GotInv

LEMMA DataStart == Init => DataInv
<1> SUFFICES ASSUME Init PROVE DataInv
  OBVIOUS
<1>1. RequestInv
  BY RequestsStart DEF Init
<1>2. /\ plan \in Plans /\ db = StartDb /\ codes = << >> /\ mails = {} /\ now = 0
      /\ pc = [r \in Req |-> "idle"]
  BY DEF Init, RequestsInit
<1>3. StageInv /\ GotInv
  BY <1>2 DEF StageInv, StageOps, GotInv, GotOk
<1>4. StartDb \in Tables(UserIds, {0})
  BY <1>2, StartAssumption DEF UserIds
<1>5. ASSUME NEW us, NEW D \in Tables(us, {0}) PROVE D \in Tables(us, Writers)
  <2>1. {0} \subseteq Writers
    BY DEF Writers
  <2>2. /\ UserRow({0}) \subseteq UserRow(Writers)
        /\ InterestRegionRow(us, {0}) \subseteq InterestRegionRow(us, Writers)
        /\ UserAgreementRow(us, {0}) \subseteq UserAgreementRow(us, Writers)
        /\ UserBlockRow(us, {0}) \subseteq UserBlockRow(us, Writers)
        /\ ReportRow(us, {0}) \subseteq ReportRow(us, Writers)
        /\ DeviceRow(us, {0}) \subseteq DeviceRow(us, Writers)
    BY <2>1 DEF UserRow, InterestRegionRow, UserAgreementRow, UserBlockRow,
         ReportRow, DeviceRow
  <2>3. QED
    BY <2>2, SeqGrows DEF Tables
<1>6. db \in Tables(UserIds, Writers)
  BY <1>2, <1>4, <1>5
<1>7. codes \in [DOMAIN codes -> Cached] /\ DOMAIN codes \subseteq UserIds
  BY <1>2
<1>8. now \in 0 .. Horizon
  BY <1>2, AccountAssumption
<1>9. StoreInv
  BY <1>2, <1>6, <1>7, <1>8 DEF StoreInv
<1>10. QED
  BY <1>1, <1>3, <1>9 DEF DataInv

LEMMA HandleData ==
  ASSUME DataInv, NEW r \in Req, Handle(r)
  PROVE  DataInv' /\ Moves(r) /\ UserIds \subseteq UserIds' /\ Req' = Req
<1>1. RequestInv /\ StageInv /\ StoreInv /\ GotInv
  BY DEF DataInv
<1>2. Advances(r) /\ Moves(r)
  BY <1>1, HandleAdvances DEF Advances
<1>3. plan' = plan /\ Req' = Req /\ Writers' = Writers
  BY <1>2 DEF Moves, Req, Writers
<1>4. RequestInv'
  BY <1>1, <1>2, MovesKeeps
<1>5. ASSUME NEW q \in Req, q # r
      PROVE  pc'[q] = pc[q] /\ got'[q] = got[q]
  BY <1>1, <1>2, <1>5, OthersStay
<1>6. StageInv'
  BY <1>1, <1>2, <1>3, <1>5 DEF StageInv, Advances, Op
<1>7. Typed
  BY <1>1, HandleTyped
<1>8. UserIds \subseteq UserIds'
  <2>1. /\ db.users \in Seq(UserRow(Writers)) /\ db'.users \in Seq(UserRow(Writers))
        /\ Len(db.users) <= Len(db'.users)
    BY <1>1, <1>7, TableTypes DEF Typed, StoreInv
  <2>2. QED
    BY <2>1 DEF UserIds
<1>9. db' \in Tables(UserIds', Writers')
  BY <1>3, <1>7, <1>8, TablesGrow DEF Typed
<1>10. StoreInv'
  BY <1>1, <1>3, <1>8, <1>9, RedisTyped, HandleWrites DEF StoreInv
<1>11. GotInv'
  <2>1. GotOk(r)'
    BY <1>1, <1>3, <1>8, HandleGot
  <2>2. ASSUME NEW q \in Req, q # r PROVE GotOk(q)'
    <3>1. GotOk(q) /\ Session \subseteq Session' /\ Cached' = Cached
      BY <1>1, <1>3, <1>8 DEF GotInv, Session, Cached
    <3>2. QED
      BY <1>3, <1>5, <1>8, <2>2, <3>1 DEF GotOk
  <2>3. QED
    BY <1>3, <2>1, <2>2 DEF GotInv
<1>12. QED
  BY <1>2, <1>3, <1>4, <1>6, <1>8, <1>10, <1>11 DEF DataInv

LEMMA FailData ==
  ASSUME DataInv, NEW r \in Req, Fail(r)
  PROVE  /\ DataInv' /\ Moves(r) /\ Req' = Req
         /\ pc'[r] = "failed" /\ got'[r] = None /\ pc[r] # "idle"
<1>1. RequestInv /\ StageInv /\ StoreInv /\ GotInv
  BY DEF DataInv
<1>2. Moves(r) /\ pc'[r] = "failed" /\ got'[r] = None /\ pc[r] # "idle"
  BY <1>1, AbortMoves DEF Fail
<1>3. /\ plan' = plan /\ Req' = Req /\ Writers' = Writers
      /\ UNCHANGED <<db, codes, mails, now>> /\ UserIds' = UserIds
  BY <1>2 DEF Moves, Req, Writers, Fail, UserIds
<1>4. RequestInv'
  BY <1>1, <1>2, MovesKeeps
<1>5. ASSUME NEW q \in Req, q # r
      PROVE  pc'[q] = pc[q] /\ got'[q] = got[q]
  BY <1>1, <1>2, <1>5, OthersStay
<1>6. StageInv'
  BY <1>1, <1>2, <1>3, <1>5 DEF StageInv, Ends, StageOps, Op
<1>7. StoreInv'
  BY <1>1, <1>3 DEF StoreInv, Cached
<1>8. GotInv'
  <2>1. GotOk(r)'
    BY <1>2, CarefreeOk DEF Carefree, Ends
  <2>2. ASSUME NEW q \in Req, q # r PROVE GotOk(q)'
    BY <1>1, <1>3, <1>5, <2>2 DEF GotInv, GotOk, Session, Cached
  <2>3. QED
    BY <1>3, <2>1, <2>2 DEF GotInv
<1>9. QED
  BY <1>2, <1>3, <1>4, <1>6, <1>7, <1>8 DEF DataInv

\* A key that expires and a second that passes leave the requests alone.
LEMMA OtherData ==
  ASSUME DataInv, \/ \E u \in DOMAIN codes : ExpireCode(u)
                  \/ Tick \/ UNCHANGED accountVars
  PROVE  /\ DataInv' /\ UNCHANGED <<requestVars, db, mails>>
         /\ DOMAIN codes' \subseteq DOMAIN codes
         /\ \A u \in DOMAIN codes' : codes'[u] = codes[u]
         /\ now' \in 0 .. Horizon /\ now <= now'
<1>1. RequestInv /\ StageInv /\ StoreInv /\ GotInv
  BY DEF DataInv
<1>2. /\ UNCHANGED <<plan, pc, got, past, db, mails>>
      /\ Req' = Req /\ Writers' = Writers /\ UserIds' = UserIds
  BY DEF ExpireCode, Tick, accountVars, requestVars, Req, Writers, UserIds
<1>3. RequestInv' /\ StageInv' /\ GotInv'
  BY <1>1, <1>2 DEF RequestInv, StageInv, GotInv, GotOk, Ended, Session, Cached, Op
<1>4. /\ DOMAIN codes' \subseteq DOMAIN codes
      /\ codes' = [u \in DOMAIN codes' |-> codes'[u]]
      /\ \A u \in DOMAIN codes' : codes'[u] = codes[u]
  <2>1. CASE UNCHANGED codes
    BY <1>1, <2>1 DEF StoreInv
  <2>2. CASE \E u \in DOMAIN codes : ExpireCode(u)
    BY <2>2, DeleteCodeEffect DEF ExpireCode
  <2>3. QED
    BY <2>1, <2>2 DEF Tick, accountVars
<1>5. now' \in 0 .. Horizon /\ now <= now'
  BY <1>1, AccountAssumption DEF StoreInv, ExpireCode, Tick, accountVars
<1>6. StoreInv'
  BY <1>1, <1>2, <1>4, <1>5 DEF StoreInv, Cached
<1>7. QED
  BY <1>1, <1>2, <1>3, <1>4, <1>5, <1>6 DEF DataInv, requestVars

LEMMA DataStep == DataInv /\ [Next]_accountVars => DataInv'
BY HandleData, FailData, OtherData DEF Next

\* Throughout, whatever requests come in whatever order, the rows, the keys and
\* what the handlers carry have their types.
THEOREM DataInvariant == Spec => []DataInv
BY DataStart, DataStep, PTL DEF Spec

\* The tables, the codes, the mails and the clock keep their types, and what
\* had ended when a request arrived has ended.
THEOREM TypeCorrect == Spec => []TypeOK
<1>1. DataInv => TypeOK
  BY DEF DataInv, RequestInv, StoreInv, Cached, TypeOK
<1>2. QED
  BY <1>1, DataInvariant, PTL

-----------------------------------------------------------------------------
(* Which steps the handlers of an operation consist of.                    *)

Follows(r) ==
  /\ Op(r) = "profile" => FindProfile(r) \/ FindNickname(r) \/ SetNickname(r)
  /\ Op(r) = "putRegions" => ReadRegionList(r) \/ ReplaceRegions(r)
  /\ Op(r) = "setPrimary" => ReadPrimary(r) \/ MovePrimary(r)
  /\ Op(r) = "deleteRegion" => ReadRegion(r) \/ DropRegion(r)
  /\ Op(r) \in {"onboard", "addRegion"} => ReadRegions(r) \/ InsertRegion(r)
  /\ Op(r) = "agree" => ReadTerms(r) \/ FindAgreed(r) \/ InsertAgreements(r)
  /\ Op(r) \in {"block", "unblock"} =>
       ReadBlock(r) \/ InsertBlock(r) \/ DeleteBlock(r)
  /\ Op(r) = "report" => ReadReport(r) \/ InsertReport(r)
  /\ Op(r) = "device" => FindDevice(r) \/ RegisterDevice(r)
  /\ Op(r) = "withdraw" => ReadWithdrawing(r) \/ Withdraw(r)
  /\ Op(r) = "sendCode" =>
       SendCode(r) \/ SetVerificationCode(r) \/ MailCode(r)
  /\ Op(r) = "verify" =>
       \/ GetVerificationCode(r) \/ FindVerifying(r)
       \/ DeleteVerificationCode(r) \/ CommitVerified(r)
  /\ Op(r) = "blockedList" => GetBlockedUsers(r)
  /\ Op(r) = "popup" => CheckUpdatePopup(r)
  /\ Op(r) \in TokenOps =>
       \/ SignUp(r) \/ CreateUser(r) \/ SignIn(r) \/ Refresh(r)
       \/ SignTokens(r) \/ StoreToken(r) \/ Answer(r)

LEMMA HandleFollows ==
  ASSUME StageInv, NEW r \in Req, Handle(r)
  PROVE  Follows(r)
<1>1. CASE SignUp(r)
  BY <1>1 DEF SignUp, FindPerson, TokenOps, Follows
<1>2. CASE CreateUser(r)
  BY <1>2 DEF CreateUser, TokenOps, Step, StageInv, StageOps, Follows
<1>3. CASE SignIn(r)
  BY <1>3 DEF SignIn, FindPerson, TokenOps, Follows
<1>4. CASE CheckUserExists(r)
  BY <1>4 DEF CheckUserExists, FindPerson, TokenOps, Follows
<1>5. CASE Refresh(r)
  BY <1>5 DEF Refresh, TokenOps, Follows
<1>6. CASE SignTokens(r)
  BY <1>6 DEF SignTokens, TokenOps, Step, StageInv, StageOps, Follows
<1>7. CASE StoreToken(r)
  BY <1>7 DEF StoreToken, TokenOps, Step, StageInv, StageOps, Follows
<1>8. CASE Answer(r)
  BY <1>8 DEF Answer, TokenOps, Step, StageInv, StageOps, Follows
<1>9. CASE CheckNicknameExists(r)
  BY <1>9 DEF CheckNicknameExists, TokenOps, Follows
<1>10. CASE FindProfile(r)
  BY <1>10 DEF FindProfile, TokenOps, Follows
<1>11. CASE FindNickname(r)
  BY <1>11 DEF FindNickname, TokenOps, Step, StageInv, StageOps, Follows
<1>12. CASE SetNickname(r)
  BY <1>12 DEF SetNickname, TokenOps, Step, StageInv, StageOps, Follows
<1>13. CASE ReadRegionList(r)
  BY <1>13 DEF ReadRegionList, TokenOps, Follows
<1>14. CASE ReplaceRegions(r)
  BY <1>14 DEF ReplaceRegions, TokenOps, Step, StageInv, StageOps, Follows
<1>15. CASE ReadPrimary(r)
  BY <1>15 DEF ReadPrimary, TokenOps, Follows
<1>16. CASE MovePrimary(r)
  <2>1. pc[r] = "primary"
    BY <1>16 DEF MovePrimary, Step
  <2>2. Op(r) = "setPrimary"
    BY <2>1 DEF StageInv, StageOps
  <2>3. QED
    BY <1>16, <2>2 DEF TokenOps, Follows
<1>17. CASE ReadRegion(r)
  BY <1>17 DEF ReadRegion, TokenOps, Follows
<1>18. CASE DropRegion(r)
  BY <1>18 DEF DropRegion, TokenOps, Step, StageInv, StageOps, Follows
<1>19. CASE ReadRegions(r)
  BY <1>19 DEF ReadRegions, TokenOps, Follows
<1>20. CASE InsertRegion(r)
  BY <1>20 DEF InsertRegion, TokenOps, Step, StageInv, StageOps, Follows
<1>21. CASE ReadTerms(r)
  BY <1>21 DEF ReadTerms, TokenOps, Follows
<1>22. CASE FindAgreed(r)
  BY <1>22 DEF FindAgreed, TokenOps, Step, StageInv, StageOps, Follows
<1>23. CASE InsertAgreements(r)
  BY <1>23 DEF InsertAgreements, TokenOps, Step, StageInv, StageOps, Follows
<1>24. CASE GetUserAgreements(r)
  BY <1>24 DEF GetUserAgreements, TokenOps, Follows
<1>25. CASE GetUserProfile(r)
  BY <1>25 DEF GetUserProfile, TokenOps, Follows
<1>26. CASE ReadBlock(r)
  BY <1>26 DEF ReadBlock, TokenOps, Follows
<1>27. CASE InsertBlock(r)
  BY <1>27 DEF InsertBlock, TokenOps, Step, StageInv, StageOps, Follows
<1>28. CASE DeleteBlock(r)
  BY <1>28 DEF DeleteBlock, TokenOps, Step, StageInv, StageOps, Follows
<1>29. CASE ReadReport(r)
  BY <1>29 DEF ReadReport, TokenOps, Follows
<1>30. CASE InsertReport(r)
  BY <1>30 DEF InsertReport, TokenOps, Step, StageInv, StageOps, Follows
<1>31. CASE GetBlockedUsers(r)
  BY <1>31 DEF GetBlockedUsers, BlockedPage, TokenOps, Follows
<1>32. CASE FindDevice(r)
  BY <1>32 DEF FindDevice, TokenOps, Follows
<1>33. CASE RegisterDevice(r)
  BY <1>33 DEF RegisterDevice, TokenOps, Step, StageInv, StageOps, Follows
<1>34. CASE ReadWithdrawing(r)
  BY <1>34 DEF ReadWithdrawing, TokenOps, Follows
<1>35. CASE Withdraw(r)
  BY <1>35 DEF Withdraw, TokenOps, Step, StageInv, StageOps, Follows
<1>36. CASE SendCode(r)
  BY <1>36 DEF SendCode, TokenOps, Follows
<1>37. CASE SetVerificationCode(r)
  BY <1>37 DEF SetVerificationCode, TokenOps, Step, StageInv, StageOps,
     Follows
<1>38. CASE MailCode(r)
  BY <1>38 DEF MailCode, TokenOps, Step, StageInv, StageOps, Follows
<1>39. CASE GetVerificationCode(r)
  BY <1>39 DEF GetVerificationCode, TokenOps, Follows
<1>40. CASE FindVerifying(r)
  BY <1>40 DEF FindVerifying, TokenOps, Step, StageInv, StageOps, Follows
<1>41. CASE DeleteVerificationCode(r)
  BY <1>41 DEF DeleteVerificationCode, TokenOps, Step, StageInv, StageOps,
     Follows
<1>42. CASE CommitVerified(r)
  BY <1>42 DEF CommitVerified, TokenOps, Step, StageInv, StageOps, Follows
<1>43. CASE CheckUpdatePopup(r)
  BY <1>43 DEF CheckUpdatePopup, TokenOps, Follows
<1>44. QED
  BY <1>1, <1>2, <1>3, <1>4, <1>5, <1>6, <1>7, <1>8, <1>9, <1>10, <1>11,
     <1>12, <1>13, <1>14, <1>15, <1>16, <1>17, <1>18, <1>19, <1>20, <1>21,
     <1>22, <1>23, <1>24, <1>25, <1>26, <1>27, <1>28, <1>29, <1>30, <1>31,
     <1>32, <1>33, <1>34, <1>35, <1>36, <1>37, <1>38, <1>39, <1>40, <1>41,
     <1>42, <1>43
     DEF Handle, RegistrationNext, InterestRegionsNext, OwnershipNext,
         VerificationNext

-----------------------------------------------------------------------------
(* What a step leaves of the users' rows.                                  *)

\* The row of a user: only StoreToken and Withdraw change its token, only
\* SetNickname its nickname, only CommitVerified its address, and only
\* Withdraw deletes it, for good.
LEMMA UsersKept ==
  ASSUME DataInv, NEW r \in Req, Handle(r), NEW u \in UserIds
  PROVE  /\ db'.users[u].person = db.users[u].person
         /\ db'.users[u].by = db.users[u].by
         /\ db'.users[u].live => db.users[u].live
         /\ db'.users[u].nick = IF SetNickname(r) /\ u = User(r) THEN plan[r].nick
                                                              ELSE db.users[u].nick
         /\ \/ db'.users[u].email = db.users[u].email
            \/ /\ CommitVerified(r) /\ u = User(r)
               /\ db'.users[u].email = got[r].email
         /\ \/ db'.users[u].token = db.users[u].token
            \/ /\ StoreToken(r) /\ u = got[r].user /\ got[r].new # got[r].token
               /\ db'.users[u].token = got[r].new
            \/ /\ Withdraw(r) /\ u = User(r)
               /\ ~db'.users[u].live /\ db'.users[u].token = None
         /\ StoreToken(r) /\ u = got[r].user /\ got[r].new # got[r].token
              => db'.users[u].token = got[r].new
         /\ Withdraw(r) /\ u = User(r) => ~db'.users[u].live
<1>1. /\ db \in Tables(UserIds, Writers) /\ db.users \in Seq(UserRow(Writers))
      /\ u \in DOMAIN db.users /\ RequestInv /\ "users" \in DOMAIN db
  BY TableTypes DEF DataInv, StoreInv, UserIds, Tables
<1>2. PICK old : old = db.users
  OBVIOUS
<1>3. old \in Seq(UserRow(Writers)) /\ u \in DOMAIN old /\ Len(old) \in Nat
  BY <1>1, <1>2
<1>4. old[u] \in UserRow(Writers)
  BY <1>3
<1>5. CASE CreateUser(r)
  <2>1. pc[r] = "create"
    BY <1>5 DEF CreateUser, Step
  <2>2. ~StoreToken(r) /\ ~Withdraw(r) /\ ~SetNickname(r)
    BY <2>1 DEF StoreToken, Withdraw, SetNickname, Step
  <2>3. PICK row : db' = [db EXCEPT !["users"] = Append(old, row)]
    BY <1>2, <1>5 DEF CreateUser, Store
  <2>4. db'.users[u] = old[u]
    BY <1>1, <1>3, <2>3
  <2>5. QED
    BY <1>2, <2>2, <2>4
<1>6. CASE StoreToken(r)
  <2>1. pc[r] = "store"
    BY <1>6 DEF StoreToken, Step
  <2>2. ~Withdraw(r) /\ ~SetNickname(r)
    BY <2>1 DEF Withdraw, SetNickname, Step
  <2>3. CASE got[r].new = got[r].token
    BY <1>6, <2>2, <2>3 DEF StoreToken, NoWrite
  <2>4. CASE got[r].new # got[r].token
    <3>1. PICK new : new = Write(old, {got[r].user}, "token", got[r].new)
      OBVIOUS
    <3>2. db'.users = new
      BY <1>1, <1>2, <1>6, <2>4, <3>1 DEF StoreToken, Store
    <3>3. /\ new[u].person = old[u].person /\ new[u].by = old[u].by
          /\ (new[u].live => old[u].live) /\ new[u].email = old[u].email
          /\ new[u].nick = old[u].nick
          /\ new[u].token = IF u \in {got[r].user} THEN got[r].new ELSE old[u].token
      BY <1>3, <1>4, <3>1 DEF Write, UserRow
    <3>4. QED
      BY <1>2, <1>6, <2>2, <2>4, <3>2, <3>3
  <2>5. QED
    BY <2>3, <2>4
<1>7. CASE SetNickname(r)
  <2>1. pc[r] = "profile"
    BY <1>7 DEF SetNickname, Step
  <2>2. ~StoreToken(r) /\ ~Withdraw(r)
    BY <2>1 DEF StoreToken, Withdraw, Step
  <2>3. PICK new : new = Write(old, {User(r)}, "nick", plan[r].nick)
    OBVIOUS
  <2>4. db'.users = new
    BY <1>1, <1>2, <1>7, <2>3 DEF SetNickname, Store
  <2>5. /\ new[u].person = old[u].person /\ new[u].by = old[u].by
        /\ (new[u].live => old[u].live) /\ new[u].email = old[u].email
        /\ new[u].token = old[u].token
        /\ new[u].nick = IF u \in {User(r)} THEN plan[r].nick ELSE old[u].nick
    BY <1>3, <1>4, <2>3 DEF Write, UserRow
  <2>6. QED
    BY <1>2, <1>7, <2>2, <2>4, <2>5
<1>8. CASE CommitVerified(r)
  <2>1. pc[r] = "commit"
    BY <1>8 DEF CommitVerified, Step
  <2>2. ~StoreToken(r) /\ ~Withdraw(r) /\ ~SetNickname(r)
    BY <2>1 DEF StoreToken, Withdraw, SetNickname, Step
  <2>3. PICK new : new = Write(old, {User(r)}, "email", got[r].email)
    OBVIOUS
  <2>4. db'.users = new
    BY <1>1, <1>2, <1>8, <2>3 DEF CommitVerified, Store
  <2>5. /\ new[u].person = old[u].person /\ new[u].by = old[u].by
        /\ (new[u].live => old[u].live) /\ new[u].token = old[u].token
        /\ new[u].nick = old[u].nick
        /\ new[u].email = IF u \in {User(r)} THEN got[r].email ELSE old[u].email
    BY <1>3, <1>4, <2>3 DEF Write, UserRow
  <2>6. QED
    BY <1>2, <1>8, <2>2, <2>4, <2>5
<1>9. CASE Withdraw(r)
  <2>1. pc[r] = "withdraw"
    BY <1>9 DEF Withdraw, Step
  <2>2. ~StoreToken(r) /\ ~SetNickname(r)
    BY <2>1 DEF StoreToken, SetNickname, Step
  <2>3. PICK mid : mid = Write(old, {User(r)}, "token", None)
    OBVIOUS
  <2>4. mid[u] \in UserRow(Writers) /\ u \in DOMAIN mid
    BY <1>3, <1>4, <2>3 DEF Write, UserRow
  <2>5. PICK new : new = SoftDelete(mid, {User(r)})
    OBVIOUS
  <2>6. db'.users = new
    BY <1>2, <1>9, <2>3, <2>5, WithdrawWrites DEF DataInv
  <2>7. /\ mid[u].person = old[u].person /\ mid[u].by = old[u].by
        /\ (mid[u].live => old[u].live) /\ mid[u].email = old[u].email
        /\ mid[u].nick = old[u].nick
        /\ mid[u].token = IF u \in {User(r)} THEN None ELSE old[u].token
    BY <1>3, <1>4, <2>3 DEF Write, UserRow
  <2>8. /\ new[u].person = mid[u].person /\ new[u].by = mid[u].by
        /\ new[u].email = mid[u].email /\ new[u].token = mid[u].token
        /\ new[u].nick = mid[u].nick
        /\ (new[u].live => mid[u].live /\ u # User(r))
    BY <1>3, <2>4, <2>5 DEF SoftDelete, Write, UserRow
  <2>9. QED
    BY <1>2, <1>9, <2>2, <2>6, <2>7, <2>8
<1>10. CASE /\ db'.users = db.users
           /\ ~StoreToken(r) /\ ~Withdraw(r) /\ ~SetNickname(r)
  BY <1>10
<1>11. ASSUME ~UsersWrite(r), ~Withdraw(r) PROVE db'.users = db.users
  BY <1>1, <1>11, HandleWrites DEF RegionsWrite, OwnedWrite, ReplaceRegions,
     MovePrimary, DropRegion, InsertRegion, InsertAgreements, InsertBlock,
     DeleteBlock, InsertReport, RegisterDevice, Store
<1>12. QED
  BY <1>5, <1>6, <1>7, <1>8, <1>9, <1>10, <1>11 DEF UsersWrite

\* Only a sign-up adds a user, with no address.
LEMMA NewUsers ==
  ASSUME DataInv, NEW r \in Req, Handle(r), NEW u \in UserIds', u \notin UserIds
  PROVE  /\ CreateUser(r) /\ u = Len(db.users) + 1
         /\ db'.users[u] = [person |-> plan[r].person, nick |-> plan[r].nick,
                            token |-> None, email |-> None, live |-> TRUE,
                            by |-> r]
<1>1. /\ db.users \in Seq(UserRow(Writers)) /\ Len(db.users) \in Nat
      /\ "users" \in DOMAIN db /\ StoreInv
  BY TableTypes DEF DataInv, StoreInv, Tables
<1>2. CASE CreateUser(r)
  <2>1. PICK row : row = [person |-> plan[r].person, nick |-> plan[r].nick,
                          token |-> None, email |-> None, live |-> TRUE,
                          by |-> r]
    OBVIOUS
  <2>2. db'.users = Append(db.users, row)
    BY <1>1, <1>2, <2>1 DEF CreateUser, Store
  <2>3. /\ DOMAIN db'.users = 1 .. Len(db.users) + 1
        /\ db'.users[Len(db.users) + 1] = row
    BY <1>1, <2>2
  <2>4. u = Len(db.users) + 1
    BY <1>1, <2>3 DEF UserIds
  <2>5. QED
    BY <1>2, <2>1, <2>3, <2>4
<1>3. ASSUME NEW rows \in Seq(UserRow(Writers)), NEW S, NEW f, NEW v
      PROVE  DOMAIN Write(rows, S, f, v) = DOMAIN rows
  BY WriteRows
<1>4. CASE StoreToken(r) \/ SetNickname(r) \/ CommitVerified(r)
  BY <1>1, <1>3, <1>4 DEF StoreToken, SetNickname, CommitVerified, Store, NoWrite,
     UserIds
<1>5. CASE Withdraw(r)
  <2>1. db'.users = SoftDelete(Write(db.users, {User(r)}, "token", None), {User(r)})
    BY <1>1, <1>5, WithdrawWrites
  <2>2. DOMAIN db'.users = DOMAIN db.users
    BY <2>1 DEF SoftDelete, Write
  <2>3. QED
    BY <2>2 DEF UserIds
<1>6. ASSUME ~UsersWrite(r), ~Withdraw(r) PROVE db'.users = db.users
  BY <1>1, <1>6, HandleWrites DEF RegionsWrite, OwnedWrite, ReplaceRegions,
     MovePrimary, DropRegion, InsertRegion, InsertAgreements, InsertBlock,
     DeleteBlock, InsertReport, RegisterDevice, Store
<1>7. QED
  BY <1>2, <1>4, <1>5, <1>6 DEF UsersWrite, UserIds

-----------------------------------------------------------------------------
(***************************************************************************)
(* What a withdrawal leaves, what a code proves and how the refresh tokens *)
(* rotate, for any requests: the safety of Ownership, Verification and     *)
(* Registration as Account composes them.                                  *)
(***************************************************************************)

-----------------------------------------------------------------------------
(* What a step leaves of the rows a user owns.                             *)

\* Only the flags of the row may change, and once deleted it stays so.
SameRow(old, new) ==
  /\ new.user = old.user /\ new.by = old.by
  /\ DOMAIN new = DOMAIN old
  /\ \A f \in DOMAIN old \ {"live", "primary"} : new[f] = old[f]
  /\ new.live => old.live

\* B is what r makes of the table A: it keeps the rows, and adds its own.
Kept(A, B, r) ==
  /\ \A i \in DOMAIN A : i \in DOMAIN B /\ SameRow(A[i], B[i])
  /\ \A i \in DOMAIN B : i \in DOMAIN A \/ (B[i].user = User(r) /\ B[i].by = r)

OwnedRows(us, ws) ==
  {InterestRegionRow(us, ws), UserAgreementRow(us, ws), UserBlockRow(us, ws),
   ReportRow(us, ws), DeviceRow(us, ws)}

LEMMA KeptSame ==
  ASSUME NEW A, NEW r
  PROVE  Kept(A, A, r)
BY DEF Kept, SameRow

LEMMA KeptTwice ==
  ASSUME NEW A, NEW B, NEW C, NEW r, Kept(A, B, r), Kept(B, C, r)
  PROVE  Kept(A, C, r)
<1>1. ASSUME NEW i \in DOMAIN A PROVE i \in DOMAIN C /\ SameRow(A[i], C[i])
  BY DEF Kept, SameRow
<1>2. ASSUME NEW i \in DOMAIN C, i \notin DOMAIN A
      PROVE  C[i].user = User(r) /\ C[i].by = r
  BY <1>2 DEF Kept, SameRow
<1>3. QED
  BY <1>1, <1>2 DEF Kept

LEMMA RowDeleted ==
  ASSUME NEW us, NEW ws, NEW R \in OwnedRows(us, ws), NEW row \in R
  PROVE  /\ SameRow(row, [row EXCEPT !["live"] = FALSE])
         /\ ~[row EXCEPT !["live"] = FALSE].live
         /\ [row EXCEPT !["live"] = FALSE] \in R
<1>1. CASE R = InterestRegionRow(us, ws)
  BY <1>1 DEF InterestRegionRow, SameRow
<1>2. CASE R = UserAgreementRow(us, ws)
  BY <1>2 DEF UserAgreementRow, SameRow
<1>3. CASE R = UserBlockRow(us, ws)
  BY <1>3 DEF UserBlockRow, SameRow
<1>4. CASE R = ReportRow(us, ws)
  BY <1>4 DEF ReportRow, SameRow
<1>5. CASE R = DeviceRow(us, ws)
  BY <1>5 DEF DeviceRow, SameRow
<1>6. QED
  BY <1>1, <1>2, <1>3, <1>4, <1>5 DEF OwnedRows

LEMMA KeptSoftDelete ==
  ASSUME NEW us, NEW ws, NEW R \in OwnedRows(us, ws), NEW A \in Seq(R), NEW S,
         NEW r
  PROVE  /\ Kept(A, SoftDelete(A, S), r)
         /\ SoftDelete(A, S) \in Seq(R)
         /\ \A i \in S : i \in DOMAIN A => ~SoftDelete(A, S)[i].live
<1>1. PICK B : B = SoftDelete(A, S)
  OBVIOUS
<1>2. ASSUME NEW i \in DOMAIN A
      PROVE  /\ i \in DOMAIN B /\ SameRow(A[i], B[i])
             /\ i \in S => ~B[i].live
  <2>1. A[i] \in R
    OBVIOUS
  <2>2. /\ SameRow(A[i], [A[i] EXCEPT !["live"] = FALSE])
        /\ ~[A[i] EXCEPT !["live"] = FALSE].live
    BY <2>1, RowDeleted
  <2>3. /\ i \in DOMAIN B
        /\ B[i] = IF i \in S THEN [A[i] EXCEPT !["live"] = FALSE] ELSE A[i]
    BY <1>1 DEF SoftDelete, Write
  <2>4. SameRow(A[i], A[i])
    BY DEF SameRow
  <2>5. QED
    BY <2>2, <2>3, <2>4
<1>3. DOMAIN B = DOMAIN A
  BY <1>1 DEF SoftDelete, Write
<1>4. \A row \in R : [row EXCEPT !["live"] = FALSE] \in R
  BY RowDeleted
<1>5. B \in Seq(R)
  BY <1>1, <1>4, SoftDeleteType
<1>6. QED
  BY <1>1, <1>2, <1>3, <1>5 DEF Kept

LEMMA KeptAppend ==
  ASSUME NEW R, NEW A \in Seq(R), NEW new \in Seq(R), NEW r,
         \A i \in DOMAIN new : new[i].user = User(r) /\ new[i].by = r
  PROVE  Kept(A, A \o new, r)
<1>1. ASSUME NEW i \in DOMAIN A PROVE i \in DOMAIN (A \o new) /\ (A \o new)[i] = A[i]
  OBVIOUS
<1>2. ASSUME NEW i \in DOMAIN (A \o new), i \notin DOMAIN A
      PROVE  \E j \in DOMAIN new : (A \o new)[i] = new[j]
  <2>1. /\ Len(A) \in Nat /\ Len(new) \in Nat /\ i \in Nat
        /\ i - Len(A) \in 1 .. Len(new)
        /\ (A \o new)[i] = new[i - Len(A)]
    BY <1>2
  <2>2. QED
    BY <2>1
<1>3. QED
  BY <1>1, <1>2 DEF Kept, SameRow

\* The rows that are added may be any.
LEMMA ConcatKept ==
  ASSUME NEW R, NEW A \in Seq(R), NEW n \in Nat, NEW new, NEW r,
         new = [i \in 1 .. n |-> new[i]],
         \A i \in DOMAIN new : new[i].user = User(r) /\ new[i].by = r
  PROVE  Kept(A, A \o new, r)
<1>1. PICK Q : Q = R \cup {new[i] : i \in 1 .. n}
  OBVIOUS
<1>2. A \in Seq(Q)
  <2>1. R \subseteq Q
    BY <1>1
  <2>2. QED
    BY <2>1, SeqGrows
<1>3. new \in Seq(Q)
  <2>1. \A i \in 1 .. n : new[i] \in Q
    BY <1>1
  <2>2. QED
    BY <2>1, FunctionIsSeq
<1>4. QED
  BY <1>2, <1>3, KeptAppend

LEMMA AppendKept ==
  ASSUME NEW R, NEW A \in Seq(R), NEW row, NEW r, row.user = User(r), row.by = r
  PROVE  Kept(A, Append(A, row), r)
<1>1. Len(A) \in Nat /\ DOMAIN A = 1 .. Len(A)
  OBVIOUS
<1>2. /\ DOMAIN Append(A, row) = 1 .. Len(A) + 1
      /\ Append(A, row)[Len(A) + 1] = row
      /\ \A i \in 1 .. Len(A) : Append(A, row)[i] = A[i]
  OBVIOUS
<1>3. QED
  BY <1>1, <1>2 DEF Kept, SameRow

LEMMA KeptPrimary ==
  ASSUME NEW us, NEW ws, NEW A \in Seq(InterestRegionRow(us, ws)), NEW S,
         NEW b \in BOOLEAN, NEW r
  PROVE  /\ Kept(A, Write(A, S, "primary", b), r)
         /\ Write(A, S, "primary", b) \in Seq(InterestRegionRow(us, ws))
<1>1. PICK B : B = Write(A, S, "primary", b)
  OBVIOUS
<1>2. /\ DOMAIN B = DOMAIN A
      /\ \A i \in DOMAIN A :
           B[i] = IF i \in S THEN [A[i] EXCEPT !["primary"] = b] ELSE A[i]
  BY <1>1 DEF Write
<1>3. ASSUME NEW row \in InterestRegionRow(us, ws)
      PROVE  /\ SameRow(row, [row EXCEPT !["primary"] = b]) /\ SameRow(row, row)
             /\ [row EXCEPT !["primary"] = b] \in InterestRegionRow(us, ws)
  BY DEF InterestRegionRow, SameRow
<1>4. /\ Len(A) \in Nat /\ DOMAIN A = 1 .. Len(A)
      /\ \A i \in DOMAIN A : A[i] \in InterestRegionRow(us, ws)
  OBVIOUS
<1>5. Kept(A, B, r)
  BY <1>2, <1>3, <1>4 DEF Kept
<1>6. B = [i \in 1 .. Len(A) |-> B[i]]
  BY <1>1, <1>4 DEF Write
<1>7. \A i \in 1 .. Len(A) : B[i] \in InterestRegionRow(us, ws)
  BY <1>2, <1>3, <1>4
<1>8. QED
  BY <1>1, <1>4, <1>5, <1>6, <1>7, FunctionIsSeq

LEMMA RowsKept ==
  ASSUME DataInv, NEW r \in Req, Handle(r), NEW t \in SweptTables
  PROVE  Kept(db[t], db'[t], r)
<1>1. /\ db \in Tables(UserIds, Writers) /\ DataInv
      /\ RequestInv /\ StageInv /\ StoreInv /\ GotInv
  BY DEF DataInv, StoreInv
<1>2. /\ db.regions \in Seq(InterestRegionRow(UserIds, Writers))
      /\ db.agreements \in Seq(UserAgreementRow(UserIds, Writers))
      /\ db.blocks \in Seq(UserBlockRow(UserIds, Writers))
      /\ db.reports \in Seq(ReportRow(UserIds, Writers))
      /\ db.devices \in Seq(DeviceRow(UserIds, Writers))
  BY <1>1, TableTypes
<1>3. /\ InterestRegionRow(UserIds, Writers) \in OwnedRows(UserIds, Writers)
      /\ UserAgreementRow(UserIds, Writers) \in OwnedRows(UserIds, Writers)
      /\ UserBlockRow(UserIds, Writers) \in OwnedRows(UserIds, Writers)
      /\ ReportRow(UserIds, Writers) \in OwnedRows(UserIds, Writers)
      /\ DeviceRow(UserIds, Writers) \in OwnedRows(UserIds, Writers)
  BY DEF OwnedRows
<1>4. DOMAIN db = SweptTables \cup {"users"} /\ "users" \notin SweptTables
  BY <1>1 DEF Tables, SweptTables
<1>5. ASSUME NEW x \in SweptTables, NEW rows, db' = [db EXCEPT ![x] = rows],
             Kept(db[x], rows, r)
      PROVE  Kept(db[t], db'[t], r)
  BY <1>4, <1>5, KeptSame
<1>6. CASE UsersWrite(r) \/ UNCHANGED db
  <2>1. db'[t] = db[t]
    BY <1>4, <1>6 DEF UsersWrite, CreateUser, StoreToken, SetNickname,
         CommitVerified, Store, NoWrite
  <2>2. QED
    BY <2>1, KeptSame
<1>7. CASE Withdraw(r)
  <2>1. db'[t] = SoftDelete(db[t], OwnedBy(db[t], User(r)))
    BY <1>1, <1>7, WithdrawWrites
  <2>2. \E R \in OwnedRows(UserIds, Writers) : db[t] \in Seq(R)
    BY <1>2, <1>3 DEF SweptTables
  <2>3. Kept(db[t], SoftDelete(db[t], OwnedBy(db[t], User(r))), r)
    BY <2>2, KeptSoftDelete
  <2>4. QED
    BY <2>1, <2>3
<1>8. CASE ReplaceRegions(r)
  <2>1. PICK new : new = [i \in DOMAIN plan[r].regions |->
                            NewRegion(r, plan[r].regions[i],
                                      plan[r].regions[i] = plan[r].primary)]
    OBVIOUS
  <2>2. PICK gone : gone = SoftDelete(db.regions, got[r])
    OBVIOUS
  <2>3. db' = [db EXCEPT !["regions"] = gone \o new]
    BY <1>8, <2>1, <2>2 DEF ReplaceRegions, Store
  <2>4. \A i \in DOMAIN new : new[i].user = User(r) /\ new[i].by = r
    BY <2>1 DEF NewRegion
  <2>5. pc[r] = "replace"
    BY <1>8 DEF ReplaceRegions, Step
  <2>6. plan[r].regions \in Seq(Regions \cup {None})
    BY <1>1, <2>5, RequestTypes DEF StoreInv, StageInv, StageOps
  <2>7. PICK n \in Nat : DOMAIN plan[r].regions = 1 .. n
    BY <2>6
  <2>8. new = [i \in 1 .. n |-> new[i]]
    BY <2>1, <2>7
  <2>9. /\ Kept(db.regions, gone, r)
        /\ gone \in Seq(InterestRegionRow(UserIds, Writers))
    BY <1>2, <1>3, <2>2, KeptSoftDelete
  <2>10. Kept(gone, gone \o new, r)
    BY <2>4, <2>8, <2>9, ConcatKept
  <2>11. Kept(db.regions, gone \o new, r)
    BY <2>9, <2>10, KeptTwice
  <2>12. QED
    BY <1>5, <2>3, <2>11 DEF SweptTables
<1>9. CASE MovePrimary(r)
  <2>1. PICK mid : mid = Write(db.regions, got[r].clear, "primary", FALSE)
    OBVIOUS
  <2>2. Kept(db.regions, mid, r) /\ mid \in Seq(InterestRegionRow(UserIds, Writers))
    BY <1>2, <2>1, KeptPrimary
  <2>3. PICK new : new = Write(mid, got[r].set, "primary", TRUE)
    OBVIOUS
  <2>4. Kept(mid, new, r)
    BY <2>2, <2>3, KeptPrimary
  <2>5. Kept(db.regions, new, r)
    BY <2>2, <2>4, KeptTwice
  <2>6. db' = [db EXCEPT !["regions"] = new]
    BY <1>9, <2>1, <2>3 DEF MovePrimary, Store
  <2>7. QED
    BY <1>5, <2>5, <2>6 DEF SweptTables
<1>10. CASE DropRegion(r)
  <2>1. Kept(db.regions, SoftDelete(db.regions, got[r]), r)
    BY <1>2, <1>3, KeptSoftDelete
  <2>2. QED
    BY <1>5, <1>10, <2>1 DEF DropRegion, Store, SweptTables
<1>11. CASE InsertRegion(r)
  <2>1. PICK row : row = NewRegion(r, plan[r].region, got[r])
    OBVIOUS
  <2>2. row.user = User(r) /\ row.by = r
    BY <2>1 DEF NewRegion
  <2>3. Kept(db.regions, Append(db.regions, row), r)
    BY <1>2, <2>2, AppendKept
  <2>4. QED
    BY <1>5, <1>11, <2>1, <2>3 DEF InsertRegion, Store, SweptTables
<1>12. CASE InsertAgreements(r)
  <2>1. PICK new : new = [i \in DOMAIN plan[r].terms |->
                            [user |-> User(r), terms |-> plan[r].terms[i],
                             live |-> TRUE, by |-> r]]
    OBVIOUS
  <2>2. pc[r] = "agree"
    BY <1>12 DEF InsertAgreements, Step
  <2>3. plan[r].terms \in Seq(Terms \cup {None})
    BY <1>1, <2>2, RequestTypes DEF StoreInv, StageInv, StageOps
  <2>4. \A i \in DOMAIN new : new[i].user = User(r) /\ new[i].by = r
    BY <2>1
  <2>5. PICK n \in Nat : DOMAIN plan[r].terms = 1 .. n
    BY <2>3
  <2>6. new = [i \in 1 .. n |-> new[i]]
    BY <2>1, <2>5
  <2>7. Kept(db.agreements, db.agreements \o new, r)
    BY <1>2, <2>4, <2>6, ConcatKept
  <2>8. QED
    BY <1>5, <1>12, <2>1, <2>7 DEF InsertAgreements, Store, SweptTables
<1>13. CASE InsertBlock(r)
  <2>1. PICK row : row = NewBlock(r, plan[r].blocked)
    OBVIOUS
  <2>2. row.user = User(r) /\ row.by = r
    BY <2>1 DEF NewBlock
  <2>3. Kept(db.blocks, Append(db.blocks, row), r)
    BY <1>2, <2>2, AppendKept
  <2>4. QED
    BY <1>5, <1>13, <2>1, <2>3 DEF InsertBlock, Store, SweptTables
<1>14. CASE DeleteBlock(r)
  <2>1. Kept(db.blocks, SoftDelete(db.blocks, got[r]), r)
    BY <1>2, <1>3, KeptSoftDelete
  <2>2. QED
    BY <1>5, <1>14, <2>1 DEF DeleteBlock, Store, SweptTables
<1>15. CASE InsertReport(r)
  <2>1. PICK report : report = [user |-> User(r), target |-> plan[r].target,
                                live |-> TRUE, by |-> r]
    OBVIOUS
  <2>2. PICK row : row = NewBlock(r, plan[r].target)
    OBVIOUS
  <2>3. Kept(db.reports, Append(db.reports, report), r)
    BY <1>2, <2>1, AppendKept
  <2>4. row.user = User(r) /\ row.by = r
    BY <2>2 DEF NewBlock
  <2>5. /\ Kept(db.blocks, Append(db.blocks, row), r)
        /\ Kept(db.blocks, db.blocks, r)
    BY <1>2, <2>4, AppendKept, KeptSame
  <2>6. PICK blocks : blocks = IF got[r] THEN Append(db.blocks, row) ELSE db.blocks
    OBVIOUS
  <2>7. db' = [db EXCEPT !["reports"] = Append(db.reports, report),
                         !["blocks"] = blocks]
    BY <1>15, <1>4, <2>1, <2>2, <2>6 DEF InsertReport, SweptTables
  <2>8. /\ db'.reports = Append(db.reports, report)
        /\ db'.blocks = blocks
        /\ t \notin {"reports", "blocks"} => db'[t] = db[t]
    BY <1>4, <2>7 DEF SweptTables
  <2>9. QED
    BY <2>3, <2>5, <2>6, <2>8, KeptSame
<1>16. CASE RegisterDevice(r)
  <2>1. PICK row : row = [user |-> User(r), token |-> plan[r].token,
                          live |-> TRUE, by |-> r]
    OBVIOUS
  <2>2. PICK gone : gone = SoftDelete(db.devices, got[r])
    OBVIOUS
  <2>3. /\ Kept(db.devices, gone, r)
        /\ gone \in Seq(DeviceRow(UserIds, Writers))
    BY <1>2, <1>3, <2>2, KeptSoftDelete
  <2>4. Kept(gone, Append(gone, row), r)
    BY <2>1, <2>3, AppendKept
  <2>5. Kept(db.devices, Append(gone, row), r)
    BY <2>3, <2>4, KeptTwice
  <2>6. db' = [db EXCEPT !["devices"] = Append(gone, row)]
    BY <1>16, <2>1, <2>2 DEF RegisterDevice, Store
  <2>7. QED
    BY <1>5, <2>5, <2>6 DEF SweptTables
<1>17. QED
  BY <1>6, <1>7, <1>8, <1>9, <1>10, <1>11, <1>12, <1>13, <1>14, <1>15, <1>16,
     HandleWrites DEF RegionsWrite, OwnedWrite

LEMMA WithdrawSweeps ==
  ASSUME DataInv, NEW r \in Req, Withdraw(r), NEW t \in SweptTables
  PROVE  OwnedBy(db'[t], User(r)) = {}
<1>1. /\ db \in Tables(UserIds, Writers) /\ StoreInv
  BY DEF DataInv, StoreInv
<1>2. /\ db.regions \in Seq(InterestRegionRow(UserIds, Writers))
      /\ db.agreements \in Seq(UserAgreementRow(UserIds, Writers))
      /\ db.blocks \in Seq(UserBlockRow(UserIds, Writers))
      /\ db.reports \in Seq(ReportRow(UserIds, Writers))
      /\ db.devices \in Seq(DeviceRow(UserIds, Writers))
  BY <1>1, TableTypes
<1>3. \E R \in OwnedRows(UserIds, Writers) : db[t] \in Seq(R)
  BY <1>2 DEF SweptTables, OwnedRows
<1>4. PICK S : S = OwnedBy(db[t], User(r))
  OBVIOUS
<1>5. PICK B : B = SoftDelete(db[t], S)
  OBVIOUS
<1>6. Kept(db[t], B, r) /\ \A i \in S : i \in DOMAIN db[t] => ~B[i].live
  BY <1>3, <1>5, KeptSoftDelete
<1>7. DOMAIN B = DOMAIN db[t]
  BY <1>5 DEF SoftDelete, Write
<1>8. \A i \in DOMAIN B : B[i].user = User(r) /\ B[i].live => i \in S
  BY <1>4, <1>6, <1>7 DEF Kept, SameRow, OwnedBy, LiveRows
<1>9. OwnedBy(B, User(r)) = {}
  BY <1>6, <1>7, <1>8 DEF OwnedBy, LiveRows
<1>10. db'[t] = B
  BY <1>1, <1>4, <1>5, WithdrawWrites
<1>11. QED
  BY <1>9, <1>10

\* A handler that has only just arrived writes nothing.
LEMMA FirstStepReads ==
  ASSUME DataInv, NEW r \in Req, Handle(r), pc[r] = "idle"
  PROVE  db' = db
<1>1. \A from \in DOMAIN StageOps : \A to, v : ~Step(r, from, to, v)
  BY DEF Step, StageOps
<1>2. ~UsersWrite(r) /\ ~Withdraw(r)
  BY <1>1 DEF StageOps, UsersWrite, CreateUser, StoreToken, SetNickname,
     CommitVerified, Withdraw
<1>3. ~RegionsWrite(r)
  BY <1>1 DEF StageOps, RegionsWrite, ReplaceRegions, MovePrimary, DropRegion,
     InsertRegion
<1>4. ~OwnedWrite(r)
  BY <1>1 DEF StageOps, OwnedWrite, InsertAgreements, InsertBlock, DeleteBlock,
     InsertReport, RegisterDevice
<1>5. QED
  BY <1>2, <1>3, <1>4, HandleWrites

-----------------------------------------------------------------------------
(* A withdrawal is final.                                                  *)

\* Who has withdrawn is a user no longer.
WithdrawnInv ==
  \A w \in Req : Op(w) = "withdraw" /\ Done(w)
                   => User(w) \in UserIds /\ ~db.users[User(w)].live

\* Who is being given tokens had not withdrawn when the request came.
SessionsInv ==
  \A r \in Req : Op(r) \in TokenOps /\ pc[r] \in {"sign", "store", "answer", "done"}
                   => Withdrawals(got[r].user) \cap past[r] = {}

GoneInv == DataInv /\ WithdrawnInv /\ SessionsInv /\ WithdrawnKeepsNothing

LEMMA GoneStart == Init => GoneInv
BY DataStart DEF Init, RequestsInit, GoneInv, WithdrawnInv, SessionsInv,
   WithdrawnKeepsNothing, Withdrawals, Done

\* A withdrawal that is done after a step of r either was done before, or the
\* step is its own.
LEMMA WithdrawalsGrow ==
  ASSUME DataInv, NEW r \in Req, Moves(r), NEW u,
         NEW w \in Withdrawals(u)'
  PROVE  /\ w \in Req /\ User(w) = u /\ Op(w) = "withdraw"
         /\ w \in Withdrawals(u) \/ (w = r /\ pc'[r] = "done")
<1>1. Req' = Req /\ plan' = plan
  BY DEF Moves, Req
<1>2. w \in Req /\ User(w) = u /\ Op(w) = "withdraw" /\ pc'[w] = "done"
  BY <1>1 DEF Withdrawals, User, Op, Done
<1>3. w # r => pc[w] = "done"
  BY <1>2, OthersStay DEF DataInv
<1>4. QED
  BY <1>2, <1>3 DEF Withdrawals, Done

LEMMA GoneHandle ==
  ASSUME GoneInv, NEW r \in Req, Handle(r)
  PROVE  GoneInv'
<1>1. /\ DataInv /\ RequestInv /\ StageInv /\ StoreInv /\ GotInv
      /\ WithdrawnInv /\ SessionsInv /\ WithdrawnKeepsNothing
  BY DEF GoneInv, DataInv
<1>2. /\ DataInv' /\ Moves(r) /\ UserIds \subseteq UserIds' /\ Req' = Req
      /\ plan' = plan
  BY <1>1, HandleData DEF Moves
<1>3. Follows(r)
  BY <1>1, HandleFollows
<1>4. ASSUME Op(r) = "withdraw", pc'[r] = "done"
      PROVE  Withdraw(r) /\ User(r) \in UserIds
  <2>1. ReadWithdrawing(r) => pc'[r] \in {"withdraw", "refused"}
    BY <1>1 DEF ReadWithdrawing, Refuse, Step, RequestInv
  <2>2. QED
    BY <1>3, <1>4, <2>1 DEF Follows, Handle, Acts
<1>5. WithdrawnInv'
  <2>1. ASSUME NEW w \in Req, Op(w) = "withdraw", pc'[w] = "done"
        PROVE  User(w) \in UserIds' /\ ~db'.users[User(w)].live
    <3>1. CASE w = r
      BY <1>1, <1>2, <1>4, <2>1, <3>1, UsersKept
    <3>2. CASE w # r
      <4>1. pc[w] = "done"
        BY <1>1, <1>2, <2>1, <3>2, OthersStay
      <4>2. User(w) \in UserIds /\ ~db.users[User(w)].live
        BY <1>1, <2>1, <4>1 DEF WithdrawnInv, Done
      <4>3. QED
        BY <1>1, <1>2, <4>2, UsersKept
    <3>3. QED
      BY <3>1, <3>2
  <2>2. QED
    BY <1>2, <2>1 DEF WithdrawnInv, Op, User, Done
<1>6. SessionsInv'
  <2>1. ASSUME NEW q \in Req, Op(q) \in TokenOps,
               pc'[q] \in {"sign", "store", "answer", "done"},
               NEW w \in Req, User(w) = got'[q].user, Op(w) = "withdraw",
               pc'[w] = "done", w \in past'[q]
        PROVE  FALSE
    <3>1. w # r => pc[w] = "done"
      BY <1>1, <1>2, <2>1, OthersStay
    <3>2. CASE q # r
      <4>1. pc'[q] = pc[q] /\ got'[q] = got[q] /\ past'[q] = past[q]
        BY <1>1, <1>2, <3>2, OthersStay
      <4>2. w # r
        BY <1>1, <1>2, <2>1, <4>1 DEF RequestInv, Moves, Ended
      <4>3. QED
        BY <1>1, <2>1, <3>1, <4>1, <4>2 DEF SessionsInv, Withdrawals, Done
    <3>3. CASE q = r
      <4>1. w # r
        BY <2>1, <3>3 DEF TokenOps
      <4>2. Done(w)
        BY <3>1, <4>1 DEF Done
      <4>3. User(w) \in UserIds /\ ~db.users[User(w)].live
        BY <1>1, <2>1, <4>2 DEF WithdrawnInv
      <4>4. CASE CreateUser(r)
        <5>1. got'[r].user = Len(db.users) + 1
          BY <1>1, <4>4 DEF CreateUser, Step, RequestInv
        <5>2. db.users \in Seq(UserRow(Writers))
          BY <1>1, TableTypes DEF StoreInv
        <5>3. User(w) \notin DOMAIN db.users
          BY <2>1, <3>3, <5>1, <5>2
        <5>4. QED
          BY <4>3, <5>3 DEF UserIds
      <4>5. CASE SignUp(r) \/ SignIn(r) \/ Refresh(r)
        <5>1. pc'[r] = "sign" => \E u \in LiveRows(db.users) : got'[r] = Loaded(u)
          BY <1>1, <4>5 DEF SignUp, SignIn, Refresh, FindPerson, AnyOf, Refuse,
             Step, RequestInv, ValidToken, FindById, FindByProviderId
        <5>2. pc'[r] \in {"sign", "create", "refused"}
          BY <1>1, <4>5 DEF SignUp, SignIn, Refresh, FindPerson, AnyOf, Refuse,
             Step, RequestInv
        <5>3. PICK u \in LiveRows(db.users) : got'[r] = Loaded(u)
          BY <2>1, <3>3, <5>1, <5>2
        <5>4. got'[r].user = u
          BY <5>3 DEF Loaded
        <5>5. QED
          BY <2>1, <3>3, <4>3, <5>3, <5>4 DEF LiveRows
      <4>6. CASE SignTokens(r) \/ StoreToken(r) \/ Answer(r)
        <5>1. pc[r] \in {"sign", "store", "answer"} /\ got[r] \in Session
          BY <1>1, <4>6 DEF SignTokens, StoreToken, Answer, Step, GotInv, GotOk
        <5>2. got'[r].user = got[r].user
          BY <1>1, <4>6, <5>1 DEF SignTokens, StoreToken, Answer, Step, RequestInv,
             Session
        <5>3. past'[r] = past[r]
          BY <1>1, <1>2, <5>1, PastStays
        <5>4. QED
          BY <1>1, <2>1, <3>3, <4>2, <5>1, <5>2, <5>3 DEF SessionsInv, Withdrawals
      <4>7. QED
        BY <1>3, <2>1, <3>3, <4>4, <4>5, <4>6 DEF Follows
    <3>4. QED
      BY <3>2, <3>3
  <2>2. QED
    BY <1>2, <2>1 DEF SessionsInv, Withdrawals, Op, User, Done
<1>7. WithdrawnKeepsNothing'
  <2>1. ASSUME NEW u \in UserIds', NEW w \in Withdrawals(u)', NEW t \in SweptTables,
               NEW i \in OwnedBy(db'[t], u)
        PROVE  \E q \in Req : /\ q = db'[t][i].by
                              /\ Met(q, w)' \/ w \in past'[q]
    <3>1. /\ w \in Req /\ User(w) = u /\ Op(w) = "withdraw"
          /\ w \in Withdrawals(u) \/ (w = r /\ pc'[r] = "done")
      BY <1>1, <1>2, WithdrawalsGrow
    <3>2. w \in Withdrawals(u)
      BY <1>1, <1>4, <2>1, <3>1, WithdrawSweeps
    <3>3. Done(w) /\ u \in UserIds /\ Ended(w) /\ pc[w] # "idle"
      BY <1>1, <3>1, <3>2 DEF Withdrawals, WithdrawnInv, Done, Ended, Ends
    <3>4. Kept(db[t], db'[t], r)
      BY <1>1, RowsKept
    <3>5. i \in DOMAIN db'[t] /\ db'[t][i].live /\ db'[t][i].user = u
      BY DEF OwnedBy, LiveRows
    <3>6. CASE i \in DOMAIN db[t]
      <4>1. i \in OwnedBy(db[t], u) /\ db'[t][i].by = db[t][i].by
        BY <3>4, <3>5, <3>6 DEF Kept, SameRow, OwnedBy, LiveRows
      <4>2. PICK q : q = db[t][i].by
        OBVIOUS
      <4>3. q \in Req /\ (Met(q, w) \/ w \in past[q])
        BY <1>1, <3>2, <3>3, <4>1, <4>2 DEF WithdrawnKeepsNothing
      <4>4. CASE Met(q, w)
        <5>1. Met(q, w)'
          BY <1>1, <1>2, <3>1, <4>3, <4>4, MetStays
        <5>2. QED
          BY <4>1, <4>2, <4>3, <5>1
      <4>5. CASE w \in past[q]
        <5>1. pc[q] # "idle"
          BY <1>1, <4>3, <4>5 DEF RequestInv
        <5>2. QED
          BY <1>1, <1>2, <4>1, <4>2, <4>3, <4>5, <5>1, PastStays
      <4>6. QED
        BY <4>3, <4>4, <4>5
    <3>7. CASE i \notin DOMAIN db[t]
      <4>1. db'[t][i].by = r
        BY <3>4, <3>5, <3>7 DEF Kept
      <4>2. pc[r] # "idle"
        BY <1>1, <3>5, <3>7, FirstStepReads
      <4>3. ~Ended(r) /\ r # w
        BY <1>2, <3>3 DEF Moves, Ended
      <4>4. CASE w \in past[r]
        BY <1>1, <1>2, <4>1, <4>2, <4>4, PastStays
      <4>5. CASE w \notin past[r]
        <5>1. r \notin past[w]
          BY <1>1, <3>1, <4>3 DEF RequestInv
        <5>2. Met(r, w)
          BY <3>3, <4>2, <4>3, <4>5, <5>1 DEF Met
        <5>3. Met(r, w)'
          BY <1>1, <1>2, <3>1, <5>2, MetStays
        <5>4. QED
          BY <4>1, <5>3
      <4>6. QED
        BY <4>4, <4>5
    <3>8. QED
      BY <3>6, <3>7
  <2>2. QED
    BY <1>2, <2>1 DEF WithdrawnKeepsNothing, Met
<1>8. QED
  BY <1>2, <1>5, <1>6, <1>7 DEF GoneInv

LEMMA GoneFail ==
  ASSUME GoneInv, NEW r \in Req, Fail(r)
  PROVE  GoneInv'
<1>1. /\ DataInv /\ RequestInv /\ WithdrawnInv /\ SessionsInv
      /\ WithdrawnKeepsNothing
  BY DEF GoneInv, DataInv
<1>2. /\ DataInv' /\ Moves(r) /\ Req' = Req /\ plan' = plan
      /\ pc'[r] = "failed" /\ db' = db /\ UserIds' = UserIds
      /\ pc[r] # "idle" /\ past' = past
  BY <1>1, FailData DEF Moves, Fail, UserIds
<1>3. ASSUME NEW u, NEW w \in Withdrawals(u)' PROVE w \in Withdrawals(u)
  BY <1>1, <1>2, <1>3, WithdrawalsGrow
<1>4. ASSUME NEW q \in Req, q # r
      PROVE  pc'[q] = pc[q] /\ got'[q] = got[q]
  BY <1>1, <1>2, <1>4, OthersStay
<1>5. WithdrawnInv'
  BY <1>1, <1>2, <1>4 DEF WithdrawnInv, Op, User, Done
<1>6. SessionsInv'
  <2>1. ASSUME NEW q \in Req, Op(q) \in TokenOps,
               pc'[q] \in {"sign", "store", "answer", "done"},
               NEW w \in Req, User(w) = got'[q].user, Op(w) = "withdraw",
               pc'[w] = "done"
        PROVE  w \notin past'[q]
    <3>1. pc'[q] = pc[q] /\ got'[q] = got[q] /\ pc[w] = "done"
      BY <1>2, <1>4, <2>1
    <3>2. QED
      BY <1>1, <1>2, <2>1, <3>1 DEF SessionsInv, Withdrawals, Done
  <2>2. QED
    BY <1>2, <2>1 DEF SessionsInv, Withdrawals, Op, User, Done
<1>7. WithdrawnKeepsNothing'
  <2>1. ASSUME NEW u \in UserIds, NEW w \in Withdrawals(u)', NEW t \in SweptTables,
               NEW i \in OwnedBy(db[t], u)
        PROVE  \E q \in Req : /\ q = db[t][i].by
                              /\ Met(q, w)' \/ w \in past'[q]
    <3>1. w \in Withdrawals(u) /\ w \in Req
      BY <1>3, <2>1 DEF Withdrawals
    <3>2. PICK q \in Req : q = db[t][i].by /\ (Met(q, w) \/ w \in past[q])
      BY <1>1, <2>1, <3>1 DEF WithdrawnKeepsNothing
    <3>3. Met(q, w) => Met(q, w)'
      BY <1>1, <1>2, <3>1, MetStays
    <3>4. QED
      BY <1>2, <3>2, <3>3
  <2>2. QED
    BY <1>2, <2>1 DEF WithdrawnKeepsNothing, Met
<1>8. QED
  BY <1>2, <1>5, <1>6, <1>7 DEF GoneInv

LEMMA GoneStep == GoneInv /\ [Next]_accountVars => GoneInv'
<1> SUFFICES ASSUME GoneInv, [Next]_accountVars PROVE GoneInv'
  OBVIOUS
<1>1. ASSUME \/ \E u \in DOMAIN codes : ExpireCode(u)
             \/ Tick \/ UNCHANGED accountVars
      PROVE  GoneInv'
  <2>1. DataInv' /\ UNCHANGED <<plan, pc, got, past, db>>
    BY <1>1, OtherData DEF GoneInv, requestVars
  <2>2. QED
    BY <2>1 DEF GoneInv, WithdrawnInv, SessionsInv, WithdrawnKeepsNothing,
       Withdrawals, Done, Met, Req, UserIds, Op, User
<1>2. QED
  BY <1>1, GoneHandle, GoneFail DEF Next

\* Nothing is left of the rows of who has withdrawn, and no token is given out
\* for the account, but to requests that met the withdrawal (and rows to those
\* that came after it).
THEOREM WithdrawnGone == Spec => []WithdrawnIsGone
<1>1. GoneInv => WithdrawnIsGone
  BY DEF GoneInv, SessionsInv, WithdrawnIsGone, WithdrawnGetsNoTokens, TokenOps, Done
<1>2. QED
  BY <1>1, GoneStart, GoneStep, PTL DEF Spec

-----------------------------------------------------------------------------
(* What a step leaves of the codes, and where the handlers of a            *)
(* verification are.                                                       *)

LEMMA CodesKept ==
  ASSUME DataInv, NEW r \in Req, Handle(r)
  PROVE  /\ \A u \in DOMAIN codes' :
              \/ u \in DOMAIN codes /\ codes'[u] = codes[u]
              \/ /\ SetVerificationCode(r) /\ u = User(r)
                 /\ codes'[u] = [code |-> r, email |-> plan[r].email]
         /\ \A u \in DOMAIN codes \ DOMAIN codes' :
              DeleteVerificationCode(r) /\ u = User(r)
         /\ DeleteVerificationCode(r) => User(r) \notin DOMAIN codes'
         /\ mails \subseteq mails'
         /\ \A m \in mails' \ mails :
              MailCode(r) /\ m = [email |-> plan[r].email, code |-> r]
<1>1. CASE SetVerificationCode(r)
  <2>1. pc[r] = "set"
    BY <1>1 DEF SetVerificationCode, Step
  <2>2. ~DeleteVerificationCode(r)
    BY <2>1 DEF DeleteVerificationCode, Step
  <2>3. QED
    BY <1>1, <2>2, SetCodeEffect
<1>2. CASE MailCode(r)
  <2>1. pc[r] = "mail"
    BY <1>2 DEF MailCode, Step
  <2>2. ~DeleteVerificationCode(r)
    BY <2>1 DEF DeleteVerificationCode, Step
  <2>3. QED
    BY <1>2, <2>2 DEF MailCode
<1>3. CASE DeleteVerificationCode(r)
  BY <1>3, DeleteCodeEffect DEF DeleteVerificationCode
<1>4. CASE UNCHANGED <<codes, mails>> /\ ~DeleteVerificationCode(r)
  BY <1>4
<1>5. QED
  BY <1>1, <1>2, <1>3, <1>4, HandleWrites DEF RedisWrite

LEMMA SendingGoes ==
  ASSUME DataInv, NEW r \in Req, Handle(r), Op(r) = "sendCode"
  PROVE  /\ pc'[r] = "set" => FindByDomain(plan[r].email) # {}
         /\ pc'[r] = "mail" => pc[r] = "set"
         /\ pc'[r] \in {"set", "mail", "done", "refused"}
         /\ SetVerificationCode(r) => pc[r] = "set" /\ pc'[r] = "mail"
         /\ MailCode(r) => pc[r] = "mail"
<1>1. RequestInv /\ StageInv
  BY DEF DataInv
<1>2. SendCode(r) \/ SetVerificationCode(r) \/ MailCode(r)
  BY <1>1, HandleFollows DEF Follows
<1>3. QED
  BY <1>1, <1>2, StepGoes DEF SendCode, SetVerificationCode, MailCode, Refuse, Step

LEMMA VerifyingGoes ==
  ASSUME DataInv, NEW r \in Req, Handle(r), Op(r) = "verify"
  PROVE  /\ pc'[r] = "user" =>
              /\ pc[r] = "idle" /\ User(r) \in DOMAIN codes /\ Knows(r)
              /\ codes[User(r)].code = plan[r].code
              /\ got'[r] = codes[User(r)] /\ codes' = codes /\ mails' = mails
         /\ pc'[r] = "delete" => pc[r] = "user" /\ got'[r] = got[r]
         /\ pc'[r] = "commit" =>
              pc[r] = "delete" /\ got'[r] = got[r] /\ DeleteVerificationCode(r)
         /\ pc'[r] = "done" =>
              pc[r] = "commit" /\ got'[r] = got[r] /\ CommitVerified(r)
<1>1. RequestInv /\ StageInv
  BY DEF DataInv
<1>2. \/ GetVerificationCode(r) \/ FindVerifying(r)
      \/ DeleteVerificationCode(r) \/ CommitVerified(r)
  BY <1>1, HandleFollows DEF Follows
<1>3. CASE GetVerificationCode(r)
  BY <1>1, <1>3, StepGoes DEF GetVerificationCode, StoredCode, Refuse, Step, NoRedis
<1>4. CASE FindVerifying(r)
  BY <1>1, <1>4, StepGoes DEF FindVerifying, Refuse
<1>5. CASE DeleteVerificationCode(r)
  <2>1. Step(r, "delete", "commit", got[r])
    BY <1>5 DEF DeleteVerificationCode
  <2>2. QED
    BY <1>1, <1>5, <2>1, StepGoes
<1>6. CASE CommitVerified(r)
  <2>1. Step(r, "commit", "done", got[r])
    BY <1>6 DEF CommitVerified
  <2>2. QED
    BY <1>1, <1>6, <2>1, StepGoes
<1>7. QED
  BY <1>2, <1>3, <1>4, <1>5, <1>6

-----------------------------------------------------------------------------
(* A code proves an address, once.                                         *)

\* g is a code that was drawn for user u, with the university address it is
\* mailed to, and stored.
Drawn(g, u) ==
  /\ g.code \in Req /\ Op(g.code) = "sendCode" /\ User(g.code) = u
  /\ g.email = plan[g.code].email /\ FindByDomain(g.email) # {}
  /\ pc[g.code] \notin {"idle", "set"}

CodesInv ==
  /\ \A u \in DOMAIN codes : Drawn(codes[u], u)
  /\ \A m \in mails : m.code \in Req /\ m.email = plan[m.code].email
  /\ \A c \in Req : Op(c) = "sendCode" /\ pc[c] \in {"set", "mail"}
                      => FindByDomain(plan[c].email) # {}

\* The verification r goes on: it was sent the code that was stored.
Matches(r) == Op(r) = "verify" /\ pc[r] \in {"user", "delete", "commit", "done"}

VerifyInv ==
  \A r \in Req : Matches(r) =>
    /\ Drawn(got[r], User(r)) /\ got[r].code = plan[r].code
    /\ \E m \in mails : m.code = got[r].code
    /\ pc[r] \in {"commit", "done"} /\ User(r) \in DOMAIN codes
         => codes[User(r)].code # plan[r].code
    /\ pc[r] \in {"user", "delete"} /\ User(r) \in DOMAIN codes
         => \/ codes[User(r)].code = plan[r].code
            \/ codes[User(r)].code \notin past[r]

\* Whoever comes with a code that a verification has used up goes nowhere.
OnceInv ==
  \A q, r \in Req :
    /\ Op(q) = "verify" /\ Done(q) /\ q \in past[r] /\ Matches(r)
    /\ User(q) = User(r)
    => plan[q].code # plan[r].code

AddressInv ==
  \A u \in UserIds : db.users[u].email # None =>
    \E r \in Req : /\ Op(r) = "verify" /\ Done(r) /\ User(r) = u
                   /\ got[r].email = db.users[u].email

ProofInv == DataInv /\ CodesInv /\ VerifyInv /\ OnceInv /\ AddressInv

LEMMA ProofStart == Init => ProofInv
<1> SUFFICES ASSUME Init PROVE ProofInv
  OBVIOUS
<1>1. /\ db = StartDb /\ codes = << >> /\ mails = {}
      /\ \A r \in Req : pc[r] = "idle"
  BY DEF Init, RequestsInit
<1>2. CodesInv /\ VerifyInv /\ OnceInv
  BY <1>1 DEF CodesInv, VerifyInv, OnceInv, Matches
<1>3. AddressInv
  BY <1>1, StartAssumption DEF AddressInv, UserIds
<1>4. QED
  BY <1>2, <1>3, DataStart DEF ProofInv

\* A code that was stored was.
LEMMA DrawnStays ==
  ASSUME DataInv, NEW r \in Req, Handle(r) \/ Fail(r), NEW g, NEW u, Drawn(g, u)
  PROVE  Drawn(g, u)'
<1>1. RequestInv /\ StageInv
  BY DEF DataInv
<1>2. Moves(r) /\ plan' = plan /\ Req' = Req
  BY HandleData, FailData DEF Moves
<1>3. PICK c : c = g.code
  OBVIOUS
<1>4. c \in Req /\ Op(c) = "sendCode" /\ pc[c] \notin {"idle", "set"}
  BY <1>3 DEF Drawn
<1>5. ASSUME c = r, Handle(r) PROVE pc'[c] \notin {"idle", "set"}
  <2>1. SendCode(r) => pc[r] = "idle"
    BY DEF SendCode, Step, Refuse
  <2>2. \/ SendCode(r) \/ SetVerificationCode(r) \/ MailCode(r)
    BY <1>1, <1>4, <1>5, HandleFollows DEF Follows
  <2>3. QED
    BY <1>1, <1>4, <1>5, <2>1, <2>2, StepGoes DEF SetVerificationCode, MailCode
<1>6. pc'[c] \notin {"idle", "set"}
  BY <1>1, <1>2, <1>4, <1>5, FailData, OthersStay
<1>7. QED
  BY <1>2, <1>3, <1>6 DEF Drawn, Op, User, FindByDomain

LEMMA CodesHandle ==
  ASSUME ProofInv, NEW r \in Req, Handle(r)
  PROVE  CodesInv'
<1>1. DataInv /\ RequestInv /\ StageInv /\ CodesInv
  BY DEF ProofInv, DataInv
<1>2. Moves(r) /\ Req' = Req /\ plan' = plan
  BY <1>1, HandleData DEF Moves
<1>3. ASSUME NEW q \in Req, q # r
      PROVE  pc'[q] = pc[q]
  BY <1>1, <1>2, <1>3, OthersStay
<1>4. ASSUME NEW u, NEW g, Drawn(g, u) PROVE Drawn(g, u)'
  BY <1>1, <1>4, DrawnStays
<1>5. ASSUME NEW u \in DOMAIN codes' PROVE Drawn(codes[u], u)'
  <2>1. CASE u \in DOMAIN codes /\ codes'[u] = codes[u]
    <3>1. PICK g : g = codes[u]
      OBVIOUS
    <3>2. Drawn(g, u)'
      BY <1>1, <1>4, <2>1, <3>1 DEF CodesInv
    <3>3. QED
      BY <2>1, <3>1, <3>2 DEF Drawn
  <2>2. CASE /\ SetVerificationCode(r) /\ u = User(r)
             /\ codes'[u] = [code |-> r, email |-> plan[r].email]
    <3>1. pc[r] = "set" /\ Op(r) = "sendCode"
      BY <1>1, <2>2 DEF SetVerificationCode, Step, StageInv, StageOps
    <3>2. FindByDomain(plan[r].email) # {} /\ pc'[r] = "mail"
      BY <1>1, <2>2, <3>1, SendingGoes DEF CodesInv
    <3>3. QED
      BY <1>2, <2>2, <3>1, <3>2 DEF Drawn, Op, User, FindByDomain
  <2>3. QED
    BY <1>1, <2>1, <2>2, CodesKept
<1>6. ASSUME NEW m \in mails' PROVE m.code \in Req /\ m.email = plan[m.code].email
  BY <1>1, CodesKept DEF CodesInv
<1>7. ASSUME NEW c \in Req, Op(c) = "sendCode", pc'[c] \in {"set", "mail"}
      PROVE  FindByDomain(plan[c].email) # {}
  BY <1>1, <1>3, <1>7, SendingGoes DEF CodesInv
<1>8. QED
  BY <1>2, <1>5, <1>6, <1>7 DEF CodesInv, Op, FindByDomain

LEMMA VerifyHandle ==
  ASSUME ProofInv, NEW r \in Req, Handle(r)
  PROVE  VerifyInv'
<1>1. DataInv /\ RequestInv /\ StageInv /\ StoreInv /\ CodesInv /\ VerifyInv
  BY DEF ProofInv, DataInv
<1>2. Moves(r) /\ Req' = Req /\ plan' = plan
  BY <1>1, HandleData DEF Moves
<1>3. ASSUME NEW u, NEW g, Drawn(g, u) PROVE Drawn(g, u)'
  BY <1>1, <1>3, DrawnStays
<1>4. ASSUME NEW q \in Req, Op(q) = "verify",
             pc'[q] \in {"user", "delete", "commit", "done"}
      PROVE  /\ Drawn(got[q], User(q))' /\ got'[q].code = plan[q].code
             /\ \E m \in mails' : m.code = got'[q].code
             /\ pc'[q] \in {"commit", "done"} /\ User(q) \in DOMAIN codes'
                  => codes'[User(q)].code # plan[q].code
             /\ pc'[q] \in {"user", "delete"} /\ User(q) \in DOMAIN codes'
                  => \/ codes'[User(q)].code = plan[q].code
                     \/ codes'[User(q)].code \notin past'[q]
  <2>1. CASE q = r /\ pc'[r] = "user"
    <3>1. /\ User(r) \in DOMAIN codes /\ Knows(r)
          /\ codes[User(r)].code = plan[r].code
          /\ got'[r] = codes[User(r)] /\ codes' = codes /\ mails' = mails
      BY <1>1, <1>4, <2>1, VerifyingGoes
    <3>2. PICK u : u = User(r)
      OBVIOUS
    <3>3. PICK g : g = codes[u]
      OBVIOUS
    <3>4. Drawn(g, u)
      BY <1>1, <3>1, <3>2, <3>3 DEF CodesInv
    <3>5. Drawn(g, u)'
      BY <1>3, <3>4
    <3>6. Drawn(got[r], User(r))'
      BY <1>2, <3>1, <3>2, <3>3, <3>5 DEF Drawn, User
    <3>7. g.code \in Req /\ 0 \notin Req
      BY <1>1, <3>4, RequestNumbers DEF Drawn, StoreInv
    <3>8. \E m \in mails : m.code = plan[r].code
      BY <3>1, <3>2, <3>3, <3>7 DEF Knows
    <3>9. QED
      BY <2>1, <3>1, <3>6, <3>8
  <2>2. ASSUME Matches(q), got'[q] = got[q]
        PROVE  /\ Drawn(got[q], User(q))' /\ got'[q].code = plan[q].code
               /\ \E m \in mails' : m.code = got'[q].code
    <3>1. /\ Drawn(got[q], User(q)) /\ got[q].code = plan[q].code
          /\ \E m \in mails : m.code = got[q].code
      BY <1>1, <2>2 DEF VerifyInv
    <3>2. PICK u : u = User(q)
      OBVIOUS
    <3>3. PICK g : g = got[q]
      OBVIOUS
    <3>4. Drawn(g, u)'
      BY <1>3, <3>1, <3>2, <3>3
    <3>5. mails \subseteq mails'
      BY <1>1, CodesKept
    <3>6. QED
      BY <1>2, <2>2, <3>1, <3>2, <3>3, <3>4, <3>5 DEF Drawn, User
  \* The codes that q sees after the step are those before, or one that r, not
  \* q, has just stored.
  <2>3. ASSUME Matches(q), past'[q] = past[q]
        PROVE  User(q) \in DOMAIN codes' =>
                 \/ User(q) \in DOMAIN codes /\ codes'[User(q)] = codes[User(q)]
                 \/ /\ codes'[User(q)].code # plan[q].code
                    /\ codes'[User(q)].code \notin past'[q]
    <3>1. SUFFICES ASSUME SetVerificationCode(r),
                          codes'[User(q)] = [code |-> r, email |-> plan[r].email]
                   PROVE  r # plan[q].code /\ r \notin past[q]
      BY <1>1, <2>3, CodesKept
    <3>2. pc[r] = "set"
      BY <3>1 DEF SetVerificationCode, Step
    <3>3. pc[plan[q].code] # "set"
      BY <1>1, <2>3 DEF VerifyInv, Drawn
    <3>4. r \notin past[q]
      BY <1>1, <3>2 DEF RequestInv, Ended, Ends
    <3>5. QED
      BY <3>2, <3>3, <3>4
  <2>4. CASE q # r
    <3>1. Matches(q) /\ pc'[q] = pc[q] /\ got'[q] = got[q] /\ past'[q] = past[q]
      BY <1>1, <1>2, <1>4, <2>4, OthersStay DEF Matches
    <3>2. QED
      BY <1>1, <2>2, <2>3, <3>1 DEF VerifyInv
  <2>5. CASE q = r /\ pc'[r] # "user"
    <3>1. /\ Matches(r) /\ got'[r] = got[r] /\ pc[r] # "idle"
          /\ pc'[r] = "delete" => pc[r] = "user"
          /\ pc'[r] = "commit" => User(r) \notin DOMAIN codes'
          /\ pc'[r] = "done" => pc[r] = "commit"
      BY <1>1, <1>4, <2>5, VerifyingGoes, CodesKept DEF Matches
    <3>2. past'[r] = past[r]
      BY <1>1, <1>2, <3>1, PastStays
    <3>3. /\ pc[r] = "commit" /\ User(r) \in DOMAIN codes
               => codes[User(r)].code # plan[r].code
          /\ pc[r] = "user" /\ User(r) \in DOMAIN codes
               => \/ codes[User(r)].code = plan[r].code
                  \/ codes[User(r)].code \notin past[r]
      BY <1>1, <3>1 DEF VerifyInv
    <3>4. QED
      BY <1>4, <2>2, <2>3, <2>5, <3>1, <3>2, <3>3
  <2>6. QED
    BY <2>1, <2>4, <2>5
<1>5. QED
  BY <1>2, <1>4 DEF VerifyInv, Matches, Op, User, Drawn, FindByDomain

LEMMA OnceHandle ==
  ASSUME ProofInv, NEW r \in Req, Handle(r)
  PROVE  OnceInv'
<1>1. DataInv /\ RequestInv /\ StageInv /\ VerifyInv /\ OnceInv
  BY DEF ProofInv, DataInv
<1>2. Moves(r) /\ Req' = Req /\ plan' = plan
  BY <1>1, HandleData DEF Moves
<1>3. ASSUME NEW q \in Req, NEW p \in Req, Op(q) = "verify", pc'[q] = "done",
             q \in past'[p], Op(p) = "verify",
             pc'[p] \in {"user", "delete", "commit", "done"}, User(q) = User(p)
      PROVE  plan[q].code # plan[p].code
  <2>1. CASE p = r /\ pc'[r] = "user"
    <3>1. /\ pc[r] = "idle" /\ User(r) \in DOMAIN codes
          /\ codes[User(r)].code = plan[r].code
      BY <1>1, <1>3, <2>1, VerifyingGoes
    <3>2. q \in {s \in Req : Ended(s)}
      BY <1>1, <1>2, <1>3, <2>1, <3>1 DEF Moves, RequestInv
    <3>3. pc[q] = "done"
      BY <1>1, <1>2, <1>3, <3>2, EndedStays
    <3>4. QED
      BY <1>1, <1>3, <2>1, <3>1, <3>3 DEF VerifyInv, Matches
  <2>2. CASE p # r \/ pc'[r] # "user"
    <3>1. Matches(p) /\ past'[p] = past[p]
      <4>1. CASE p # r
        BY <1>1, <1>2, <1>3, <4>1, OthersStay DEF Matches
      <4>2. CASE p = r
        <5>1. pc[r] \in {"user", "delete", "commit"}
          BY <1>1, <1>3, <2>2, <4>2, VerifyingGoes
        <5>2. QED
          BY <1>1, <1>2, <1>3, <4>2, <5>1, PastStays DEF Matches
      <4>3. QED
        BY <4>1, <4>2
    <3>2. Ended(q)
      BY <1>1, <1>3, <3>1 DEF RequestInv
    <3>3. Done(q)
      BY <1>1, <1>2, <1>3, <3>2, EndedStays DEF Done
    <3>4. QED
      BY <1>1, <1>3, <3>1, <3>3 DEF OnceInv
  <2>3. QED
    BY <2>1, <2>2
<1>4. QED
  BY <1>2, <1>3 DEF OnceInv, Matches, Op, User, Done

LEMMA AddressHandle ==
  ASSUME ProofInv, NEW r \in Req, Handle(r)
  PROVE  AddressInv'
<1>1. DataInv /\ RequestInv /\ StageInv /\ AddressInv
  BY DEF ProofInv, DataInv
<1>2. Moves(r) /\ Req' = Req /\ plan' = plan
  BY <1>1, HandleData DEF Moves
<1>3. ASSUME NEW u \in UserIds', db'.users[u].email # None
      PROVE  \E q \in Req : /\ Op(q) = "verify" /\ pc'[q] = "done" /\ User(q) = u
                            /\ got'[q].email = db'.users[u].email
  <2>1. u \in UserIds
    <3>1. SUFFICES ASSUME u \notin UserIds PROVE FALSE
      OBVIOUS
    <3>2. PICK row : /\ db'.users[u] = row
                     /\ row = [person |-> plan[r].person, nick |-> plan[r].nick,
                               token |-> None, email |-> None, live |-> TRUE,
                               by |-> r]
      BY <1>1, <1>3, <3>1, NewUsers
    <3>3. QED
      BY <1>3, <3>2
  <2>2. CASE db'.users[u].email = db.users[u].email
    <3>1. PICK q \in Req : /\ Op(q) = "verify" /\ Done(q) /\ User(q) = u
                           /\ got[q].email = db.users[u].email
      BY <1>1, <1>3, <2>1, <2>2 DEF AddressInv
    <3>2. pc'[q] = pc[q] /\ got'[q] = got[q]
      BY <1>1, <1>2, <3>1, EndedStays DEF Ended, Ends, Done
    <3>3. QED
      BY <2>2, <3>1, <3>2 DEF Done
  <2>3. CASE CommitVerified(r) /\ u = User(r) /\ db'.users[u].email = got[r].email
    <3>1. /\ pc[r] = "commit" /\ pc'[r] = "done" /\ got'[r] = got[r]
      BY <1>1, <2>3, StepGoes DEF CommitVerified
    <3>2. Op(r) = "verify"
      BY <1>1, <3>1 DEF StageInv, StageOps
    <3>3. QED
      BY <2>3, <3>1, <3>2
  <2>4. QED
    BY <1>1, <2>1, <2>2, <2>3, UsersKept
<1>4. QED
  BY <1>2, <1>3 DEF AddressInv, Op, User, Done

LEMMA ProofFail ==
  ASSUME ProofInv, NEW r \in Req, Fail(r)
  PROVE  ProofInv'
<1>1. /\ DataInv /\ RequestInv /\ CodesInv /\ VerifyInv /\ OnceInv /\ AddressInv
  BY DEF ProofInv, DataInv
<1>2. /\ DataInv' /\ Moves(r) /\ Req' = Req /\ plan' = plan
      /\ pc'[r] = "failed" /\ UNCHANGED <<db, codes, mails>> /\ UserIds' = UserIds
      /\ past' = past
  BY <1>1, FailData DEF Moves, Fail, UserIds
<1>3. ASSUME NEW u, NEW g, Drawn(g, u) PROVE Drawn(g, u)'
  BY <1>1, <1>3, DrawnStays
<1>4. ASSUME NEW q \in Req, q # r
      PROVE  pc'[q] = pc[q] /\ got'[q] = got[q]
  BY <1>1, <1>2, <1>4, OthersStay
<1>5. CodesInv'
  <2>1. ASSUME NEW u \in DOMAIN codes PROVE Drawn(codes[u], u)'
    <3>1. PICK g : g = codes[u]
      OBVIOUS
    <3>2. Drawn(g, u)'
      BY <1>1, <1>3, <2>1, <3>1 DEF CodesInv
    <3>3. QED
      BY <1>2, <3>1, <3>2 DEF Drawn
  <2>2. QED
    BY <1>1, <1>2, <1>4, <2>1 DEF CodesInv, Op, FindByDomain
<1>6. VerifyInv'
  <2>1. ASSUME NEW q \in Req, Matches(q)'
        PROVE  Matches(q) /\ pc'[q] = pc[q] /\ got'[q] = got[q]
    BY <1>2, <1>4, <2>1 DEF Matches, Op
  <2>2. ASSUME NEW q \in Req, Matches(q)' PROVE Drawn(got[q], User(q))'
    <3>1. PICK u : u = User(q)
      OBVIOUS
    <3>2. PICK g : g = got[q]
      OBVIOUS
    <3>3. Drawn(g, u)'
      BY <1>1, <1>3, <2>1, <2>2, <3>1, <3>2 DEF VerifyInv
    <3>4. QED
      BY <1>2, <2>1, <2>2, <3>1, <3>2, <3>3 DEF Drawn, User
  <2>3. QED
    BY <1>1, <1>2, <2>1, <2>2 DEF VerifyInv, User
<1>7. OnceInv'
  <2>1. \A q \in Req : Matches(q)' => Matches(q)
    BY <1>2, <1>4 DEF Matches, Op
  <2>2. \A q \in Req : Done(q)' => Done(q)
    BY <1>2, <1>4 DEF Done
  <2>3. QED
    BY <1>1, <1>2, <2>1, <2>2 DEF OnceInv, Op, User
<1>8. AddressInv'
  <2>1. \A q \in Req : Done(q) => q # r
    BY <1>2 DEF Moves, Done, Ends
  <2>2. QED
    BY <1>1, <1>2, <1>4, <2>1 DEF AddressInv, Op, User, Done
<1>9. QED
  BY <1>2, <1>5, <1>6, <1>7, <1>8 DEF ProofInv

LEMMA ProofStep == ProofInv /\ [Next]_accountVars => ProofInv'
<1> SUFFICES ASSUME ProofInv, [Next]_accountVars PROVE ProofInv'
  OBVIOUS
<1>1. ASSUME \/ \E u \in DOMAIN codes : ExpireCode(u)
             \/ Tick \/ UNCHANGED accountVars
      PROVE  ProofInv'
  <2>1. /\ DataInv' /\ UNCHANGED <<plan, pc, got, past, db, mails>>
        /\ DOMAIN codes' \subseteq DOMAIN codes
        /\ \A u \in DOMAIN codes' : codes'[u] = codes[u]
    BY <1>1, OtherData DEF ProofInv, requestVars
  <2>2. CodesInv'
    BY <2>1 DEF ProofInv, CodesInv, Drawn, Req, Op, User, FindByDomain
  <2>3. VerifyInv'
    BY <2>1 DEF ProofInv, VerifyInv, Matches, Drawn, Req, Op, User, FindByDomain
  <2>4. OnceInv' /\ AddressInv'
    BY <2>1 DEF ProofInv, OnceInv, AddressInv, Matches, Req, Op, User, Done, UserIds
  <2>5. QED
    BY <2>1, <2>2, <2>3, <2>4 DEF ProofInv
<1>2. ASSUME NEW r \in Req, Handle(r) PROVE ProofInv'
  BY <1>2, HandleData, CodesHandle, VerifyHandle, OnceHandle, AddressHandle
     DEF ProofInv
<1>3. QED
  BY <1>1, <1>2, ProofFail DEF Next

\* Whatever is sent, typed, lost or expires meanwhile, a stored code is one
\* that was drawn for the user and goes to the address beside it, and a code
\* that has been used is not stored again.
THEOREM ProofInvariant == Spec => []ProofInv
BY ProofStart, ProofStep, PTL DEF Spec

\* A verified address is one to which the user's own code was mailed, and a
\* code is good for one verification unless two of them met.
THEOREM CodesHold == Spec => []CodesProve
<1>1. ASSUME ProofInv PROVE AddressWasProved
  <2>1. ASSUME NEW u \in UserIds, db.users[u].email # None
        PROVE  /\ FindByDomain(db.users[u].email) # {}
               /\ \E m \in mails :
                    /\ m.email = db.users[u].email /\ User(m.code) = u
                    /\ \E r \in Req : /\ Op(r) = "verify" /\ Done(r)
                                      /\ User(r) = u /\ plan[r].code = m.code
    <3>1. PICK r \in Req : /\ Op(r) = "verify" /\ Done(r) /\ User(r) = u
                           /\ got[r].email = db.users[u].email
      BY <1>1, <2>1 DEF ProofInv, AddressInv
    <3>2. /\ Drawn(got[r], u) /\ got[r].code = plan[r].code
          /\ \E m \in mails : m.code = got[r].code
      BY <1>1, <3>1 DEF ProofInv, VerifyInv, Matches, Done
    <3>3. PICK m \in mails : m.code = got[r].code
      BY <3>2
    <3>4. m.email = got[r].email /\ User(m.code) = u
      BY <1>1, <3>2, <3>3 DEF ProofInv, CodesInv, Drawn
    <3>5. QED
      BY <3>1, <3>2, <3>3, <3>4 DEF Drawn
  <2>2. QED
    BY <2>1 DEF AddressWasProved
<1>2. ASSUME ProofInv PROVE CodeUsedOnce
  <2>1. ASSUME NEW q \in Req, NEW r \in Req, Op(q) = "verify", Op(r) = "verify",
               q # r, Done(q), Done(r), User(q) = User(r),
               plan[q].code = plan[r].code
        PROVE  Met(q, r)
    <3>1. q \notin past[r] /\ r \notin past[q]
      BY <1>2, <2>1 DEF ProofInv, OnceInv, Matches, Done
    <3>2. QED
      BY <2>1, <3>1 DEF Met, Done
  <2>2. QED
    BY <2>1 DEF CodeUsedOnce
<1>3. ProofInv => CodesProve
  BY <1>1, <1>2 DEF CodesProve
<1>4. QED
  BY <1>3, ProofInvariant, PTL

\* A stored code goes when it expires, when the next one replaces it, or when
\* a verification deletes it that typed it or met the request which stored it.
THEOREM NewCodeStays == Spec => NewCodeSurvives
<1>1. ASSUME ProofInv, [Next]_accountVars,
             NEW u \in DOMAIN codes \ DOMAIN codes', pc' # pc
      PROVE  \E r \in Req : /\ pc[r] # pc'[r] /\ Op(r) = "verify"
                            /\ User(r) = u
                            /\ \/ plan[r].code = codes[u].code
                               \/ Met(r, codes[u].code)
  <2>1. DataInv /\ RequestInv /\ StageInv /\ CodesInv /\ VerifyInv
    BY <1>1 DEF ProofInv, DataInv
  <2>2. PICK r \in Req : Handle(r)
    BY <1>1 DEF Next, ExpireCode, Tick, Fail, accountVars, requestVars
  <2>3. DeleteVerificationCode(r) /\ u = User(r)
    BY <1>1, <2>1, <2>2, CodesKept
  <2>4. pc[r] = "delete" /\ pc'[r] = "commit"
    BY <2>1, <2>3, StepGoes DEF DeleteVerificationCode
  <2>5. Op(r) = "verify"
    BY <2>1, <2>4 DEF StageInv, StageOps
  <2>6. \/ codes[u].code = plan[r].code
        \/ codes[u].code \notin past[r]
    BY <1>1, <2>1, <2>3, <2>4, <2>5 DEF VerifyInv, Matches
  <2>7. PICK c : c = codes[u].code
    OBVIOUS
  <2>8. c \in Req /\ Op(c) = "sendCode" /\ pc[c] # "idle"
    BY <1>1, <2>1, <2>7 DEF CodesInv, Drawn
  <2>9. r # c /\ pc[r] # "idle" /\ ~Ended(r)
    BY <2>4, <2>5, <2>8 DEF Ended, Ends
  <2>10. c \notin past[r] => Met(r, c)
    BY <2>1, <2>8, <2>9, RunningMeet
  <2>11. QED
    BY <2>3, <2>4, <2>5, <2>6, <2>7, <2>10
<1>2. ProofInv /\ [Next]_accountVars =>
        [\A u \in DOMAIN codes \ DOMAIN codes' :
           \/ pc' = pc
           \/ \E r \in Req : /\ pc[r] # pc'[r] /\ Op(r) = "verify"
                             /\ User(r) = u
                             /\ \/ plan[r].code = codes[u].code
                                \/ Met(r, codes[u].code)]_accountVars
  BY <1>1
<1>3. QED
  BY <1>2, ProofInvariant, PTL DEF Spec, NewCodeSurvives

-----------------------------------------------------------------------------
(* Tokens carry the second they were signed in.                            *)

TokenStages == {"sign", "store", "answer", "done"}

\* r has loaded the user it gives tokens to.
InSession(r) == Op(r) \in TokenOps /\ pc[r] \in TokenStages

\* r has signed its tokens.
Signed(r) == Op(r) \in TokenOps /\ pc[r] \in TokenStages \ {"sign"}

TimeInv ==
  /\ \A u \in UserIds : db.users[u].token \in 0 .. now \cup {None}
  /\ \A r \in Req : pc[r] = "create" => got[r] = None
  /\ \A r \in Req : InSession(r) =>
       got[r] \in Session /\ got[r].token \in 0 .. now \cup {None}
  /\ \A r \in Req : Signed(r) =>
       /\ got[r].new \in 0 .. now
       /\ got[r].token # None => got[r].token <= got[r].new
       /\ \A q \in past[r] : Signed(q) => got[q].new <= got[r].new

\* Who exchanges a token got it in an answer, or had it at the start.
RefreshInv ==
  \A r \in Req : Op(r) = "refresh" /\ InSession(r) =>
    /\ got[r].user = User(r) /\ got[r].token = Presented(r)
    /\ plan[r].held # 0 => plan[r].held \in Req /\ Done(plan[r].held)

-----------------------------------------------------------------------------
(* The stored token is the one handed out last.                            *)

\* Another request for tokens of the user, or one that failed, did not end
\* before r arrived.
Disturbed(r) ==
  \E q \in Req : /\ q # r /\ pc[q] # "idle" /\ q \notin past[r]
                 /\ TokenUse(q, got[r].user) \/ pc[q] = "failed"

HeldInv ==
  \A r \in Req : InSession(r) /\ ~Disturbed(r) =>
    db.users[got[r].user].token =
      IF pc[r] \in {"sign", "store"} THEN got[r].token ELSE got[r].new

-----------------------------------------------------------------------------
(* No token is exchanged twice.                                            *)

\* The exchange q met another request for tokens of the user, or one that
\* failed.
Excused(q) ==
  \E s \in Req : Met(q, s) /\ (TokenUse(s, User(q)) \/ pc[s] = "failed")

Exchanged(q) == Op(q) = "refresh" /\ Done(q)

\* While the user is live the stored token is as new as the one q answered.
SpentInv ==
  \A q \in Req : Exchanged(q) /\ ~Excused(q) /\ db.users[User(q)].live =>
    db.users[User(q)].token # None /\ got[q].new <= db.users[User(q)].token

OnceTokenInv ==
  \A q, r \in Req :
    /\ Exchanged(q) /\ Op(r) = "refresh" /\ InSession(r)
    /\ q \in past[r] /\ User(q) = User(r) /\ Presented(q) = Presented(r)
    => got[q].new = Presented(q) \/ Excused(q)

TokenInv == DataInv /\ TimeInv /\ RefreshInv /\ HeldInv /\ SpentInv /\ OnceTokenInv

LEMMA TokenStart == Init => TokenInv
<1> SUFFICES ASSUME Init PROVE TokenInv
  OBVIOUS
<1>1. db = StartDb /\ now = 0 /\ \A r \in Req : pc[r] = "idle"
  BY DEF Init, RequestsInit
<1>2. \A r \in Req : ~InSession(r) /\ ~Signed(r) /\ ~Done(r) /\ pc[r] # "create"
  BY <1>1 DEF InSession, Signed, TokenStages, Done
<1>3. TimeInv
  <2>1. \A u \in UserIds : db.users[u].token \in {0, None}
    BY <1>1, StartAssumption DEF UserIds
  <2>2. QED
    BY <1>1, <1>2, <2>1 DEF TimeInv
<1>4. RefreshInv /\ HeldInv /\ SpentInv /\ OnceTokenInv
  BY <1>2 DEF RefreshInv, HeldInv, SpentInv, OnceTokenInv, Exchanged
<1>5. QED
  BY <1>3, <1>4, DataStart DEF TokenInv

LEMMA SessionIsSome ==
  ASSUME DataInv, NEW g \in Session
  PROVE  g # None /\ g.user \in UserIds
<1>1. db.users \in Seq(UserRow(Writers)) /\ StoreInv
  BY TableTypes DEF DataInv, StoreInv
<1>2. UserIds \subseteq Nat /\ 0 .. Horizon \subseteq Nat
  BY <1>1, AccountAssumption DEF UserIds
<1>3. Session \subseteq [user: Nat, token: Nat \cup {None}, new: Nat \cup {None}]
  BY <1>2 DEF Session
<1>4. QED
  BY <1>3, NoneAssumption DEF Session

LEMMA TokensGo ==
  ASSUME DataInv, NEW r \in Req, Handle(r), Op(r) \in TokenOps
  PROVE  /\ pc'[r] = "create" => got'[r] = None
         /\ pc'[r] = "sign" =>
              \/ /\ pc[r] = "idle" /\ db' = db
                 /\ \E u \in LiveRows(db.users) :
                      /\ got'[r] = Loaded(u)
                      /\ Op(r) = "refresh" =>
                           /\ u = User(r) /\ Holds(r)
                           /\ db.users[u].token = Presented(r)
              \/ /\ pc[r] = "create" /\ CreateUser(r) /\ Op(r) = "signUp"
                 /\ got'[r] = [user |-> Len(db.users) + 1, token |-> None,
                               new |-> None]
         /\ pc'[r] = "store" =>
              /\ pc[r] = "sign" /\ db' = db /\ got[r] \in Session
              /\ got'[r].user = got[r].user /\ got'[r].token = got[r].token
              /\ got'[r].new = now /\ got'[r] \in Session
         /\ pc'[r] = "answer" =>
              pc[r] = "store" /\ got'[r] = got[r] /\ StoreToken(r)
         /\ pc'[r] = "done" =>
              pc[r] = "answer" /\ got'[r] = got[r] /\ db' = db
         /\ pc'[r] \in {"create", "refused"} \cup TokenStages
         /\ pc'[r] \in {"create", "refused"} => pc[r] = "idle"
         /\ pc[r] \in {"idle", "create", "sign", "store", "answer"}
<1>1. RequestInv /\ StageInv /\ GotInv /\ StoreInv
  BY DEF DataInv
<1>2. \/ SignUp(r) \/ CreateUser(r) \/ SignIn(r) \/ Refresh(r)
      \/ SignTokens(r) \/ StoreToken(r) \/ Answer(r)
  BY <1>1, HandleFollows DEF Follows
<1>3. CASE SignUp(r) \/ SignIn(r)
  <2>1. db' = db /\ Op(r) # "refresh" /\ pc[r] = "idle"
    BY <1>3 DEF SignUp, SignIn, FindPerson, NoWrite, Step, Refuse
  <2>2. \/ pc'[r] \in {"create", "refused"} /\ got'[r] = None
        \/ /\ pc'[r] = "sign"
           /\ \E u \in LiveRows(db.users) : got'[r] = Loaded(u)
    BY <1>1, <1>3 DEF SignUp, SignIn, FindPerson, AnyOf, Refuse, Step, RequestInv,
       FindByProviderId
  <2>3. QED
    BY <2>1, <2>2 DEF TokenStages
<1>4. CASE CreateUser(r)
  <2>1. /\ pc[r] = "create" /\ pc'[r] = "sign"
        /\ got'[r] = [user |-> Len(db.users) + 1, token |-> None, new |-> None]
    BY <1>1, <1>4, StepGoes DEF CreateUser
  <2>2. Op(r) = "signUp"
    BY <1>1, <2>1 DEF StageInv, StageOps
  <2>3. QED
    BY <1>4, <2>1, <2>2 DEF TokenStages
<1>5. CASE Refresh(r)
  <2>1. db' = db /\ Holds(r) /\ pc[r] = "idle"
    BY <1>5 DEF Refresh, NoWrite, Step, Refuse
  <2>2. \/ pc'[r] = "refused"
        \/ /\ pc'[r] = "sign" /\ got'[r] = Loaded(User(r))
           /\ User(r) \in LiveRows(db.users)
           /\ db.users[User(r)].token = Presented(r)
    BY <1>1, <1>5 DEF Refresh, Refuse, Step, RequestInv, ValidToken, FindById
  <2>3. QED
    BY <2>1, <2>2 DEF TokenStages
<1>6. CASE SignTokens(r)
  <2>1. /\ pc[r] = "sign" /\ pc'[r] = "store" /\ db' = db
        /\ got'[r] = [got[r] EXCEPT !["new"] = now]
    BY <1>1, <1>6, StepGoes DEF SignTokens, NoWrite
  <2>2. got[r] \in Session /\ now \in 0 .. Horizon
    BY <1>1, <2>1 DEF GotInv, GotOk, StoreInv
  <2>3. /\ got'[r].user = got[r].user /\ got'[r].token = got[r].token
        /\ got'[r].new = now /\ got'[r] \in Session
    BY <2>1, <2>2 DEF Session
  <2>4. QED
    BY <2>1, <2>2, <2>3 DEF TokenStages
<1>7. CASE StoreToken(r)
  <2>1. pc[r] = "store" /\ pc'[r] = "answer" /\ got'[r] = got[r]
    BY <1>1, <1>7, StepGoes DEF StoreToken
  <2>2. QED
    BY <1>7, <2>1 DEF TokenStages
<1>8. CASE Answer(r)
  <2>1. pc[r] = "answer" /\ pc'[r] = "done" /\ got'[r] = got[r] /\ db' = db
    BY <1>1, <1>8, StepGoes DEF Answer, NoWrite
  <2>2. QED
    BY <2>1 DEF TokenStages
<1>9. QED
  BY <1>2, <1>3, <1>4, <1>5, <1>6, <1>7, <1>8

LEMMA TimeHandle ==
  ASSUME TokenInv, NEW r \in Req, Handle(r)
  PROVE  TimeInv'
<1>1. DataInv /\ RequestInv /\ StageInv /\ StoreInv /\ TimeInv
  BY DEF TokenInv, DataInv
<1>2. /\ Moves(r) /\ Req' = Req /\ plan' = plan /\ UserIds \subseteq UserIds'
      /\ now' = now /\ DataInv'
  BY <1>1, HandleData, HandleWrites DEF Moves
<1>3. ASSUME NEW q \in Req, q # r
      PROVE  pc'[q] = pc[q] /\ got'[q] = got[q] /\ past'[q] = past[q]
  BY <1>1, <1>2, <1>3, OthersStay
<1>4. Session \subseteq Session' /\ now \in Nat
  BY <1>1, <1>2, AccountAssumption DEF Session, StoreInv
<1>5. ASSUME NEW u \in UserIds' PROVE db'.users[u].token \in 0 .. now \cup {None}
  <2>1. CASE u \in UserIds
    <3>1. StoreToken(r) => got[r].new \in 0 .. now
      <4>1. StoreToken(r) => pc[r] = "store"
        BY DEF StoreToken, Step
      <4>2. pc[r] = "store" => Signed(r)
        BY <1>1 DEF StageInv, StageOps, Signed, TokenStages
      <4>3. QED
        BY <1>1, <4>1, <4>2 DEF TimeInv
    <3>2. db.users[u].token \in 0 .. now \cup {None}
      BY <1>1, <2>1 DEF TimeInv
    <3>3. QED
      BY <1>1, <2>1, <3>1, <3>2, UsersKept
  <2>2. CASE u \notin UserIds
    <3>1. PICK row : /\ db'.users[u] = row
                     /\ row = [person |-> plan[r].person, nick |-> plan[r].nick,
                               token |-> None, email |-> None, live |-> TRUE,
                               by |-> r]
      BY <1>1, <1>5, <2>2, NewUsers
    <3>2. QED
      BY <3>1
  <2>3. QED
    BY <2>1, <2>2
<1>6. ASSUME NEW q \in Req, pc'[q] = "create" PROVE got'[q] = None
  <2>1. CASE q = r
    <3>1. Op(r) \in TokenOps
      BY <1>2, <1>6, <2>1 DEF DataInv, StageInv, StageOps, TokenOps, Op
    <3>2. QED
      BY <1>1, <1>6, <2>1, <3>1, TokensGo
  <2>2. QED
    BY <1>1, <1>3, <1>6, <2>1 DEF TimeInv
<1>7. ASSUME NEW q \in Req, Op(q) \in TokenOps, pc'[q] \in TokenStages
      PROVE  got'[q] \in Session' /\ got'[q].token \in 0 .. now \cup {None}
  <2>1. CASE q # r
    BY <1>1, <1>3, <1>4, <1>7, <2>1 DEF TimeInv, InSession
  <2>2. CASE q = r /\ pc'[r] = "sign"
    <3>1. got'[r] \in Session'
      BY <1>2, <2>2 DEF DataInv, GotInv, GotOk
    <3>2. CASE \E u \in LiveRows(db.users) : got'[r] = Loaded(u)
      BY <1>1, <2>2, <3>1, <3>2 DEF TimeInv, Loaded, LiveRows, UserIds
    <3>3. CASE got'[r] = [user |-> Len(db.users) + 1, token |-> None, new |-> None]
      BY <2>2, <3>1, <3>3
    <3>4. QED
      BY <1>1, <1>7, <2>2, <3>2, <3>3, TokensGo
  <2>3. CASE q = r /\ pc'[r] # "sign"
    <3>1. /\ InSession(r) /\ got'[r].token = got[r].token
          /\ got'[r] \in Session \/ got'[r] = got[r]
      BY <1>1, <1>7, <2>3, TokensGo DEF InSession, TokenStages
    <3>2. QED
      BY <1>1, <1>4, <2>3, <3>1 DEF TimeInv
  <2>4. QED
    BY <2>1, <2>2, <2>3
<1>8. ASSUME NEW q \in Req, Op(q) \in TokenOps, pc'[q] \in TokenStages \ {"sign"}
      PROVE  /\ got'[q].new \in 0 .. now
             /\ got'[q].token # None => got'[q].token <= got'[q].new
             /\ q = r => /\ pc[r] # "idle" /\ past'[r] = past[r]
                         /\ \/ Signed(r) /\ got'[r] = got[r]
                            \/ got'[r].new = now
  <2>1. CASE q # r
    BY <1>1, <1>3, <1>8, <2>1 DEF TimeInv, Signed
  <2>2. CASE q = r /\ pc'[r] = "store"
    <3>1. /\ pc[r] = "sign" /\ got'[r].token = got[r].token /\ got'[r].new = now
      BY <1>1, <1>8, <2>2, TokensGo
    <3>2. got[r].token \in 0 .. now \cup {None}
      BY <1>1, <1>8, <2>2, <3>1 DEF TimeInv, InSession, TokenStages
    <3>3. past'[r] = past[r]
      BY <1>1, <1>2, <3>1, PastStays
    <3>4. QED
      BY <1>4, <2>2, <3>1, <3>2, <3>3
  <2>3. CASE q = r /\ pc'[r] # "store"
    <3>1. Signed(r) /\ got'[r] = got[r]
      BY <1>1, <1>8, <2>3, TokensGo DEF Signed, TokenStages
    <3>2. past'[r] = past[r] /\ pc[r] # "idle"
      BY <1>1, <1>2, <3>1, PastStays DEF Signed, TokenStages
    <3>3. QED
      BY <1>1, <2>3, <3>1, <3>2 DEF TimeInv
  <2>4. QED
    BY <2>1, <2>2, <2>3
<1>9. ASSUME NEW q \in Req, Op(q) \in TokenOps, pc'[q] \in TokenStages \ {"sign"},
             NEW p \in past'[q], Op(p) \in TokenOps, pc'[p] \in TokenStages \ {"sign"}
      PROVE  got'[p].new <= got'[q].new
  <2>1. past'[q] = past[q]
    BY <1>3, <1>8, <1>9
  <2>2. p \in Req /\ Ended(p)
    BY <1>1, <2>1 DEF RequestInv
  <2>3. p # r /\ pc'[p] = pc[p] /\ got'[p] = got[p]
    BY <1>1, <1>2, <2>2, EndedStays
  <2>4. Signed(p) /\ got[p].new \in 0 .. now
    BY <1>1, <1>9, <2>2, <2>3 DEF Signed, TimeInv
  <2>5. CASE Signed(q) /\ got'[q] = got[q]
    BY <1>1, <2>1, <2>3, <2>4, <2>5 DEF TimeInv
  <2>6. CASE got'[q].new = now
    BY <1>4, <2>3, <2>4, <2>6
  <2>7. QED
    BY <1>3, <1>8, <1>9, <2>5, <2>6 DEF Signed
<1>10. QED
  BY <1>2, <1>5, <1>6, <1>7, <1>8, <1>9 DEF TimeInv, InSession, Signed, Op

LEMMA RefreshHandle ==
  ASSUME TokenInv, NEW r \in Req, Handle(r)
  PROVE  RefreshInv'
<1>1. DataInv /\ RequestInv /\ StageInv /\ RefreshInv
  BY DEF TokenInv, DataInv
<1>2. Moves(r) /\ Req' = Req /\ plan' = plan
  BY <1>1, HandleData DEF Moves
<1>3. ASSUME NEW p \in Req, Done(p) PROVE pc'[p] = "done" /\ got'[p] = got[p]
  BY <1>1, <1>2, <1>3, EndedStays DEF Done, Ended, Ends
<1>4. ASSUME NEW q \in Req, plan[q].held # 0 =>
                              plan[q].held \in Req /\ Done(plan[q].held)
      PROVE  /\ plan[q].held # 0 => Done(plan[q].held)'
             /\ Presented(q)' = Presented(q)
  BY <1>2, <1>3, <1>4 DEF Presented, User, Done
<1>5. ASSUME NEW q \in Req, Op(q) = "refresh", pc'[q] \in TokenStages
      PROVE  /\ got'[q].user = User(q) /\ got'[q].token = Presented(q)
             /\ plan[q].held # 0 => plan[q].held \in Req /\ Done(plan[q].held)
  <2>1. CASE q # r
    <3>1. pc'[q] = pc[q] /\ got'[q] = got[q]
      BY <1>1, <1>2, <2>1, OthersStay
    <3>2. QED
      BY <1>1, <1>5, <3>1 DEF RefreshInv, InSession, TokenOps
  <2>2. CASE q = r /\ pc'[r] = "sign"
    <3>1. /\ got'[r] = Loaded(User(r)) /\ Holds(r)
          /\ db.users[User(r)].token = Presented(r)
      BY <1>1, <1>5, <2>2, TokensGo DEF TokenOps
    <3>2. QED
      BY <2>2, <3>1 DEF Loaded, Holds
  <2>3. CASE q = r /\ pc'[r] # "sign"
    <3>1. /\ InSession(r) /\ got'[r].token = got[r].token
          /\ got'[r].user = got[r].user
      BY <1>1, <1>5, <2>3, TokensGo DEF InSession, TokenStages, TokenOps
    <3>2. QED
      BY <1>1, <1>5, <2>3, <3>1 DEF RefreshInv
  <2>4. QED
    BY <2>1, <2>2, <2>3
<1>6. QED
  BY <1>2, <1>4, <1>5 DEF RefreshInv, InSession, Op, User, Done

\* Who asks for tokens of a user goes on doing so, or fails.
LEMMA TokenUseStays ==
  ASSUME DataInv, TimeInv, NEW r \in Req, Handle(r) \/ Fail(r),
         NEW q \in Req, NEW u, pc[q] # "idle", TokenUse(q, u) \/ pc[q] = "failed"
  PROVE  TokenUse(q, u)' \/ pc'[q] = "failed"
<1>1. RequestInv /\ StageInv
  BY DEF DataInv
<1>2. Moves(r) /\ plan' = plan /\ Req' = Req /\ DataInv'
  BY HandleData, FailData DEF Moves
<1>3. CASE q # r
  <2>1. pc'[q] = pc[q] /\ got'[q] = got[q]
    BY <1>1, <1>2, <1>3, OthersStay
  <2>2. QED
    BY <1>2, <2>1 DEF TokenUse, Op, User
<1>4. CASE q = r /\ Fail(r)
  BY <1>4, FailData
<1>5. CASE q = r /\ Handle(r)
  <2>1. pc[r] \notin Ends
    BY <1>2 DEF Moves
  <2>2. CASE Op(r) \in {"refresh", "withdraw"} /\ User(r) = u
    BY <1>2, <1>5, <2>2 DEF TokenUse, Op, User
  <2>3. CASE Op(r) \in TokenOps /\ got[r] # None /\ got[r].user = u
    <3>1. pc[r] \in {"sign", "store", "answer"}
      BY <1>5, <2>1, <2>3, TokensGo DEF TimeInv
    <3>2. got[r] \in Session
      BY <2>3, <3>1 DEF TimeInv, InSession, TokenStages
    <3>3. pc'[r] \notin {"create", "refused", "sign"}
      BY <1>5, <2>3, <3>1, TokensGo
    <3>4. got'[r] \in Session /\ got'[r].user = u
      BY <1>5, <2>3, <3>2, <3>3, TokensGo DEF TokenStages
    <3>5. got'[r] # None
      BY <3>4, SessionIsSome
    <3>6. QED
      BY <1>2, <1>5, <2>3, <3>4, <3>5 DEF TokenUse, Op, TokenOps
  <2>4. QED
    BY <1>5, <2>1, <2>2, <2>3 DEF TokenUse, TokenOps, Ends
<1>6. QED
  BY <1>3, <1>4, <1>5

LEMMA DisturbedStays ==
  ASSUME DataInv, TimeInv, NEW r \in Req, Handle(r) \/ Fail(r),
         NEW p \in Req, pc[p] # "idle", got'[p].user = got[p].user, Disturbed(p)
  PROVE  Disturbed(p)'
<1>1. RequestInv /\ Moves(r) /\ Req' = Req
  BY HandleData, FailData DEF DataInv
<1>2. PICK q \in Req : /\ q # p /\ pc[q] # "idle" /\ q \notin past[p]
                       /\ TokenUse(q, got[p].user) \/ pc[q] = "failed"
  BY DEF Disturbed
<1>3. past'[p] = past[p] /\ pc'[q] # "idle"
  BY <1>1, <1>2, PastStays
<1>4. PICK u : u = got[p].user
  OBVIOUS
<1>5. TokenUse(q, u)' \/ pc'[q] = "failed"
  BY <1>2, <1>4, TokenUseStays
<1>6. TokenUse(q, got[p].user)' \/ pc'[q] = "failed"
  BY <1>4, <1>5 DEF TokenUse
<1>7. QED
  BY <1>1, <1>2, <1>3, <1>6 DEF Disturbed

LEMMA ExcusedStays ==
  ASSUME DataInv, TimeInv, NEW r \in Req, Handle(r) \/ Fail(r),
         NEW q \in Req, Excused(q)
  PROVE  Excused(q)'
<1>1. RequestInv /\ Moves(r) /\ Req' = Req /\ plan' = plan
  BY HandleData, FailData DEF DataInv, Moves
<1>2. PICK s \in Req : Met(q, s) /\ (TokenUse(s, User(q)) \/ pc[s] = "failed")
  BY DEF Excused
<1>3. Met(q, s)' /\ pc[s] # "idle"
  BY <1>1, <1>2, MetStays DEF Met
<1>4. PICK u : u = User(q)
  OBVIOUS
<1>5. TokenUse(s, u)' \/ pc'[s] = "failed"
  BY <1>2, <1>3, <1>4, TokenUseStays
<1>6. TokenUse(s, User(q))' \/ pc'[s] = "failed"
  BY <1>1, <1>4, <1>5 DEF TokenUse, User
<1>7. QED
  BY <1>1, <1>3, <1>6 DEF Excused

LEMMA HeldHandle ==
  ASSUME TokenInv, NEW r \in Req, Handle(r)
  PROVE  HeldInv'
<1>1. DataInv /\ RequestInv /\ StageInv /\ GotInv /\ TimeInv /\ HeldInv
  BY DEF TokenInv, DataInv
<1>2. Moves(r) /\ Req' = Req /\ plan' = plan /\ UserIds \subseteq UserIds'
  BY <1>1, HandleData DEF Moves
<1>3. ASSUME NEW p \in Req, InSession(p)', ~Disturbed(p)'
      PROVE  db'.users[got'[p].user].token =
               IF pc'[p] \in {"sign", "store"} THEN got'[p].token ELSE got'[p].new
  <2>1. Op(p) \in TokenOps /\ pc'[p] \in TokenStages
    BY <1>2, <1>3 DEF InSession, Op
  <2>2. CASE p # r
    <3>1. pc'[p] = pc[p] /\ got'[p] = got[p] /\ past'[p] = past[p]
      BY <1>1, <1>2, <2>2, OthersStay
    <3>2. InSession(p) /\ pc[p] # "idle"
      BY <2>1, <3>1 DEF InSession, TokenStages
    <3>3. ~Disturbed(p)
      BY <1>1, <1>3, <3>1, <3>2, DisturbedStays
    <3>4. PICK u \in UserIds : u = got[p].user
      BY <1>1, <3>2, SessionIsSome DEF TimeInv
    <3>5. db.users[u].token =
            IF pc[p] \in {"sign", "store"} THEN got[p].token ELSE got[p].new
      BY <1>1, <3>2, <3>3, <3>4 DEF HeldInv
    <3>6. ASSUME TokenUse(r, u)' PROVE FALSE
      <4>1. TokenUse(r, got[p].user)'
        BY <3>1, <3>4, <3>6 DEF TokenUse
      <4>2. pc'[r] # "idle" /\ r \notin past'[p]
        BY <1>1, <1>2, <3>1 DEF Moves, RequestInv, Ended
      <4>3. QED
        BY <1>2, <1>3, <2>2, <4>1, <4>2 DEF Disturbed
    <3>7. ~(StoreToken(r) /\ u = got[r].user)
      <4>1. SUFFICES ASSUME StoreToken(r), u = got[r].user PROVE FALSE
        OBVIOUS
      <4>2. pc[r] = "store" /\ got'[r] = got[r]
        BY <1>1, <4>1, StepGoes DEF StoreToken
      <4>3. Op(r) \in TokenOps /\ got[r] \in Session
        BY <1>1, <4>2 DEF StageInv, StageOps, GotInv, GotOk
      <4>4. got[r] # None
        BY <1>1, <4>3, SessionIsSome
      <4>5. QED
        BY <1>2, <3>6, <4>1, <4>2, <4>3, <4>4 DEF TokenUse, TokenOps, Op
    <3>8. ~(Withdraw(r) /\ u = User(r))
      <4>1. SUFFICES ASSUME Withdraw(r), u = User(r) PROVE FALSE
        OBVIOUS
      <4>2. Op(r) = "withdraw"
        BY <1>1, <4>1 DEF Withdraw, Step, StageInv, StageOps
      <4>3. QED
        BY <1>2, <3>6, <4>1, <4>2 DEF TokenUse, Op, User
    <3>9. db'.users[u].token = db.users[u].token
      BY <1>1, <3>7, <3>8, UsersKept
    <3>10. QED
      BY <3>1, <3>4, <3>5, <3>9
  <2>3. CASE p = r /\ pc'[r] = "sign"
    <3>1. CASE db' = db /\ \E u \in LiveRows(db.users) : got'[r] = Loaded(u)
      BY <2>3, <3>1 DEF Loaded
    <3>2. CASE /\ CreateUser(r)
               /\ got'[r] = [user |-> Len(db.users) + 1, token |-> None,
                             new |-> None]
      <4>1. PICK row : row = [person |-> plan[r].person, nick |-> plan[r].nick,
                              token |-> None, email |-> None, live |-> TRUE,
                              by |-> r]
        OBVIOUS
      <4>2. db'.users = Append(db.users, row)
        BY <1>1, <3>2, <4>1 DEF CreateUser, Store, DataInv, StoreInv, Tables
      <4>3. db.users \in Seq(UserRow(Writers))
        BY <1>1, TableTypes DEF DataInv, StoreInv
      <4>4. db'.users[Len(db.users) + 1] = row
        BY <4>2, <4>3
      <4>5. QED
        BY <2>3, <3>2, <4>1, <4>4
    <3>3. QED
      BY <1>1, <2>1, <2>3, <3>1, <3>2, TokensGo
  <2>4. CASE p = r /\ pc'[r] # "sign"
    <3>1. /\ InSession(r) /\ pc[r] # "idle"
          /\ got'[r].user = got[r].user /\ got'[r].token = got[r].token
          /\ pc'[r] = "store" => pc[r] = "sign" /\ db' = db
          /\ pc'[r] = "answer" => pc[r] = "store" /\ got'[r] = got[r] /\ StoreToken(r)
          /\ pc'[r] = "done" => pc[r] = "answer" /\ got'[r] = got[r] /\ db' = db
      BY <1>1, <2>1, <2>4, TokensGo DEF InSession, TokenStages
    <3>2. ~Disturbed(r)
      BY <1>1, <1>3, <2>4, <3>1, DisturbedStays
    <3>3. PICK u \in UserIds : u = got[r].user
      BY <1>1, <3>1, SessionIsSome DEF TimeInv
    <3>4. db.users[u].token =
            IF pc[r] \in {"sign", "store"} THEN got[r].token ELSE got[r].new
      BY <1>1, <3>1, <3>2, <3>3 DEF HeldInv
    <3>5. CASE pc'[r] \in {"store", "done"}
      BY <2>4, <3>1, <3>3, <3>4, <3>5
    <3>6. CASE pc'[r] = "answer"
      <4>1. ~Withdraw(r)
        BY <3>1, <3>6 DEF Withdraw, Step
      <4>2. db'.users[u].token = got[r].new
        BY <1>1, <3>1, <3>3, <3>4, <3>6, <4>1, UsersKept
      <4>3. QED
        BY <2>4, <3>1, <3>3, <3>6, <4>2
    <3>7. QED
      BY <2>1, <2>4, <3>5, <3>6 DEF TokenStages
  <2>5. QED
    BY <2>2, <2>3, <2>4
<1>4. QED
  BY <1>2, <1>3 DEF HeldInv

LEMMA SpentHandle ==
  ASSUME TokenInv, NEW r \in Req, Handle(r)
  PROVE  SpentInv'
<1>1. /\ DataInv /\ RequestInv /\ StageInv /\ GotInv /\ TimeInv /\ RefreshInv
      /\ HeldInv /\ SpentInv
  BY DEF TokenInv, DataInv
<1>2. Moves(r) /\ Req' = Req /\ plan' = plan /\ UserIds \subseteq UserIds'
  BY <1>1, HandleData DEF Moves
<1>3. ASSUME NEW q \in Req, Op(q) = "refresh", pc'[q] = "done", ~Excused(q)',
             db'.users[User(q)].live
      PROVE  /\ db'.users[User(q)].token # None
             /\ got'[q].new <= db'.users[User(q)].token
  <2>1. ~Excused(q)
    BY <1>1, <1>3, ExcusedStays
  <2>2. CASE q = r
    <3>1. pc[r] = "answer" /\ got'[r] = got[r] /\ db' = db
      BY <1>1, <1>3, <2>2, TokensGo DEF TokenOps
    <3>2. InSession(r) /\ Signed(r)
      BY <1>3, <2>2, <3>1 DEF InSession, Signed, TokenStages, TokenOps
    <3>3. got[r].user = User(r) /\ got[r].new \in Nat
      BY <1>1, <1>3, <2>2, <3>2, <1>2 DEF RefreshInv, TimeInv
    <3>4. ~Disturbed(r)
      <4>1. SUFFICES ASSUME NEW s \in Req, s # r, pc[s] # "idle", s \notin past[r],
                            TokenUse(s, got[r].user) \/ pc[s] = "failed"
                     PROVE  FALSE
        BY DEF Disturbed
      <4>2. Met(r, s)
        BY <1>1, <3>1, <4>1, RunningMeet DEF Ended, Ends
      <4>3. TokenUse(s, User(r)) \/ pc[s] = "failed"
        BY <3>3, <4>1
      <4>4. QED
        BY <2>1, <2>2, <4>2, <4>3 DEF Excused
    <3>5. db.users[User(r)].token = got[r].new
      BY <1>1, <3>1, <3>2, <3>3, <3>4 DEF HeldInv
    <3>6. QED
      BY <2>2, <3>1, <3>3, <3>5, NoneAssumption
  <2>3. CASE q # r
    <3>1. pc[q] = "done" /\ got'[q] = got[q] /\ past'[q] = past[q]
      BY <1>1, <1>2, <1>3, <2>3, OthersStay
    <3>2. InSession(q) /\ Signed(q)
      BY <1>3, <3>1 DEF InSession, Signed, TokenStages, TokenOps
    <3>3. PICK u \in UserIds : u = User(q)
      BY <1>1, <1>3, <3>2, SessionIsSome DEF RefreshInv, TimeInv
    <3>4. db.users[u].live
      BY <1>1, <1>3, <3>3, UsersKept
    <3>5. db.users[u].token # None /\ got[q].new <= db.users[u].token
      BY <1>1, <1>3, <2>1, <3>1, <3>3, <3>4 DEF SpentInv, Exchanged, Done
    <3>6. CASE StoreToken(r) /\ u = got[r].user /\ got[r].new # got[r].token
      <4>1. pc[r] = "store"
        BY <3>6 DEF StoreToken, Step
      <4>2. Op(r) \in TokenOps /\ got[r] \in Session /\ Signed(r)
        BY <1>1, <4>1 DEF StageInv, StageOps, GotInv, GotOk, Signed, TokenStages
      <4>3. TokenUse(r, User(q))
        BY <1>1, <3>3, <3>6, <4>2, SessionIsSome DEF TokenUse, TokenOps
      <4>4. q \in past[r]
        <5>1. SUFFICES ASSUME q \notin past[r] PROVE FALSE
          OBVIOUS
        <5>2. Met(q, r)
          BY <1>1, <2>3, <3>1, <4>1, <5>1, RunningMeet DEF Ended, Ends
        <5>3. QED
          BY <2>1, <4>3, <5>2 DEF Excused
      <4>5. got[q].new <= got[r].new /\ got[r].new \in 0 .. now
        BY <1>1, <3>2, <4>2, <4>4 DEF TimeInv
      <4>6. db'.users[u].token = got[r].new
        BY <1>1, <3>6, UsersKept
      <4>7. got[r].new \in Nat
        BY <4>5
      <4>8. QED
        BY <3>1, <3>3, <4>5, <4>6, <4>7, NoneAssumption
    <3>7. CASE Withdraw(r) /\ u = User(r)
      BY <1>1, <1>3, <3>3, <3>7, UsersKept
    <3>8. CASE db'.users[u].token = db.users[u].token
      BY <3>1, <3>3, <3>5, <3>8
    <3>9. QED
      BY <1>1, <3>6, <3>7, <3>8, UsersKept
  <2>4. QED
    BY <2>2, <2>3
<1>4. QED
  BY <1>2, <1>3 DEF SpentInv, Exchanged, Op, User, Done

LEMMA OnceTokenHandle ==
  ASSUME TokenInv, NEW r \in Req, Handle(r)
  PROVE  OnceTokenInv'
<1>1. /\ DataInv /\ RequestInv /\ StageInv /\ StoreInv /\ TimeInv /\ RefreshInv
      /\ SpentInv /\ OnceTokenInv
  BY DEF TokenInv, DataInv
<1>2. Moves(r) /\ Req' = Req /\ plan' = plan
  BY <1>1, HandleData DEF Moves
<1>3. ASSUME NEW q \in Req, Done(q)
      PROVE  pc'[q] = "done" /\ got'[q] = got[q]
  BY <1>1, <1>2, <1>3, EndedStays DEF Done, Ended, Ends
\* The token that a refresh presents is the same from its arrival on.
<1>4. ASSUME NEW q \in Req, plan[q].held # 0 =>
                              plan[q].held \in Req /\ Done(plan[q].held)
      PROVE  Presented(q)' = Presented(q)
  BY <1>2, <1>3, <1>4 DEF Presented, User
<1>5. ASSUME NEW q \in Req, Op(q) = "refresh", InSession(q)
      PROVE  Presented(q)' = Presented(q)
  BY <1>1, <1>4, <1>5 DEF RefreshInv
<1>6. ASSUME NEW q \in Req, NEW p \in Req, Op(q) = "refresh", pc'[q] = "done",
             Op(p) = "refresh", pc'[p] \in TokenStages, q \in past'[p],
             User(q) = User(p), Presented(q)' = Presented(p)'
      PROVE  got'[q].new = Presented(q)' \/ Excused(q)'
  <2>1. CASE p = r /\ pc'[r] = "sign"
    <3>1. /\ pc[r] = "idle" /\ got'[r] = Loaded(User(r)) /\ Holds(r)
          /\ User(r) \in LiveRows(db.users)
          /\ db.users[User(r)].token = Presented(r)
      BY <1>1, <1>6, <2>1, TokensGo DEF TokenOps
    <3>2. q \in {s \in Req : Ended(s)}
      BY <1>1, <1>2, <1>6, <2>1, <3>1 DEF Moves, RequestInv
    <3>3. Done(q) /\ got'[q] = got[q]
      BY <1>1, <1>2, <1>6, <3>2, EndedStays DEF Done
    <3>4. InSession(q) /\ Signed(q)
      BY <1>6, <3>3 DEF InSession, Signed, TokenStages, TokenOps, Done
    <3>5. Presented(q)' = Presented(q) /\ Presented(r)' = Presented(r)
      BY <1>4, <1>5, <1>6, <3>1, <3>4 DEF Holds
    <3>6. CASE Excused(q)
      BY <1>1, <3>6, ExcusedStays
    <3>7. CASE ~Excused(q)
      <4>1. PICK t : t = Presented(q)
        OBVIOUS
      <4>2. t # None /\ got[q].new <= t
        <5>1. db.users[User(q)].live /\ db.users[User(q)].token = t
          BY <1>6, <2>1, <3>1, <3>5, <4>1 DEF LiveRows
        <5>2. QED
          BY <1>1, <1>6, <3>3, <3>7, <5>1 DEF SpentInv, Exchanged
      <4>3. got[q].token = t
        BY <1>1, <1>6, <3>4, <4>1 DEF RefreshInv
      <4>4. /\ got[q].new \in 0 .. now /\ t \in 0 .. now \cup {None}
            /\ t # None => t <= got[q].new
        BY <1>1, <3>4, <4>3 DEF TimeInv
      <4>5. now \in Nat
        BY <1>1, AccountAssumption DEF StoreInv
      <4>6. got[q].new = t
        BY <4>2, <4>4, <4>5
      <4>7. QED
        BY <3>3, <3>5, <4>1, <4>6
    <3>8. QED
      BY <3>6, <3>7
  <2>2. CASE p # r \/ pc'[r] # "sign"
    <3>1. InSession(p) /\ past'[p] = past[p]
      <4>1. CASE p # r
        BY <1>1, <1>2, <1>6, <4>1, OthersStay DEF InSession, TokenOps
      <4>2. CASE p = r /\ pc'[r] # "sign"
        <5>1. pc[r] \in TokenStages
          BY <1>1, <1>6, <4>2, TokensGo DEF TokenStages, TokenOps
        <5>2. past'[r] = past[r]
          BY <1>1, <1>2, <5>1, PastStays DEF TokenStages
        <5>3. QED
          BY <1>6, <4>2, <5>1, <5>2 DEF InSession, TokenOps
      <4>3. QED
        BY <2>2, <4>1, <4>2
    <3>2. Ended(q)
      BY <1>1, <1>6, <3>1 DEF RequestInv
    <3>3. Done(q) /\ got'[q] = got[q]
      BY <1>1, <1>2, <1>6, <3>2, EndedStays DEF Done
    <3>4. InSession(q)
      BY <1>6, <3>3 DEF InSession, TokenStages, TokenOps, Done
    <3>5. Presented(q)' = Presented(q) /\ Presented(p)' = Presented(p)
      BY <1>5, <1>6, <3>1, <3>4
    <3>6. got[q].new = Presented(q) \/ Excused(q)
      BY <1>1, <1>6, <3>1, <3>3, <3>5 DEF OnceTokenInv, Exchanged
    <3>7. Excused(q) => Excused(q)'
      BY <1>1, ExcusedStays
    <3>8. QED
      BY <3>3, <3>5, <3>6, <3>7
  <2>3. QED
    BY <2>1, <2>2
<1>7. QED
  BY <1>2, <1>6 DEF OnceTokenInv, Exchanged, InSession, Op, User, Done

LEMMA TokenFail ==
  ASSUME TokenInv, NEW r \in Req, Fail(r)
  PROVE  TokenInv'
<1>1. /\ DataInv /\ RequestInv /\ TimeInv /\ RefreshInv /\ HeldInv /\ SpentInv
      /\ OnceTokenInv
  BY DEF TokenInv, DataInv
<1>2. /\ DataInv' /\ Moves(r) /\ Req' = Req /\ plan' = plan
      /\ pc'[r] = "failed" /\ got'[r] = None /\ db' = db /\ UserIds' = UserIds
      /\ past' = past /\ now' = now
  BY <1>1, FailData DEF Moves, Fail, UserIds
<1>3. ASSUME NEW q \in Req, q # r
      PROVE  pc'[q] = pc[q] /\ got'[q] = got[q]
  BY <1>1, <1>2, <1>3, OthersStay
<1>4. ASSUME NEW q \in Req, InSession(q)'
      PROVE  q # r /\ InSession(q) /\ pc'[q] = pc[q] /\ got'[q] = got[q]
  BY <1>2, <1>3, <1>4 DEF InSession, TokenStages, Op
<1>5. ASSUME NEW q \in Req, Signed(q)'
      PROVE  q # r /\ Signed(q) /\ pc'[q] = pc[q] /\ got'[q] = got[q]
  BY <1>2, <1>3, <1>5 DEF Signed, TokenStages, Op
<1>6. ASSUME NEW q \in Req, Done(q)
      PROVE  pc'[q] = "done" /\ got'[q] = got[q]
  BY <1>1, <1>2, <1>6, EndedStays DEF Done, Ended, Ends
<1>7. ASSUME NEW q \in Req, Op(q) = "refresh", InSession(q)
      PROVE  Presented(q)' = Presented(q)
  BY <1>1, <1>2, <1>6, <1>7 DEF RefreshInv, Presented, User
<1>8. TimeInv'
  <2>1. Session' = Session
    BY <1>2 DEF Session
  <2>2. \A q \in Req : pc'[q] = "create" => got'[q] = None
    BY <1>1, <1>2, <1>3 DEF TimeInv
  <2>3. ASSUME NEW q \in Req, Signed(q)'
        PROVE  \A p \in past[q] : Signed(p)' => got'[p].new <= got'[q].new
    BY <1>1, <1>5, <2>3 DEF TimeInv, RequestInv
  <2>4. QED
    BY <1>1, <1>2, <1>4, <1>5, <2>1, <2>2, <2>3 DEF TimeInv
<1>9. RefreshInv'
  <2>1. ASSUME NEW q \in Req, Op(q) = "refresh", InSession(q)'
        PROVE  /\ got'[q].user = User(q) /\ got'[q].token = Presented(q)'
               /\ plan[q].held # 0 =>
                    plan[q].held \in Req /\ pc'[plan[q].held] = "done"
    BY <1>1, <1>4, <1>6, <1>7, <2>1 DEF RefreshInv
  <2>2. QED
    BY <1>2, <2>1 DEF RefreshInv, Op, User, Done
<1>10. HeldInv'
  <2>1. ASSUME NEW p \in Req, InSession(p)', ~Disturbed(p)'
        PROVE  InSession(p) /\ ~Disturbed(p) /\ pc'[p] = pc[p] /\ got'[p] = got[p]
    <3>1. InSession(p) /\ pc'[p] = pc[p] /\ got'[p] = got[p] /\ pc[p] # "idle"
      BY <1>4, <2>1 DEF InSession, TokenStages
    <3>2. QED
      BY <1>1, <2>1, <3>1, DisturbedStays
  <2>2. QED
    BY <1>1, <1>2, <2>1 DEF HeldInv
<1>11. ASSUME NEW q \in Req, Exchanged(q)'
       PROVE  Exchanged(q) /\ got'[q] = got[q] /\ InSession(q)
  BY <1>2, <1>3, <1>11 DEF Exchanged, Done, Op, InSession, TokenStages, TokenOps
<1>12. \A q \in Req : Excused(q) => Excused(q)'
  BY <1>1, ExcusedStays
<1>13. SpentInv'
  BY <1>1, <1>2, <1>11, <1>12 DEF SpentInv, User
<1>14. OnceTokenInv'
  <2>1. ASSUME NEW q \in Req, NEW p \in Req, Exchanged(q)', Op(p) = "refresh",
               InSession(p)', q \in past[p], User(q) = User(p),
               Presented(q)' = Presented(p)'
        PROVE  got'[q].new = Presented(q)' \/ Excused(q)'
    <3>1. /\ Exchanged(q) /\ got'[q] = got[q] /\ InSession(p)
          /\ Presented(q)' = Presented(q) /\ Presented(p)' = Presented(p)
      BY <1>4, <1>7, <1>11, <2>1 DEF Exchanged
    <3>2. QED
      BY <1>1, <1>12, <2>1, <3>1 DEF OnceTokenInv
  <2>2. QED
    BY <1>2, <2>1 DEF OnceTokenInv, Op, User
<1>15. QED
  BY <1>2, <1>8, <1>9, <1>10, <1>13, <1>14 DEF TokenInv

LEMMA TokenStep == TokenInv /\ [Next]_accountVars => TokenInv'
<1> SUFFICES ASSUME TokenInv, [Next]_accountVars PROVE TokenInv'
  OBVIOUS
<1>1. ASSUME \/ \E u \in DOMAIN codes : ExpireCode(u)
             \/ Tick \/ UNCHANGED accountVars
      PROVE  TokenInv'
  <2>1. DataInv /\ TimeInv /\ RefreshInv /\ HeldInv /\ SpentInv /\ OnceTokenInv
    BY DEF TokenInv
  <2>2. /\ DataInv' /\ UNCHANGED <<plan, pc, got, past, db>>
        /\ now' \in 0 .. Horizon /\ now <= now' /\ now \in 0 .. Horizon
        /\ Horizon \in Nat
    BY <1>1, <2>1, OtherData, AccountAssumption DEF requestVars, DataInv, StoreInv
  <2>3. 0 .. now \subseteq 0 .. now'
    BY <2>2
  <2>4. Session' = Session /\ Req' = Req /\ UserIds' = UserIds
    BY <2>2 DEF Session, UserIds, Req
  <2>5. \A q \in Req : /\ InSession(q)' = InSession(q) /\ Signed(q)' = Signed(q)
                       /\ Presented(q)' = Presented(q) /\ Done(q)' = Done(q)
                       /\ Exchanged(q)' = Exchanged(q)
    BY <2>2 DEF InSession, Signed, Presented, Done, Exchanged, Op, User
  <2>6. TimeInv'
    <3>1. \A u \in UserIds : db.users[u].token \in 0 .. now' \cup {None}
      BY <2>1, <2>3 DEF TimeInv
    <3>2. \A r \in Req : InSession(r) =>
            got[r] \in Session /\ got[r].token \in 0 .. now' \cup {None}
      BY <2>1, <2>3 DEF TimeInv
    <3>3. \A r \in Req : Signed(r) =>
            /\ got[r].new \in 0 .. now'
            /\ got[r].token # None => got[r].token <= got[r].new
            /\ \A q \in past[r] : Signed(q) => got[q].new <= got[r].new
      BY <2>1, <2>3 DEF TimeInv
    <3>4. \A r \in Req : \A q \in past[r] : q \in Req
      BY <2>1 DEF DataInv, RequestInv
    <3>5. \A r \in Req : pc[r] = "create" => got[r] = None
      BY <2>1 DEF TimeInv
    <3>6. QED
      BY <2>2, <2>4, <2>5, <3>1, <3>2, <3>3, <3>4, <3>5 DEF TimeInv
  <2>7. RefreshInv'
    BY <2>1, <2>2, <2>4, <2>5 DEF RefreshInv, Op, User, Done
  <2>8. \A q \in Req : Disturbed(q)' = Disturbed(q) /\ Excused(q)' = Excused(q)
    BY <2>2, <2>4 DEF Disturbed, Excused, TokenUse, Met, Op, User
  <2>9. HeldInv' /\ SpentInv'
    BY <2>1, <2>2, <2>4, <2>5, <2>8 DEF HeldInv, SpentInv, User
  <2>10. OnceTokenInv'
    BY <2>1, <2>2, <2>4, <2>5, <2>8 DEF OnceTokenInv, User, Op
  <2>11. QED
    BY <2>2, <2>6, <2>7, <2>9, <2>10 DEF TokenInv
<1>2. ASSUME NEW r \in Req, Handle(r) PROVE TokenInv'
  BY <1>2, HandleData, TimeHandle, RefreshHandle, HeldHandle, SpentHandle,
     OnceTokenHandle DEF TokenInv
<1>3. QED
  BY <1>1, <1>2, TokenFail DEF Next

\* The stored refresh token is the one that an undisturbed exchange holds, and
\* once exchanged a token is older than the stored one for good.
THEOREM TokenInvariant == Spec => []TokenInv
BY TokenStart, TokenStep, PTL DEF Spec

\* The stored token is the one handed out last, and none is exchanged twice,
\* but for the requests for tokens that met, or failed half-way.
THEOREM TokensTurn == Spec => []TokensRotate
<1>1. ASSUME TokenInv PROVE HeldTokenIsValid
  <2>1. ASSUME NEW r \in Req, Op(r) \in TokenOps, Done(r),
               ~\E q \in Req :
                  \/ /\ q # r /\ pc[q] # "idle" /\ q \notin past[r]
                     /\ TokenUse(q, got[r].user)
                  \/ pc[q] = "failed"
        PROVE  db.users[got[r].user].token = got[r].new
    <3>1. InSession(r) /\ pc[r] = "done"
      BY <2>1 DEF InSession, TokenStages, Done
    <3>2. ~Disturbed(r)
      BY <2>1 DEF Disturbed
    <3>3. QED
      BY <1>1, <3>1, <3>2 DEF TokenInv, HeldInv
  <2>2. QED
    BY <2>1 DEF HeldTokenIsValid, TokenOps
<1>2. ASSUME TokenInv PROVE OneExchangePerToken
  BY <1>2 DEF TokenInv, OnceTokenInv, OneExchangePerToken, Exchanged, Excused,
     InSession, TokenStages, TokenOps, Done
<1>3. TokenInv => TokensRotate
  BY <1>1, <1>2 DEF TokensRotate
<1>4. QED
  BY <1>3, TokenInvariant, PTL

-----------------------------------------------------------------------------
(***************************************************************************)
(* What the checks before an insert are worth without a unique key and     *)
(* without a lock: what they check holds of the rows of any requests, but  *)
(* for requests that met.                                                  *)
(***************************************************************************)

\* Two requests for a device token met.
Disputed(token) ==
  \E q, r \in Req : /\ Op(q) = "device" /\ Op(r) = "device" /\ Met(q, r)
                    /\ plan[q].token = token /\ plan[r].token = token

\* r has not found such a row in table t and is about to insert one.
Wants(r, t, row) ==
  \/ /\ t = "users" /\ pc[r] = "create"
     /\ row.person = plan[r].person
  \/ /\ t = "agreements" /\ pc[r] \in {"agreed", "agree"}
     /\ row.user = User(r)
     /\ \E i \in DOMAIN plan[r].terms : /\ pc[r] = "agreed" => i < got[r]
                                        /\ row.terms = plan[r].terms[i]
  \/ /\ t = "blocks" /\ pc[r] = "block"
     /\ row.user = User(r) /\ row.blocked = plan[r].blocked
  \/ /\ t = "blocks" /\ pc[r] = "report" /\ got[r]
     /\ row.user = User(r) /\ row.blocked = plan[r].target
  \/ /\ t = "reports" /\ pc[r] = "report"
     /\ row.user = User(r) /\ row.target = plan[r].target
  \/ /\ t = "regions" /\ pc[r] = "replace"
     /\ row.user = User(r) /\ row.region \in ToSet(plan[r].regions)
  \/ /\ t = "regions" /\ pc[r] = "insert"
     /\ row.user = User(r) /\ row.region = plan[r].region
  \/ /\ t = "devices" /\ pc[r] = "register"
     /\ row.token = plan[r].token

\* r has found row i and deletes it with its insert.
Replaces(r, t, i) ==
  /\ \/ t = "regions" /\ pc[r] = "replace"
     \/ t = "devices" /\ pc[r] = "register"
  /\ i \in got[r]

\* Why a row is there that r has not found, and why there are two rows alike.
Explained(r, t, i) ==
  IF t = "devices" THEN Disputed(plan[r].token)
  ELSE db[t][i].by \in Req /\ Met(db[t][i].by, r)

Justified(t, p) ==
  IF t = "devices" THEN Disputed(db[t][p[1]].token) ELSE InsertersMet(db[t], p)

FreshInv ==
  \A t \in DOMAIN Keys : \A r \in Req : \A i \in LiveRows(db[t]) :
    Wants(r, t, db[t][i]) /\ ~Replaces(r, t, i) => Explained(r, t, i)

TwinsInv == \A t \in DOMAIN Keys : \A p \in Twins(db[t], Keys[t]) : Justified(t, p)

\* The lists of ids that the handlers go through.
ListsInv ==
  \A r \in Req :
    /\ pc[r] = "replace" => \A i, j \in DOMAIN plan[r].regions :
         plan[r].regions[i] = plan[r].regions[j] => i = j
    /\ pc[r] = "agreed" => got[r] \in DOMAIN plan[r].terms

UniqueInv == DataInv /\ ListsInv /\ FreshInv /\ TwinsInv

-----------------------------------------------------------------------------

\* Two rows of table t say the same.
Alike(t, a, b) == \A f \in Keys[t] : a[f] = b[f]

LEMMA KeyFields ==
  ASSUME NEW us, NEW ws, NEW D \in Tables(us, ws), NEW t \in DOMAIN Keys
  PROVE  /\ Len(D[t]) \in Nat /\ DOMAIN D[t] = 1 .. Len(D[t])
         /\ t \in DOMAIN D
         /\ \A i \in DOMAIN D[t] :
              /\ Keys[t] \subseteq DOMAIN D[t][i] \ {"live", "primary"}
              /\ D[t][i].live \in BOOLEAN
<1>1. ASSUME NEW R, D[t] \in Seq(R),
             \A row \in R : /\ Keys[t] \subseteq DOMAIN row \ {"live", "primary"}
                            /\ row.live \in BOOLEAN
      PROVE  /\ Len(D[t]) \in Nat /\ DOMAIN D[t] = 1 .. Len(D[t])
             /\ \A i \in DOMAIN D[t] :
                  /\ Keys[t] \subseteq DOMAIN D[t][i] \ {"live", "primary"}
                  /\ D[t][i].live \in BOOLEAN
  <2>1. PICK rows : rows = D[t]
    OBVIOUS
  <2>2. rows \in Seq(R)
    BY <1>1, <2>1
  <2>3. /\ Len(rows) \in Nat /\ DOMAIN rows = 1 .. Len(rows)
        /\ \A i \in DOMAIN rows : rows[i] \in R
    BY <2>2
  <2>4. QED
    BY <1>1, <2>1, <2>3
<1>2. \A row \in UserRow(ws) : /\ {"person"} \subseteq DOMAIN row \ {"live", "primary"}
                              /\ row.live \in BOOLEAN
  BY DEF UserRow
<1>3. \A row \in InterestRegionRow(us, ws) :
        /\ {"user", "region"} \subseteq DOMAIN row \ {"live", "primary"}
        /\ row.live \in BOOLEAN
  BY DEF InterestRegionRow
<1>4. \A row \in UserAgreementRow(us, ws) :
        /\ {"user", "terms"} \subseteq DOMAIN row \ {"live", "primary"}
        /\ row.live \in BOOLEAN
  BY DEF UserAgreementRow
<1>5. \A row \in UserBlockRow(us, ws) :
        /\ {"user", "blocked"} \subseteq DOMAIN row \ {"live", "primary"}
        /\ row.live \in BOOLEAN
  BY DEF UserBlockRow
<1>6. \A row \in ReportRow(us, ws) :
        /\ {"user", "target"} \subseteq DOMAIN row \ {"live", "primary"}
        /\ row.live \in BOOLEAN
  BY DEF ReportRow
<1>7. \A row \in DeviceRow(us, ws) :
        /\ {"token"} \subseteq DOMAIN row \ {"live", "primary"}
        /\ row.live \in BOOLEAN
  BY DEF DeviceRow
<1>8. /\ Keys["users"] = {"person"} /\ Keys["regions"] = {"user", "region"}
      /\ Keys["agreements"] = {"user", "terms"}
      /\ Keys["blocks"] = {"user", "blocked"}
      /\ Keys["reports"] = {"user", "target"} /\ Keys["devices"] = {"token"}
      /\ t \in {"users", "regions", "agreements", "blocks", "reports", "devices"}
  BY DEF Keys
<1>9. /\ D["users"] \in Seq(UserRow(ws))
      /\ D["regions"] \in Seq(InterestRegionRow(us, ws))
      /\ D["agreements"] \in Seq(UserAgreementRow(us, ws))
      /\ D["blocks"] \in Seq(UserBlockRow(us, ws))
      /\ D["reports"] \in Seq(ReportRow(us, ws))
      /\ D["devices"] \in Seq(DeviceRow(us, ws))
      /\ DOMAIN D = {"users", "regions", "agreements", "blocks", "reports", "devices"}
  BY DEF Tables
<1>10. CASE t = "users"
  <2>1. D[t] \in Seq(UserRow(ws)) /\ Keys[t] = {"person"} /\ t \in DOMAIN D
    BY <1>8, <1>9, <1>10
  <2>2. \A row \in UserRow(ws) : /\ Keys[t] \subseteq DOMAIN row \ {"live", "primary"}
                              /\ row.live \in BOOLEAN
    BY <1>2, <2>1
  <2>3. QED
    BY <1>1, <2>1, <2>2
<1>11. CASE t = "regions"
  <2>1. D[t] \in Seq(InterestRegionRow(us, ws)) /\ Keys[t] = {"user", "region"} /\ t \in DOMAIN D
    BY <1>8, <1>9, <1>11
  <2>2. \A row \in InterestRegionRow(us, ws) : /\ Keys[t] \subseteq DOMAIN row \ {"live", "primary"}
                              /\ row.live \in BOOLEAN
    BY <1>3, <2>1
  <2>3. QED
    BY <1>1, <2>1, <2>2
<1>12. CASE t = "agreements"
  <2>1. D[t] \in Seq(UserAgreementRow(us, ws)) /\ Keys[t] = {"user", "terms"} /\ t \in DOMAIN D
    BY <1>8, <1>9, <1>12
  <2>2. \A row \in UserAgreementRow(us, ws) : /\ Keys[t] \subseteq DOMAIN row \ {"live", "primary"}
                              /\ row.live \in BOOLEAN
    BY <1>4, <2>1
  <2>3. QED
    BY <1>1, <2>1, <2>2
<1>13. CASE t = "blocks"
  <2>1. D[t] \in Seq(UserBlockRow(us, ws)) /\ Keys[t] = {"user", "blocked"} /\ t \in DOMAIN D
    BY <1>8, <1>9, <1>13
  <2>2. \A row \in UserBlockRow(us, ws) : /\ Keys[t] \subseteq DOMAIN row \ {"live", "primary"}
                              /\ row.live \in BOOLEAN
    BY <1>5, <2>1
  <2>3. QED
    BY <1>1, <2>1, <2>2
<1>14. CASE t = "reports"
  <2>1. D[t] \in Seq(ReportRow(us, ws)) /\ Keys[t] = {"user", "target"} /\ t \in DOMAIN D
    BY <1>8, <1>9, <1>14
  <2>2. \A row \in ReportRow(us, ws) : /\ Keys[t] \subseteq DOMAIN row \ {"live", "primary"}
                              /\ row.live \in BOOLEAN
    BY <1>6, <2>1
  <2>3. QED
    BY <1>1, <2>1, <2>2
<1>15. CASE t = "devices"
  <2>1. D[t] \in Seq(DeviceRow(us, ws)) /\ Keys[t] = {"token"} /\ t \in DOMAIN D
    BY <1>8, <1>9, <1>15
  <2>2. \A row \in DeviceRow(us, ws) : /\ Keys[t] \subseteq DOMAIN row \ {"live", "primary"}
                              /\ row.live \in BOOLEAN
    BY <1>7, <2>1
  <2>3. QED
    BY <1>1, <2>1, <2>2
<1>16. QED
  BY <1>8, <1>10, <1>11, <1>12, <1>13, <1>14, <1>15

LEMMA KeyTables == DOMAIN Keys = SweptTables \cup {"users"}
BY DEF Keys, SweptTables

\* A step leaves the rows there are saying what they say.
LEMMA RowsStay ==
  ASSUME DataInv, NEW r \in Req, Handle(r), NEW t \in DOMAIN Keys,
         NEW i \in DOMAIN db[t]
  PROVE  /\ i \in DOMAIN db'[t] /\ db'[t][i].by = db[t][i].by
         /\ db'[t][i].live => db[t][i].live
         /\ Alike(t, db'[t][i], db[t][i])
<1>1. db \in Tables(UserIds, Writers) /\ UserIds \subseteq UserIds'
  BY HandleData DEF DataInv, StoreInv
<1>2. CASE t = "users"
  <2>1. i \in UserIds /\ i \in UserIds'
    BY <1>1, <1>2 DEF UserIds
  <2>2. /\ db'.users[i].person = db.users[i].person
        /\ db'.users[i].by = db.users[i].by
        /\ db'.users[i].live => db.users[i].live
    BY <2>1, UsersKept
  <2>3. QED
    BY <1>2, <2>1, <2>2 DEF Alike, Keys, UserIds
<1>3. CASE t \in SweptTables
  <2>1. Kept(db[t], db'[t], r)
    BY <1>3, RowsKept
  <2>2. i \in DOMAIN db'[t] /\ SameRow(db[t][i], db'[t][i])
    BY <2>1 DEF Kept
  <2>3. Keys[t] \subseteq DOMAIN db[t][i] \ {"live", "primary"}
    BY <1>1, KeyFields
  <2>4. QED
    BY <2>2, <2>3 DEF SameRow, Alike
<1>4. QED
  BY <1>2, <1>3, KeyTables

\* What r wants depends on what a row says alone.
LEMMA WantsAlike ==
  ASSUME NEW r, NEW t \in DOMAIN Keys, NEW a, NEW b, Alike(t, a, b)
  PROVE  Wants(r, t, a) => Wants(r, t, b)
<1>1. /\ t = "users" => a.person = b.person
      /\ t = "regions" => a.user = b.user /\ a.region = b.region
      /\ t = "agreements" => a.user = b.user /\ a.terms = b.terms
      /\ t = "blocks" => a.user = b.user /\ a.blocked = b.blocked
      /\ t = "reports" => a.user = b.user /\ a.target = b.target
      /\ t = "devices" => a.token = b.token
  BY DEF Alike, Keys
<1>2. QED
  BY <1>1 DEF Wants

LEMMA AppendRows ==
  ASSUME NEW R, NEW A \in Seq(R), NEW row
  PROVE  /\ DOMAIN Append(A, row) = 1 .. Len(A) + 1 /\ Len(A) \in Nat
         /\ \A j \in DOMAIN Append(A, row) :
              j \notin DOMAIN A => j = Len(A) + 1 /\ Append(A, row)[j] = row
         /\ \A i \in DOMAIN A : Append(A, row)[i] = A[i]
<1>1. Len(A) \in Nat /\ DOMAIN A = 1 .. Len(A)
  OBVIOUS
<1>2. /\ DOMAIN Append(A, row) = 1 .. Len(A) + 1
      /\ Append(A, row)[Len(A) + 1] = row
      /\ \A i \in DOMAIN A : Append(A, row)[i] = A[i]
  OBVIOUS
<1>3. QED
  BY <1>1, <1>2

LEMMA ConcatRows ==
  ASSUME NEW R, NEW A \in Seq(R), NEW n \in Nat, NEW new,
         new = [i \in 1 .. n |-> new[i]]
  PROVE  /\ \A j \in DOMAIN (A \o new) :
              j \notin DOMAIN A => /\ j - Len(A) \in 1 .. n
                                   /\ (A \o new)[j] = new[j - Len(A)]
                                   /\ j \in Nat /\ Len(A) \in Nat
         /\ \A i \in DOMAIN A : (A \o new)[i] = A[i]
<1>1. PICK Q : Q = R \cup {new[i] : i \in 1 .. n}
  OBVIOUS
<1>2. A \in Seq(Q)
  <2>1. R \subseteq Q
    BY <1>1
  <2>2. QED
    BY <2>1, SeqGrows
<1>3. new \in Seq(Q) /\ Len(new) = n
  <2>1. \A i \in 1 .. n : new[i] \in Q
    BY <1>1
  <2>2. QED
    BY <2>1, FunctionIsSeq
<1>4. ASSUME NEW j \in DOMAIN (A \o new), j \notin DOMAIN A
      PROVE  /\ j - Len(A) \in 1 .. n
             /\ (A \o new)[j] = new[j - Len(A)]
             /\ j \in Nat /\ Len(A) \in Nat
  BY <1>2, <1>3, <1>4
<1>5. \A i \in DOMAIN A : (A \o new)[i] = A[i]
  BY <1>2, <1>3
<1>6. QED
  BY <1>4, <1>5

-----------------------------------------------------------------------------

\* What a step inserts is what the handler wants, once, and it deletes what
\* it replaces.
LEMMA InsertedRows ==
  ASSUME DataInv, ListsInv, NEW r \in Req, Handle(r), NEW t \in DOMAIN Keys,
         NEW j \in DOMAIN db'[t], j \notin DOMAIN db[t]
  PROVE  /\ db'[t][j].by = r /\ Wants(r, t, db'[t][j])
         /\ \A i \in DOMAIN db'[t] :
              i \notin DOMAIN db[t] /\ i # j => ~Alike(t, db'[t][i], db'[t][j])
         /\ \A i \in DOMAIN db[t] : Replaces(r, t, i) => ~db'[t][i].live
<1>1. /\ db \in Tables(UserIds, Writers)
      /\ RequestInv /\ StageInv /\ StoreInv /\ GotInv
  BY DEF DataInv, StoreInv
<1>2. /\ db.users \in Seq(UserRow(Writers))
      /\ db.regions \in Seq(InterestRegionRow(UserIds, Writers))
      /\ db.agreements \in Seq(UserAgreementRow(UserIds, Writers))
      /\ db.blocks \in Seq(UserBlockRow(UserIds, Writers))
      /\ db.reports \in Seq(ReportRow(UserIds, Writers))
      /\ db.devices \in Seq(DeviceRow(UserIds, Writers))
  BY <1>1, TableTypes
<1>3. /\ DOMAIN db = SweptTables \cup {"users"} /\ t \in DOMAIN db
      /\ {"users", "regions", "agreements", "blocks", "reports", "devices"}
           \subseteq DOMAIN db
  BY <1>1, KeyTables DEF Tables, SweptTables
<1>4. ASSUME NEW x \in DOMAIN db, NEW rows, db' = [db EXCEPT ![x] = rows]
      PROVE  t = x /\ db'[t] = rows
  BY <1>3, <1>4
<1>5. ~UNCHANGED db
  OBVIOUS
<1>6. \A table, S, f, v : DOMAIN Write(table, S, f, v) = DOMAIN table
  BY DEF Write
<1>7. CASE CreateUser(r)
  <2>1. PICK row : row = [person |-> plan[r].person, nick |-> plan[r].nick,
                          token |-> None, email |-> None, live |-> TRUE,
                          by |-> r]
    OBVIOUS
  <2>2. db' = [db EXCEPT !["users"] = Append(db.users, row)] /\ pc[r] = "create"
    BY <1>7, <2>1 DEF CreateUser, Store, Step
  <2>3. t = "users" /\ db'[t] = Append(db.users, row)
    BY <1>3, <1>4, <2>2
  <2>4. \A i \in DOMAIN db'[t] : i \notin DOMAIN db[t] =>
          i = Len(db.users) + 1 /\ db'[t][i] = row
    BY <1>2, <2>3, AppendRows
  <2>5. db'[t][j] = row /\ \A i \in DOMAIN db'[t] : i \notin DOMAIN db[t] => i = j
    BY <2>4
  <2>6. QED
    BY <2>1, <2>2, <2>3, <2>5 DEF Wants, Replaces
<1>8. CASE StoreToken(r) \/ SetNickname(r) \/ CommitVerified(r)
  <2>1. PICK S, f, v : db' = [db EXCEPT !["users"] = Write(db.users, S, f, v)]
    BY <1>5, <1>8 DEF StoreToken, SetNickname, CommitVerified, Store, NoWrite
  <2>2. t = "users" /\ db'[t] = Write(db.users, S, f, v)
    BY <1>3, <1>4, <2>1
  <2>3. QED
    BY <1>6, <2>2
<1>9. CASE ReplaceRegions(r)
  <2>1. PICK new : new = [i \in DOMAIN plan[r].regions |->
                            NewRegion(r, plan[r].regions[i],
                                      plan[r].regions[i] = plan[r].primary)]
    OBVIOUS
  <2>2. PICK gone : gone = SoftDelete(db.regions, got[r])
    OBVIOUS
  <2>3. db' = [db EXCEPT !["regions"] = gone \o new] /\ pc[r] = "replace"
    BY <1>9, <2>1, <2>2 DEF ReplaceRegions, Store, Step
  <2>4. t = "regions" /\ db'[t] = gone \o new
    BY <1>3, <1>4, <2>3
  <2>5. InterestRegionRow(UserIds, Writers) \in OwnedRows(UserIds, Writers)
    BY DEF OwnedRows
  <2>6. /\ gone \in Seq(InterestRegionRow(UserIds, Writers))
        /\ \A i \in got[r] : i \in DOMAIN db.regions => ~gone[i].live
    BY <1>2, <2>2, <2>5, KeptSoftDelete
  <2>7. DOMAIN gone = DOMAIN db.regions
    BY <2>2 DEF SoftDelete, Write
  <2>8. plan[r].regions \in Seq(Regions \cup {None})
    BY <1>1, <2>3, RequestTypes DEF StoreInv, StageInv, StageOps
  <2>9. PICK n \in Nat : DOMAIN plan[r].regions = 1 .. n
    BY <2>8
  <2>10. new = [i \in 1 .. n |-> new[i]]
    BY <2>1, <2>9
  <2>11. /\ \A i \in DOMAIN (gone \o new) : i \notin DOMAIN gone =>
              /\ i - Len(gone) \in 1 .. n
              /\ (gone \o new)[i] = new[i - Len(gone)]
              /\ i \in Nat /\ Len(gone) \in Nat
         /\ \A i \in DOMAIN gone : (gone \o new)[i] = gone[i]
    BY <2>6, <2>10, ConcatRows
  <2>12. \A i \in DOMAIN db[t] : Replaces(r, t, i) => ~db'[t][i].live
    BY <2>4, <2>6, <2>7, <2>11 DEF Replaces
  <2>13. PICK k \in 1 .. n : k = j - Len(gone) /\ db'[t][j] = new[k]
    BY <2>4, <2>7, <2>11
  <2>14. /\ db'[t][j].user = User(r) /\ db'[t][j].by = r
         /\ db'[t][j].region = plan[r].regions[k]
         /\ plan[r].regions[k] \in ToSet(plan[r].regions)
    BY <2>1, <2>9, <2>13 DEF NewRegion, ToSet
  <2>15. Wants(r, t, db'[t][j])
    BY <2>3, <2>4, <2>14 DEF Wants
  <2>16. ASSUME NEW i \in DOMAIN db'[t], i \notin DOMAIN db[t], i # j
         PROVE  ~Alike(t, db'[t][i], db'[t][j])
    <3>1. PICK m \in 1 .. n : m = i - Len(gone) /\ db'[t][i] = new[m]
      BY <2>4, <2>7, <2>11, <2>16
    <3>2. m # k
      BY <2>4, <2>7, <2>11, <2>13, <2>16, <3>1
    <3>3. plan[r].regions[m] # plan[r].regions[k]
      BY <2>3, <2>9, <3>2 DEF ListsInv
    <3>4. db'[t][i].region = plan[r].regions[m]
      BY <2>1, <2>9, <3>1 DEF NewRegion
    <3>5. QED
      BY <2>4, <2>14, <3>3, <3>4 DEF Alike, Keys
  <2>17. QED
    BY <2>12, <2>14, <2>15, <2>16
<1>10. CASE MovePrimary(r) \/ DropRegion(r)
  <2>1. PICK rows : /\ db' = [db EXCEPT !["regions"] = rows]
                    /\ DOMAIN rows = DOMAIN db.regions
    <3>1. CASE MovePrimary(r)
      <4>1. PICK rows : rows = Write(Write(db.regions, got[r].clear, "primary", FALSE),
                                     got[r].set, "primary", TRUE)
        OBVIOUS
      <4>2. DOMAIN rows = DOMAIN db.regions
        BY <4>1 DEF Write
      <4>3. QED
        BY <3>1, <4>1, <4>2 DEF MovePrimary, Store
    <3>2. CASE DropRegion(r)
      <4>1. PICK rows : rows = SoftDelete(db.regions, got[r])
        OBVIOUS
      <4>2. DOMAIN rows = DOMAIN db.regions
        BY <4>1 DEF SoftDelete, Write
      <4>3. QED
        BY <3>2, <4>1, <4>2 DEF DropRegion, Store
    <3>3. QED
      BY <1>10, <3>1, <3>2
  <2>2. t = "regions" /\ db'[t] = rows
    BY <1>3, <1>4, <2>1
  <2>3. QED
    BY <2>1, <2>2
<1>11. CASE InsertRegion(r)
  <2>1. PICK row : row = NewRegion(r, plan[r].region, got[r])
    OBVIOUS
  <2>2. db' = [db EXCEPT !["regions"] = Append(db.regions, row)] /\ pc[r] = "insert"
    BY <1>11, <2>1 DEF InsertRegion, Store, Step
  <2>3. t = "regions" /\ db'[t] = Append(db.regions, row)
    BY <1>3, <1>4, <2>2
  <2>4. \A i \in DOMAIN db'[t] : i \notin DOMAIN db[t] =>
          i = Len(db.regions) + 1 /\ db'[t][i] = row
    BY <1>2, <2>3, AppendRows
  <2>5. db'[t][j] = row /\ \A i \in DOMAIN db'[t] : i \notin DOMAIN db[t] => i = j
    BY <2>4
  <2>6. QED
    BY <2>1, <2>2, <2>3, <2>5 DEF Wants, Replaces, NewRegion
<1>12. CASE InsertAgreements(r)
  <2>1. PICK new : new = [i \in DOMAIN plan[r].terms |->
                            [user |-> User(r), terms |-> plan[r].terms[i],
                             live |-> TRUE, by |-> r]]
    OBVIOUS
  <2>2. /\ db' = [db EXCEPT !["agreements"] = db.agreements \o new]
        /\ pc[r] = "agree"
    BY <1>12, <2>1 DEF InsertAgreements, Store, Step
  <2>3. t = "agreements" /\ db'[t] = db.agreements \o new
    BY <1>3, <1>4, <2>2
  <2>4. plan[r].terms \in TermsLists /\ plan[r].terms \in Seq(Terms \cup {None})
    BY <1>1, <2>2, RequestTypes DEF StoreInv, StageInv, StageOps
  <2>5. PICK n \in Nat : DOMAIN plan[r].terms = 1 .. n
    BY <2>4
  <2>6. new = [i \in 1 .. n |-> new[i]]
    BY <2>1, <2>5
  <2>7. \A i \in DOMAIN (db.agreements \o new) : i \notin DOMAIN db.agreements =>
          /\ i - Len(db.agreements) \in 1 .. n
          /\ (db.agreements \o new)[i] = new[i - Len(db.agreements)]
          /\ i \in Nat /\ Len(db.agreements) \in Nat
    BY <1>2, <2>6, ConcatRows
  <2>8. PICK k \in 1 .. n : k = j - Len(db.agreements) /\ db'[t][j] = new[k]
    BY <2>3, <2>7
  <2>9. /\ db'[t][j].user = User(r) /\ db'[t][j].by = r
        /\ db'[t][j].terms = plan[r].terms[k]
    BY <2>1, <2>5, <2>8
  <2>10. Wants(r, t, db'[t][j])
    BY <2>2, <2>3, <2>5, <2>9 DEF Wants
  <2>11. ASSUME NEW i \in DOMAIN db'[t], i \notin DOMAIN db[t], i # j
         PROVE  ~Alike(t, db'[t][i], db'[t][j])
    <3>1. PICK m \in 1 .. n : m = i - Len(db.agreements) /\ db'[t][i] = new[m]
      BY <2>3, <2>7, <2>11
    <3>2. m # k
      BY <2>3, <2>7, <2>8, <2>11, <3>1
    <3>3. plan[r].terms[m] # None
      <4>1. ToSet(plan[r].terms) \subseteq Terms
        BY <1>1, <2>2 DEF GotInv, GotOk
      <4>2. plan[r].terms[m] \in ToSet(plan[r].terms)
        BY <2>5 DEF ToSet
      <4>3. QED
        BY <4>1, <4>2, NoneAssumption
    <3>4. plan[r].terms[m] # plan[r].terms[k]
      BY <3>3, <2>4, <2>5, <3>2 DEF TermsLists
    <3>5. db'[t][i].terms = plan[r].terms[m]
      BY <2>1, <2>5, <3>1
    <3>6. QED
      BY <2>3, <2>9, <3>4, <3>5 DEF Alike, Keys
  <2>12. QED
    BY <2>3, <2>9, <2>10, <2>11 DEF Replaces
<1>13. CASE InsertBlock(r)
  <2>1. PICK row : row = NewBlock(r, plan[r].blocked)
    OBVIOUS
  <2>2. db' = [db EXCEPT !["blocks"] = Append(db.blocks, row)] /\ pc[r] = "block"
    BY <1>13, <2>1 DEF InsertBlock, Store, Step
  <2>3. t = "blocks" /\ db'[t] = Append(db.blocks, row)
    BY <1>3, <1>4, <2>2
  <2>4. \A i \in DOMAIN db'[t] : i \notin DOMAIN db[t] =>
          i = Len(db.blocks) + 1 /\ db'[t][i] = row
    BY <1>2, <2>3, AppendRows
  <2>5. db'[t][j] = row /\ \A i \in DOMAIN db'[t] : i \notin DOMAIN db[t] => i = j
    BY <2>4
  <2>6. QED
    BY <2>1, <2>2, <2>3, <2>5 DEF Wants, Replaces, NewBlock
<1>14. CASE DeleteBlock(r)
  <2>1. PICK rows : rows = SoftDelete(db.blocks, got[r])
    OBVIOUS
  <2>5. db' = [db EXCEPT !["blocks"] = rows] /\ DOMAIN rows = DOMAIN db.blocks
    BY <1>14, <2>1 DEF DeleteBlock, Store, SoftDelete, Write
  <2>2. t = "blocks" /\ db'[t] = rows
    BY <1>3, <1>4, <2>5
  <2>3. QED
    BY <2>2, <2>5
<1>15. CASE InsertReport(r)
  <2>1. PICK report : report = [user |-> User(r), target |-> plan[r].target,
                                live |-> TRUE, by |-> r]
    OBVIOUS
  <2>2. PICK row : row = NewBlock(r, plan[r].target)
    OBVIOUS
  <2>3. PICK blocks : blocks = IF got[r] THEN Append(db.blocks, row) ELSE db.blocks
    OBVIOUS
  <2>4. /\ db' = [db EXCEPT !["reports"] = Append(db.reports, report),
                            !["blocks"] = blocks]
        /\ pc[r] = "report"
    BY <1>15, <1>3, <2>1, <2>2, <2>3 DEF InsertReport, Step
  <2>5. /\ db'.reports = Append(db.reports, report)
        /\ db'.blocks = blocks
        /\ t \notin {"reports", "blocks"} => db'[t] = db[t]
    BY <1>3, <2>4
  <2>6. CASE t = "reports"
    <3>1. \A i \in DOMAIN db'[t] : i \notin DOMAIN db[t] =>
            i = Len(db.reports) + 1 /\ db'[t][i] = report
      BY <1>2, <2>5, <2>6, AppendRows
    <3>2. db'[t][j] = report /\ \A i \in DOMAIN db'[t] : i \notin DOMAIN db[t] => i = j
      BY <3>1
    <3>3. Wants(r, t, db'[t][j]) /\ db'[t][j].by = r
      BY <2>1, <2>4, <2>6, <3>2 DEF Wants
    <3>4. \A i : ~Replaces(r, t, i)
      BY <2>6 DEF Replaces
    <3>5. QED
      BY <3>2, <3>3, <3>4
  <2>7. CASE t = "blocks"
    <3>1. got[r] /\ db'[t] = Append(db.blocks, row)
      BY <2>3, <2>5, <2>7
    <3>2. \A i \in DOMAIN db'[t] : i \notin DOMAIN db[t] =>
            i = Len(db.blocks) + 1 /\ db'[t][i] = row
      BY <1>2, <2>7, <3>1, AppendRows
    <3>3. db'[t][j] = row /\ \A i \in DOMAIN db'[t] : i \notin DOMAIN db[t] => i = j
      BY <3>2
    <3>4. Wants(r, t, db'[t][j]) /\ db'[t][j].by = r
      BY <2>2, <2>4, <2>7, <3>1, <3>3 DEF Wants, NewBlock
    <3>5. \A i : ~Replaces(r, t, i)
      BY <2>7 DEF Replaces
    <3>6. QED
      BY <3>3, <3>4, <3>5
  <2>8. QED
    BY <2>5, <2>6, <2>7
<1>16. CASE RegisterDevice(r)
  <2>1. PICK row : row = [user |-> User(r), token |-> plan[r].token,
                          live |-> TRUE, by |-> r]
    OBVIOUS
  <2>2. PICK gone : gone = SoftDelete(db.devices, got[r])
    OBVIOUS
  <2>3. db' = [db EXCEPT !["devices"] = Append(gone, row)] /\ pc[r] = "register"
    BY <1>16, <2>1, <2>2 DEF RegisterDevice, Store, Step
  <2>4. t = "devices" /\ db'[t] = Append(gone, row)
    BY <1>3, <1>4, <2>3
  <2>5. DeviceRow(UserIds, Writers) \in OwnedRows(UserIds, Writers)
    BY DEF OwnedRows
  <2>6. /\ gone \in Seq(DeviceRow(UserIds, Writers))
        /\ \A i \in got[r] : i \in DOMAIN db.devices => ~gone[i].live
    BY <1>2, <2>2, <2>5, KeptSoftDelete
  <2>7. DOMAIN gone = DOMAIN db.devices
    BY <2>2 DEF SoftDelete, Write
  <2>8. /\ \A i \in DOMAIN Append(gone, row) : i \notin DOMAIN gone =>
             i = Len(gone) + 1 /\ Append(gone, row)[i] = row
        /\ \A i \in DOMAIN gone : Append(gone, row)[i] = gone[i]
    BY <2>6, AppendRows
  <2>9. db'[t][j] = row /\ \A i \in DOMAIN db'[t] : i \notin DOMAIN db[t] => i = j
    BY <2>4, <2>7, <2>8
  <2>10. \A i \in DOMAIN db[t] : Replaces(r, t, i) => ~db'[t][i].live
    BY <2>4, <2>6, <2>7, <2>8 DEF Replaces
  <2>11. Wants(r, t, db'[t][j]) /\ db'[t][j].by = r
    BY <2>1, <2>3, <2>4, <2>9 DEF Wants
  <2>12. QED
    BY <2>9, <2>10, <2>11
<1>17. CASE Withdraw(r)
  <2>1. /\ db'.users = SoftDelete(Write(db.users, {User(r)}, "token", None),
                                  {User(r)})
        /\ \A x \in SweptTables :
             db'[x] = SoftDelete(db[x], OwnedBy(db[x], User(r)))
    BY <1>1, <1>17, WithdrawWrites
  <2>2. DOMAIN db'[t] = DOMAIN db[t]
    <3>1. CASE t = "users"
      <4>1. PICK rows : rows = Write(db.users, {User(r)}, "token", None)
        OBVIOUS
      <4>2. DOMAIN rows = DOMAIN db.users
        BY <4>1 DEF Write
      <4>3. db'.users = SoftDelete(rows, {User(r)})
        BY <2>1, <4>1
      <4>4. QED
        BY <3>1, <4>2, <4>3 DEF SoftDelete, Write
    <3>2. CASE t \in SweptTables
      <4>1. PICK S : S = OwnedBy(db[t], User(r))
        OBVIOUS
      <4>2. db'[t] = SoftDelete(db[t], S)
        BY <2>1, <3>2, <4>1
      <4>3. DOMAIN SoftDelete(db[t], S) = DOMAIN db[t]
        BY DEF SoftDelete, Write
      <4>4. QED
        BY <4>2, <4>3
    <3>3. QED
      BY <3>1, <3>2, KeyTables
  <2>3. QED
    BY <2>2
<1>18. QED
  BY <1>5, <1>7, <1>8, <1>9, <1>10, <1>11, <1>12, <1>13, <1>14, <1>15, <1>16,
     <1>17, HandleWrites DEF UsersWrite, RegionsWrite, OwnedWrite

\* A handler that is about to insert has just looked, so a row that says the
\* same is one it replaces, or one of two that were there.
LEMMA LooksFirst ==
  ASSUME UniqueInv, NEW r \in Req, Handle(r), NEW t \in DOMAIN Keys,
         NEW row, Wants(r, t, row)'
  PROVE  db' = db /\ plan' = plan
<1>1. /\ RequestInv /\ StageInv /\ DataInv' /\ plan' = plan
  BY HandleData DEF UniqueInv, DataInv, Moves
<1>2. pc'[r] \in {"create", "agreed", "agree", "block", "report", "replace",
                  "insert", "register"}
  BY DEF Wants
<1>3. r \in Req'
  BY <1>1 DEF Req
<1>4. pc'[r] \in DOMAIN StageOps /\ Op(r) \in StageOps[pc'[r]]
  BY <1>1, <1>2, <1>3 DEF DataInv, StageInv, StageOps, Op
<1>5. ASSUME NEW from, NEW to, NEW v, Step(r, from, to, v)
      PROVE  pc'[r] = to
  BY <1>1, <1>5, StepGoes
<1>6. Follows(r)
  BY <1>1, HandleFollows
<1>7. CASE pc'[r] = "create"
  <2>1. SignUp(r)
    BY <1>4, <1>5, <1>6, <1>7
       DEF Follows, StageOps, TokenOps, CreateUser, SignIn, FindPerson, Refresh,
           SignTokens, StoreToken, Answer, Refuse
  <2>2. QED
    BY <1>1, <2>1 DEF SignUp, FindPerson, NoWrite
<1>8. CASE pc'[r] \in {"agreed", "agree"}
  <2>1. ReadTerms(r) \/ FindAgreed(r)
    BY <1>4, <1>5, <1>6, <1>8 DEF Follows, StageOps, InsertAgreements
  <2>2. QED
    BY <1>1, <2>1 DEF ReadTerms, FindAgreed, NoWrite
<1>9. CASE pc'[r] = "block"
  <2>1. ReadBlock(r)
    BY <1>4, <1>5, <1>6, <1>9 DEF Follows, StageOps, InsertBlock, DeleteBlock
  <2>2. QED
    BY <1>1, <2>1 DEF ReadBlock, NoWrite
<1>10. CASE pc'[r] = "report"
  <2>1. ReadReport(r)
    BY <1>4, <1>5, <1>6, <1>10 DEF Follows, StageOps, InsertReport
  <2>2. QED
    BY <1>1, <2>1 DEF ReadReport, NoWrite
<1>11. CASE pc'[r] = "replace"
  <2>1. ReadRegionList(r)
    BY <1>4, <1>5, <1>6, <1>11 DEF Follows, StageOps, ReplaceRegions
  <2>2. QED
    BY <1>1, <2>1 DEF ReadRegionList, NoWrite
<1>12. CASE pc'[r] = "insert"
  <2>1. ReadRegions(r)
    BY <1>4, <1>5, <1>6, <1>12 DEF Follows, StageOps, InsertRegion
  <2>2. QED
    BY <1>1, <2>1 DEF ReadRegions, NoWrite
<1>13. CASE pc'[r] = "register"
  <2>1. FindDevice(r)
    BY <1>4, <1>5, <1>6, <1>13 DEF Follows, StageOps, RegisterDevice
  <2>2. QED
    BY <1>1, <2>1 DEF FindDevice, NoWrite
<1>14. QED
  BY <1>2, <1>7, <1>8, <1>9, <1>10, <1>11, <1>12, <1>13

LEMMA ExplainedStays ==
  ASSUME DataInv, NEW r \in Req, Moves(r), Req' = Req, NEW q \in Req,
         NEW t \in DOMAIN Keys, NEW i \in DOMAIN db[t],
         i \in DOMAIN db'[t], db'[t][i].by = db[t][i].by,
         Explained(q, t, i)
  PROVE  Explained(q, t, i)'
<1>1. RequestInv /\ plan' = plan
  BY DEF DataInv, Moves
<1>2. \A o, p \in Req : Met(o, p) => Met(o, p)'
  BY <1>1, MetStays
<1>3. \A token : Disputed(token) => Disputed(token)'
  BY <1>1, <1>2 DEF Disputed, Op
<1>4. QED
  BY <1>1, <1>2, <1>3 DEF Explained

\* What the handler of r is about to insert it has looked for.
LEMMA Checked ==
  ASSUME UniqueInv, NEW r \in Req, Handle(r), NEW t \in DOMAIN Keys,
         NEW i \in LiveRows(db[t]), Wants(r, t, db[t][i])', ~Replaces(r, t, i)'
  PROVE  Explained(r, t, i)'
<1>1. /\ RequestInv /\ StageInv /\ DataInv /\ DataInv' /\ plan' = plan /\ Moves(r)
      /\ Req' = Req
  BY HandleData DEF UniqueInv, DataInv, Moves
<1>2. pc'[r] \in {"create", "agreed", "agree", "block", "report", "replace",
                  "insert", "register"}
  BY DEF Wants
<1>4. pc'[r] \in DOMAIN StageOps /\ Op(r) \in StageOps[pc'[r]]
  BY <1>1, <1>2 DEF DataInv, StageInv, StageOps, Op
<1>5. ASSUME NEW from, NEW to, NEW v, Step(r, from, to, v)
      PROVE  pc[r] = from /\ pc'[r] = to /\ got'[r] = v
  BY <1>1, <1>5, StepGoes
<1>6. Follows(r)
  BY <1>1, HandleFollows
<1>7. db' = db
  BY LooksFirst
<1>8. PICK row : row = db[t][i]
  OBVIOUS
<1>9. i \in DOMAIN db[t] /\ row.live /\ User(r)' = User(r)
  BY <1>1, <1>8 DEF LiveRows, User
<1>10. Wants(r, t, row)'
  BY <1>7, <1>8
<1>11. CASE pc'[r] = "create"
  <2>1. SignUp(r)
    BY <1>4, <1>5, <1>6, <1>11
       DEF Follows, StageOps, TokenOps, CreateUser, SignIn, FindPerson, Refresh,
           SignTokens, StoreToken, Answer, Refuse
  <2>2. None \in AnyOf(FindByProviderId(db, plan[r].person))
    BY <1>5, <1>11, <2>1 DEF SignUp, FindPerson, Refuse
  <2>3. None \notin UserIds
    BY <1>1, TableTypes, NoneAssumption DEF DataInv, StoreInv, UserIds
  <2>4. FindByProviderId(db, plan[r].person) = {}
    BY <2>2, <2>3, FoundUsers DEF AnyOf
  <2>5. t = "users" /\ row.person = plan[r].person
    BY <1>1, <1>10, <1>11 DEF Wants
  <2>6. i \in FindByProviderId(db, plan[r].person)
    BY <1>8, <1>9, <2>5 DEF FindByProviderId, LiveRows
  <2>7. QED
    BY <2>4, <2>6
<1>12. CASE pc'[r] \in {"agreed", "agree"}
  <2>1. ReadTerms(r) \/ FindAgreed(r)
    BY <1>4, <1>5, <1>6, <1>12 DEF Follows, StageOps, InsertAgreements
  <2>2. /\ t = "agreements" /\ row.user = User(r)
        /\ \E k \in DOMAIN plan[r].terms : /\ pc'[r] = "agreed" => k < got'[r]
                                           /\ row.terms = plan[r].terms[k]
    BY <1>1, <1>9, <1>10, <1>12 DEF Wants
  <2>3. PICK k \in DOMAIN plan[r].terms : /\ pc'[r] = "agreed" => k < got'[r]
                                          /\ row.terms = plan[r].terms[k]
    BY <2>2
  <2>4. plan[r].terms \in Seq(Terms \cup {None})
    BY <1>1, <1>4, <1>12, RequestTypes DEF DataInv, StoreInv, StageOps
  <2>5. PICK n \in Nat : Len(plan[r].terms) = n /\ DOMAIN plan[r].terms = 1 .. n
    BY <2>4
  <2>6. CASE ReadTerms(r)
    <3>1. pc'[r] = "agreed" /\ got'[r] = 1
      BY <1>5, <1>12, <2>6 DEF ReadTerms, Refuse
    <3>2. QED
      BY <2>3, <2>5, <3>1
  <2>7. CASE FindAgreed(r)
    <3>1. /\ pc[r] = "agreed"
          /\ FindAgreement(db, User(r), plan[r].terms[got[r]]) = {}
          /\ \/ pc'[r] = "agreed" /\ got'[r] = got[r] + 1
             \/ pc'[r] = "agree" /\ ~(got[r] < Len(plan[r].terms))
      BY <1>5, <1>12, <2>7 DEF FindAgreed, Refuse
    <3>2. got[r] \in 1 .. n
      BY <2>5, <3>1 DEF UniqueInv, ListsInv
    <3>3. k \in 1 .. n /\ (k < got[r] \/ k = got[r])
      BY <2>3, <2>5, <3>1, <3>2
    <3>4. CASE k = got[r]
      <4>1. i \in FindAgreement(db, User(r), plan[r].terms[got[r]])
        BY <1>8, <1>9, <2>2, <2>3, <3>4 DEF FindAgreement, LiveRows
      <4>2. QED
        BY <3>1, <4>1
    <3>5. CASE k < got[r]
      <4>1. Wants(r, t, row)
        BY <2>2, <2>3, <3>1, <3>5 DEF Wants
      <4>2. ~Replaces(r, t, i)
        BY <2>2 DEF Replaces
      <4>3. Explained(r, t, i)
        BY <1>8, <4>1, <4>2 DEF UniqueInv, FreshInv
      <4>4. QED
        BY <1>1, <1>7, <1>9, <4>3, ExplainedStays
    <3>6. QED
      BY <3>3, <3>4, <3>5
  <2>8. QED
    BY <2>1, <2>6, <2>7
<1>13. CASE pc'[r] = "block"
  <2>1. ReadBlock(r)
    BY <1>4, <1>5, <1>6, <1>13 DEF Follows, StageOps, InsertBlock, DeleteBlock
  <2>2. FindBlock(db, User(r), plan[r].blocked) = {}
    <3>1. Op(r) = "block"
      BY <1>4, <1>13 DEF StageOps
    <3>2. CASE MayBlock(User(r), plan[r].blocked)
      BY <3>2 DEF MayBlock
    <3>3. CASE ~MayBlock(User(r), plan[r].blocked)
      <4>1. Step(r, "idle", "refused", None)
        BY <2>1, <3>1, <3>3 DEF ReadBlock, Refuse
      <4>2. QED
        BY <1>5, <1>13, <4>1
    <3>4. QED
      BY <3>2, <3>3
  <2>3. t = "blocks" /\ row.user = User(r) /\ row.blocked = plan[r].blocked
    BY <1>1, <1>9, <1>10, <1>13 DEF Wants
  <2>4. i \in FindBlock(db, User(r), plan[r].blocked)
    BY <1>8, <1>9, <2>3 DEF FindBlock, LiveRows
  <2>5. QED
    BY <2>2, <2>4
<1>14. CASE pc'[r] = "report"
  <2>1. ReadReport(r)
    BY <1>4, <1>5, <1>6, <1>14 DEF Follows, StageOps, InsertReport
  <2>2. /\ FindReport(db, User(r), plan[r].target) = {}
        /\ got'[r] => MayBlock(User(r), plan[r].target)
    <3>1. PICK v : v = (/\ plan[r].reason = "SEXUAL_HARASSMENT"
                        /\ MayBlock(User(r), plan[r].target))
      OBVIOUS
    <3>2. ~Step(r, "idle", "refused", None)
      BY <1>5, <1>14
    <3>3. /\ FindReport(db, User(r), plan[r].target) = {}
          /\ Step(r, "idle", "report", v)
      BY <2>1, <3>1, <3>2, Zenon DEF ReadReport, Refuse
    <3>4. got'[r] = v
      BY <1>5, <3>3
    <3>5. QED
      BY <3>1, <3>3, <3>4
  <2>3. \/ t = "reports" /\ row.user = User(r) /\ row.target = plan[r].target
        \/ /\ t = "blocks" /\ got'[r]
           /\ row.user = User(r) /\ row.blocked = plan[r].target
    BY <1>1, <1>9, <1>10, <1>14 DEF Wants
  <2>4. CASE t = "reports"
    <3>1. i \in FindReport(db, User(r), plan[r].target)
      BY <1>8, <1>9, <2>3, <2>4 DEF FindReport, LiveRows
    <3>2. QED
      BY <2>2, <3>1
  <2>5. CASE t = "blocks"
    <3>1. i \in FindBlock(db, User(r), plan[r].target)
      BY <1>8, <1>9, <2>3, <2>5 DEF FindBlock, LiveRows
    <3>2. QED
      BY <2>2, <2>3, <2>5, <3>1 DEF MayBlock
  <2>6. QED
    BY <2>3, <2>4, <2>5
<1>15. CASE pc'[r] = "replace"
  <2>1. ReadRegionList(r)
    BY <1>4, <1>5, <1>6, <1>15 DEF Follows, StageOps, ReplaceRegions
  <2>2. got'[r] = FindRegions(db, User(r))
    BY <1>5, <1>15, <2>1 DEF ReadRegionList, Refuse
  <2>3. t = "regions" /\ row.user = User(r)
    BY <1>1, <1>9, <1>10, <1>15 DEF Wants
  <2>4. i \in FindRegions(db, User(r))
    BY <1>8, <1>9, <2>3 DEF FindRegions, LiveRows
  <2>5. QED
    BY <1>15, <2>2, <2>3, <2>4 DEF Replaces
<1>16. CASE pc'[r] = "insert"
  <2>1. ReadRegions(r)
    BY <1>4, <1>5, <1>6, <1>16 DEF Follows, StageOps, InsertRegion
  <2>2. t = "regions" /\ row.user = User(r) /\ row.region = plan[r].region
    BY <1>1, <1>9, <1>10, <1>16 DEF Wants
  <2>3. i \in FindByRegion(db, User(r), plan[r].region)
    BY <1>8, <1>9, <2>2 DEF FindByRegion, FindRegions, LiveRows
  <2>4. i \in FindRegions(db, User(r))
    BY <2>3 DEF FindByRegion
  <2>5. MayOnboard(r) \/ MayAdd(r)
    <3>1. ~Step(r, "idle", "refused", None)
      BY <1>5, <1>16
    <3>2. QED
      BY <2>1, <3>1, Zenon DEF ReadRegions, Refuse
  <2>6. QED
    BY <2>3, <2>4, <2>5 DEF MayOnboard, MayAdd
<1>17. CASE pc'[r] = "register"
  <2>1. FindDevice(r)
    BY <1>4, <1>5, <1>6, <1>17 DEF Follows, StageOps, RegisterDevice
  <2>2. PICK j \in AnyOf(FindByDeviceToken(db, plan[r].token)) :
          got'[r] = {j} \ {None}
    BY <1>5, <1>17, <2>1 DEF FindDevice, Refuse
  <2>3. t = "devices" /\ row.token = plan[r].token
    BY <1>1, <1>10, <1>17 DEF Wants
  <2>4. i \in FindByDeviceToken(db, plan[r].token)
    BY <1>8, <1>9, <2>3 DEF FindByDeviceToken, LiveRows
  <2>5. j \in FindByDeviceToken(db, plan[r].token)
    BY <2>2, <2>4 DEF AnyOf
  <2>6. i # None
    BY <1>1, <1>9, KeyFields, NoneAssumption DEF DataInv, StoreInv
  <2>7. j # i
    BY <1>17, <2>2, <2>3, <2>6 DEF Replaces
  <2>8. <<i, j>> \in Twins(db[t], Keys[t])
    BY <2>3, <2>4, <2>5, <2>7 DEF Twins, Keys, FindByDeviceToken
  <2>9. Disputed(plan[r].token)
    BY <1>8, <2>3, <2>8 DEF UniqueInv, TwinsInv, Justified
  <2>10. Explained(r, t, i)
    BY <2>3, <2>9 DEF Explained
  <2>11. QED
    BY <1>1, <1>7, <1>9, <2>10, ExplainedStays
<1>18. QED
  BY <1>2, <1>11, <1>12, <1>13, <1>14, <1>15, <1>16, <1>17

LEMMA WantsRuns ==
  ASSUME StageInv, NEW r \in Req, NEW t, NEW row, Wants(r, t, row)
  PROVE  /\ pc[r] # "idle" /\ ~Ended(r)
         /\ t = "devices" => Op(r) = "device" /\ row.token = plan[r].token
BY DEF Wants, StageInv, StageOps, Ended, Ends

\* Two handlers that are about to insert rows alike have met.
LEMMA WantersMeet ==
  ASSUME RequestInv, StageInv, NEW q \in Req, NEW r \in Req, q # r,
         NEW t, NEW row, Wants(q, t, row), Wants(r, t, row)
  PROVE  /\ Met(q, r) /\ Met(r, q)
         /\ t = "devices" => Disputed(plan[q].token)
<1>1. /\ pc[q] # "idle" /\ ~Ended(q) /\ pc[r] # "idle" /\ ~Ended(r)
      /\ t = "devices" =>
           /\ Op(q) = "device" /\ row.token = plan[q].token
           /\ Op(r) = "device" /\ row.token = plan[r].token
  BY WantsRuns
<1>2. r \notin past[q]
  BY <1>1 DEF RequestInv
<1>3. Met(q, r) /\ Met(r, q)
  BY <1>1, <1>2, RunningMeet
<1>4. QED
  BY <1>1, <1>3 DEF Disputed

LEMMA FreshHandle ==
  ASSUME UniqueInv, NEW r \in Req, Handle(r)
  PROVE  FreshInv'
<1>1. /\ RequestInv /\ StageInv /\ DataInv /\ DataInv' /\ plan' = plan /\ Moves(r)
      /\ Req' = Req
  BY HandleData DEF UniqueInv, DataInv, Moves
<1>2. SUFFICES ASSUME NEW t \in DOMAIN Keys, NEW q \in Req,
                      NEW i \in LiveRows(db'[t]),
                      Wants(q, t, db[t][i])', ~Replaces(q, t, i)'
               PROVE  Explained(q, t, i)'
  BY <1>1 DEF FreshInv, LiveRows
<1>3. CASE q = r
  <2>1. db' = db
    BY <1>2, <1>3, LooksFirst
  <2>2. QED
    BY <1>2, <1>3, <2>1, Checked
<1>4. CASE q # r
  <2>1. pc'[q] = pc[q] /\ got'[q] = got[q]
    BY <1>1, <1>4, OthersStay
  <2>2. PICK row : row = db'[t][i]
    OBVIOUS
  <2>3. Wants(q, t, row) /\ ~Replaces(q, t, i)
    BY <1>1, <1>2, <2>1, <2>2 DEF Wants, Replaces, User
  <2>4. CASE i \in DOMAIN db[t]
    <3>1. /\ i \in DOMAIN db'[t] /\ db'[t][i].by = db[t][i].by
          /\ db'[t][i].live => db[t][i].live
          /\ Alike(t, db'[t][i], db[t][i])
      BY <1>1, <2>4, RowsStay
    <3>2. PICK old : old = db[t][i]
      OBVIOUS
    <3>3. Alike(t, row, old)
      BY <2>2, <3>1, <3>2
    <3>4. Wants(q, t, old)
      BY <2>3, <3>3, WantsAlike
    <3>5. i \in LiveRows(db[t])
      BY <1>2, <2>4, <3>1 DEF LiveRows
    <3>6. Explained(q, t, i)
      BY <2>3, <3>2, <3>4, <3>5 DEF UniqueInv, FreshInv
    <3>7. QED
      BY <1>1, <2>4, <3>1, <3>6, ExplainedStays
  <2>5. CASE i \notin DOMAIN db[t]
    <3>1. i \in DOMAIN db'[t]
      BY <1>2 DEF LiveRows
    <3>2. db'[t][i].by = r /\ Wants(r, t, db'[t][i])
      BY <1>1, <2>5, <3>1, InsertedRows DEF UniqueInv
    <3>3. Wants(r, t, row)
      BY <2>2, <3>2
    <3>4. Met(r, q) /\ (t = "devices" => Disputed(plan[q].token))
      BY <1>1, <1>4, <2>3, <3>3, WantersMeet
    <3>5. \A o, p \in Req : Met(o, p) => Met(o, p)'
      BY <1>1, MetStays
    <3>6. Disputed(plan[q].token) => Disputed(plan[q].token)'
      BY <1>1, <3>5 DEF Disputed, Op
    <3>7. Met(r, q)'
      BY <3>4, <3>5
    <3>8. QED
      BY <1>1, <3>2, <3>4, <3>6, <3>7 DEF Explained
  <2>6. QED
    BY <2>4, <2>5
<1>5. QED
  BY <1>3, <1>4

\* A row r inserts beside one that says the same.
LEMMA InsertedBeside ==
  ASSUME UniqueInv, NEW r \in Req, Handle(r), NEW t \in DOMAIN Keys,
         NEW i \in LiveRows(db'[t]), NEW j \in LiveRows(db'[t]),
         i \notin DOMAIN db[t], j \in DOMAIN db[t],
         NEW new, new = db'[t][i], NEW kept, kept = db'[t][j],
         Alike(t, new, kept)
  PROVE  IF t = "devices" THEN Disputed(new.token)'
         ELSE /\ new.by \in Req /\ kept.by \in Req
              /\ Met(new.by, kept.by)' /\ Met(kept.by, new.by)'
<1>1. /\ RequestInv /\ StageInv /\ DataInv /\ DataInv' /\ plan' = plan /\ Moves(r)
      /\ Req' = Req
  BY HandleData DEF UniqueInv, DataInv, Moves
<1>2. PICK old : old = db[t][j]
  OBVIOUS
<1>3. i \in DOMAIN db'[t] /\ new.live /\ j \in DOMAIN db'[t] /\ kept.live
  BY <1>2 DEF LiveRows
<1>4. /\ new.by = r /\ Wants(r, t, new)
      /\ \A k \in DOMAIN db[t] : Replaces(r, t, k) => ~db'[t][k].live
  BY <1>1, <1>2, <1>3, InsertedRows DEF UniqueInv
<1>5. kept.by = old.by /\ old.live /\ Alike(t, kept, old)
  BY <1>1, <1>2, <1>3, RowsStay
<1>6. Alike(t, new, old)
  BY <1>2, <1>5 DEF Alike
<1>7. Wants(r, t, old)
  BY <1>4, <1>6, WantsAlike
<1>8. j \in LiveRows(db[t])
  BY <1>2, <1>5 DEF LiveRows
<1>9. ~Replaces(r, t, j)
  BY <1>2, <1>3, <1>4
<1>10. Explained(r, t, j)
  BY <1>2, <1>7, <1>8, <1>9 DEF UniqueInv, FreshInv
<1>11. \A o, p \in Req : Met(o, p) => Met(o, p)' /\ Met(p, o)'
  BY <1>1, MetStays DEF Met
<1>12. CASE t = "devices"
  <2>1. Disputed(plan[r].token)
    BY <1>10, <1>12 DEF Explained
  <2>2. Disputed(plan[r].token)'
    BY <1>1, <1>11, <2>1 DEF Disputed, Op
  <2>3. new.token = plan[r].token
    BY <1>1, <1>4, <1>12, WantsRuns
  <2>4. QED
    BY <1>1, <1>2, <1>12, <2>2, <2>3
<1>13. CASE t # "devices"
  <2>1. old.by \in Req /\ Met(old.by, r)
    BY <1>2, <1>10, <1>13 DEF Explained
  <2>2. Met(old.by, r)' /\ Met(r, old.by)'
    BY <1>11, <2>1
  <2>3. QED
    BY <1>2, <1>4, <1>5, <1>13, <2>1, <2>2
<1>14. QED
  BY <1>12, <1>13

LEMMA TwinsHandle ==
  ASSUME UniqueInv, NEW r \in Req, Handle(r)
  PROVE  TwinsInv'
<1>1. /\ RequestInv /\ StageInv /\ DataInv /\ DataInv' /\ plan' = plan /\ Moves(r)
      /\ Req' = Req
  BY HandleData DEF UniqueInv, DataInv, Moves
<1>2. SUFFICES ASSUME NEW t \in DOMAIN Keys, NEW p \in Twins(db'[t], Keys[t])
               PROVE  Justified(t, p)'
  BY DEF TwinsInv, Twins, LiveRows
<1>3. PICK i \in LiveRows(db'[t]), j \in LiveRows(db'[t]) :
        p = <<i, j>> /\ i # j /\ Alike(t, db'[t][i], db'[t][j])
  BY DEF Twins, Alike
<1>4. i \in DOMAIN db'[t] /\ j \in DOMAIN db'[t] /\ Alike(t, db'[t][j], db'[t][i])
  BY <1>3 DEF LiveRows, Alike
<1>5. PICK c, d : c = db'[t][i] /\ d = db'[t][j]
  OBVIOUS
<1>6. Alike(t, c, d) /\ Alike(t, d, c) /\ (t = "devices" => c.token = d.token)
  BY <1>3, <1>4, <1>5 DEF Alike, Keys
<1>7. SUFFICES IF t = "devices" THEN Disputed(c.token)'
               ELSE c.by \in Req /\ d.by \in Req /\ Met(c.by, d.by)'
  <2>1. p[1] = i /\ p[2] = j
    BY <1>3
  <2>2. CASE t = "devices"
    BY <1>1, <1>5, <1>7, <2>1, <2>2 DEF Justified
  <2>3. CASE t # "devices"
    BY <1>1, <1>5, <1>7, <2>1, <2>3 DEF Justified, InsertersMet
  <2>4. QED
    BY <2>2, <2>3
<1>8. CASE i \in DOMAIN db[t] /\ j \in DOMAIN db[t]
  <2>1. PICK a, b : a = db[t][i] /\ b = db[t][j]
    OBVIOUS
  <2>3. /\ c.by = a.by /\ (c.live => a.live) /\ Alike(t, c, a)
        /\ d.by = b.by /\ (d.live => b.live) /\ Alike(t, d, b)
    BY <1>1, <1>8, <2>1, <1>5, RowsStay
  <2>4. a.live /\ b.live /\ i \in LiveRows(db[t]) /\ j \in LiveRows(db[t])
    BY <1>3, <1>5, <1>8, <2>1, <2>3 DEF LiveRows
  <2>5. \A f \in Keys[t] : a[f] = b[f]
    BY <1>6, <2>3 DEF Alike
  <2>6. <<i, j>> \in Twins(db[t], Keys[t])
    BY <1>3, <2>1, <2>4, <2>5 DEF Twins
  <2>7. Justified(t, <<i, j>>)
    BY <2>6 DEF UniqueInv, TwinsInv
  <2>8. \A q, s \in Req : Met(q, s) => Met(q, s)'
    BY <1>1, MetStays
  <2>9. CASE t = "devices"
    <3>1. Disputed(a.token)
      BY <2>1, <2>7, <2>9 DEF Justified
    <3>2. c.token = a.token
      BY <2>3, <2>9 DEF Alike, Keys
    <3>3. Disputed(a.token)'
      BY <1>1, <2>8, <3>1 DEF Disputed, Op
    <3>4. QED
      BY <2>9, <3>2, <3>3
  <2>10. CASE t # "devices"
    <3>1. a.by \in Req /\ b.by \in Req /\ Met(a.by, b.by)
      BY <2>1, <2>7, <2>10 DEF Justified, InsertersMet
    <3>2. Met(a.by, b.by)'
      BY <2>8, <3>1
    <3>3. QED
      BY <2>3, <2>10, <3>1, <3>2
  <2>11. QED
    BY <2>9, <2>10
<1>9. CASE i \notin DOMAIN db[t] /\ j \in DOMAIN db[t]
  BY <1>3, <1>5, <1>6, <1>9, InsertedBeside
<1>10. CASE i \in DOMAIN db[t] /\ j \notin DOMAIN db[t]
  <2>1. IF t = "devices" THEN Disputed(d.token)'
        ELSE /\ d.by \in Req /\ c.by \in Req
             /\ Met(d.by, c.by)' /\ Met(c.by, d.by)'
    BY <1>3, <1>5, <1>6, <1>10, InsertedBeside
  <2>2. QED
    BY <1>6, <2>1
<1>11. CASE i \notin DOMAIN db[t] /\ j \notin DOMAIN db[t]
  BY <1>1, <1>3, <1>4, <1>11, InsertedRows DEF UniqueInv
<1>12. QED
  BY <1>8, <1>9, <1>10, <1>11

LEMMA ListsHandle ==
  ASSUME UniqueInv, NEW r \in Req, Handle(r)
  PROVE  ListsInv'
<1>1. /\ RequestInv /\ StageInv /\ DataInv /\ DataInv' /\ plan' = plan /\ Moves(r)
      /\ Req' = Req
  BY HandleData DEF UniqueInv, DataInv, Moves
<1>2. ASSUME NEW q \in Req, q # r
      PROVE  pc'[q] = pc[q] /\ got'[q] = got[q]
  BY <1>1, <1>2, OthersStay
<1>3. ASSUME NEW from, NEW to, NEW v, Step(r, from, to, v)
      PROVE  pc[r] = from /\ pc'[r] = to /\ got'[r] = v
  BY <1>1, <1>3, StepGoes
<1>4. Follows(r)
  BY <1>1, HandleFollows
<1>5. pc'[r] \in DOMAIN StageOps => Op(r) \in StageOps[pc'[r]]
  BY <1>1 DEF DataInv, StageInv, Op
<1>6. CASE pc'[r] = "replace"
  <2>1. Op(r) = "putRegions"
    BY <1>5, <1>6 DEF StageOps
  <2>2. ReadRegionList(r)
    BY <1>3, <1>4, <1>6, <2>1 DEF Follows, ReplaceRegions
  <2>3. Cardinality(ToSet(plan[r].regions) \cap Regions) = Len(plan[r].regions)
    BY <1>3, <1>6, <2>2 DEF ReadRegionList, Refuse
  <2>4. plan[r].regions \in Seq(Regions \cup {None})
    BY <1>1, <2>1, RequestTypes DEF DataInv, StoreInv
  <2>5. \A i, j \in DOMAIN plan[r].regions :
          plan[r].regions[i] = plan[r].regions[j] => i = j
    BY <2>3, <2>4, ListedExist
  <2>6. QED
    BY <1>1, <1>2, <1>6, <2>5 DEF UniqueInv, ListsInv
<1>7. CASE pc'[r] = "agreed"
  <2>1. Op(r) = "agree"
    BY <1>5, <1>7 DEF StageOps
  <2>2. ReadTerms(r) \/ FindAgreed(r)
    BY <1>3, <1>4, <1>7, <2>1 DEF Follows, InsertAgreements
  <2>3. plan[r].terms \in TermsLists /\ plan[r].terms \in Seq(Terms \cup {None})
    BY <1>1, <2>1, RequestTypes DEF DataInv, StoreInv
  <2>4. PICK n \in Nat : Len(plan[r].terms) = n /\ DOMAIN plan[r].terms = 1 .. n
    BY <2>3
  <2>5. n # 0
    BY <2>3, <2>4 DEF TermsLists
  <2>6. CASE ReadTerms(r)
    <3>1. got'[r] = 1
      BY <1>3, <1>7, <2>6 DEF ReadTerms, Refuse
    <3>2. got'[r] \in DOMAIN plan[r].terms
      BY <2>4, <2>5, <3>1
    <3>3. QED
      BY <1>1, <1>2, <1>7, <3>2 DEF UniqueInv, ListsInv
  <2>7. CASE FindAgreed(r)
    <3>1. pc[r] = "agreed" /\ got'[r] = got[r] + 1 /\ got[r] < n
      BY <1>3, <1>7, <2>4, <2>7 DEF FindAgreed, Refuse
    <3>2. got[r] \in 1 .. n
      BY <2>4, <3>1 DEF UniqueInv, ListsInv
    <3>3. got'[r] \in DOMAIN plan[r].terms
      BY <2>4, <3>1, <3>2
    <3>4. QED
      BY <1>1, <1>2, <1>7, <3>3 DEF UniqueInv, ListsInv
  <2>8. QED
    BY <2>2, <2>6, <2>7
<1>8. CASE pc'[r] \notin {"replace", "agreed"}
  BY <1>1, <1>2, <1>8 DEF UniqueInv, ListsInv
<1>9. QED
  BY <1>6, <1>7, <1>8

LEMMA UniqueFail ==
  ASSUME UniqueInv, NEW r \in Req, Fail(r)
  PROVE  UniqueInv'
<1>1. /\ RequestInv /\ DataInv /\ DataInv' /\ Moves(r) /\ Req' = Req
      /\ pc'[r] = "failed" /\ plan' = plan /\ db' = db
  BY FailData DEF UniqueInv, DataInv, Moves, Fail
<1>2. ASSUME NEW q \in Req, q # r
      PROVE  pc'[q] = pc[q] /\ got'[q] = got[q]
  BY <1>1, <1>2, OthersStay
<1>3. \A o, p \in Req : Met(o, p) => Met(o, p)'
  BY <1>1, MetStays
<1>4. \A token : Disputed(token) => Disputed(token)'
  BY <1>1, <1>3 DEF Disputed, Op
<1>5. FreshInv'
  <2>1. SUFFICES ASSUME NEW t \in DOMAIN Keys, NEW q \in Req,
                        NEW i \in LiveRows(db[t]),
                        Wants(q, t, db[t][i])', ~Replaces(q, t, i)'
                 PROVE  Explained(q, t, i)'
    BY <1>1 DEF FreshInv
  <2>2. q # r
    BY <1>1, <2>1 DEF Wants
  <2>3. Wants(q, t, db[t][i]) /\ ~Replaces(q, t, i)
    BY <1>1, <1>2, <2>1, <2>2 DEF Wants, Replaces, User
  <2>4. Explained(q, t, i)
    BY <2>3 DEF UniqueInv, FreshInv
  <2>5. QED
    BY <1>1, <1>3, <1>4, <2>4 DEF Explained
<1>6. TwinsInv'
  BY <1>1, <1>3, <1>4 DEF UniqueInv, TwinsInv, Justified, InsertersMet
<1>7. ListsInv'
  BY <1>1, <1>2 DEF UniqueInv, ListsInv
<1>8. QED
  BY <1>1, <1>5, <1>6, <1>7 DEF UniqueInv

LEMMA UniqueStart == Init => UniqueInv
<1> SUFFICES ASSUME Init PROVE UniqueInv
  OBVIOUS
<1>1. DataInv
  BY DataStart
<1>2. \A r \in Req : pc[r] = "idle"
  BY DEF Init, RequestsInit
<1>3. db = StartDb
  BY DEF Init
<1>4. QED
  BY <1>1, <1>2, <1>3, StartAssumption
     DEF UniqueInv, ListsInv, FreshInv, TwinsInv, Wants

LEMMA UniqueStep == UniqueInv /\ [Next]_accountVars => UniqueInv'
<1> SUFFICES ASSUME UniqueInv, [Next]_accountVars PROVE UniqueInv'
  OBVIOUS
<1>1. ASSUME NEW r \in Req, Handle(r) PROVE UniqueInv'
  <2>1. DataInv'
    BY <1>1, HandleData DEF UniqueInv
  <2>2. QED
    BY <1>1, <2>1, FreshHandle, TwinsHandle, ListsHandle DEF UniqueInv
<1>2. ASSUME NEW r \in Req, Fail(r) PROVE UniqueInv'
  BY <1>2, UniqueFail
<1>3. ASSUME \/ \E u \in DOMAIN codes : ExpireCode(u)
             \/ Tick \/ UNCHANGED accountVars
      PROVE  UniqueInv'
  <2>1. DataInv' /\ UNCHANGED <<requestVars, db>>
    BY <1>3, OtherData DEF UniqueInv
  <2>2. plan' = plan /\ pc' = pc /\ got' = got /\ past' = past /\ db' = db
    BY <2>1 DEF requestVars
  <2>3. QED
    BY <2>1, <2>2
       DEF UniqueInv, ListsInv, FreshInv, TwinsInv, Wants, Replaces, Explained,
           Justified, InsertersMet, Disputed, Met, Req, Op, User
<1>4. QED
  BY <1>1, <1>2, <1>3 DEF Next

\* Two rows that say the same were inserted by requests that met; of device
\* tokens, two requests for the token met.
THEOREM UniqueInvariant == Spec => []UniqueInv
BY UniqueStart, UniqueStep, PTL DEF Spec

-----------------------------------------------------------------------------
(* Nicknames.                                                              *)

\* Requests that gave u and v the nickname met.
MetTakers(u, v, nick) == \E q \in Takers(u, nick) : MetAny(q, Takers(v, nick))

\* Where a user's row and nickname come from.  A user with the nickname of a
\* request that is about to store it again has got it since that one came.
NamedInv ==
  /\ \A u \in UserIds : \A q \in Req :
       q = db.users[u].by => Op(q) = "signUp" /\ pc[q] # "idle"
  /\ \A r \in Req : Op(r) = "profile" =>
       \/ got[r] = None
       \/ pc[r] = "done" /\ got[r] = plan[r].nick /\ User(r) \in UserIds
  /\ \A r \in Req : pc[r] \in {"nick", "profile"} =>
       /\ User(r) \in UserIds
       /\ db.users[User(r)].nick = plan[r].nick =>
            \E p \in Takers(User(r), plan[r].nick) :
              Op(p) = "profile" /\ p \notin past[r]

\* No other user has the nickname a request is about to store, but for
\* requests that met.
NickFreshInv ==
  \A r \in Req : pc[r] = "profile" =>
    \A u \in LiveRows(db.users) \ {User(r)} :
      LET nick == plan[r].nick
      IN db.users[u].nick = nick =>
           \/ MetAny(r, Takers(u, nick))
           \/ MetTakers(u, User(r), nick)
           \/ TookBlindly(User(r), u, nick)

NickInv == DataInv /\ NamedInv /\ NickFreshInv /\ NicknamesUnique

LEMMA NickTypes ==
  ASSUME DataInv
  PROVE  /\ \A u \in UserIds : db.users[u].nick \in Nicknames
         /\ \A r \in Req : Op(r) = "profile" => plan[r].nick \in Nicknames
         /\ None \notin Nicknames /\ None \notin UserIds
         /\ RequestInv /\ StageInv
         /\ LiveRows(db.users) \subseteq UserIds
<1>1. db.users \in Seq(UserRow(Writers)) /\ plan \in Plans
  BY TableTypes DEF DataInv, StoreInv
<1>2. \A u \in UserIds : db.users[u] \in UserRow(Writers) /\ u \in Nat
  BY <1>1 DEF UserIds
<1>3. \A u \in UserIds : db.users[u].nick \in Nicknames
  BY <1>2 DEF UserRow
<1>4. QED
  BY <1>1, <1>2, <1>3, RequestTypes, NoneAssumption DEF DataInv, LiveRows, UserIds

LEMMA TakersRun ==
  ASSUME NickInv, NEW x \in UserIds, NEW nick \in Nicknames,
         NEW q \in Takers(x, nick)
  PROVE  q \in Req /\ pc[q] # "idle" /\ Op(q) \in {"profile", "signUp"}
<1>1. q \in Req
  BY DEF Takers
<1>2. CASE Op(q) = "profile" /\ got[q] = nick
  BY <1>1, <1>2, NickTypes DEF NickInv, NamedInv
<1>3. CASE q = db.users[x].by
  BY <1>1, <1>3 DEF NickInv, NamedInv
<1>4. QED
  BY <1>2, <1>3 DEF Takers

\* Only a request that stores the nickname joins those that gave it.
LEMMA TakersStep ==
  ASSUME NickInv, NEW r \in Req, Handle(r), NEW x \in UserIds,
         NEW nick \in Nicknames
  PROVE  /\ x \in UserIds'
         /\ Takers(x, nick) \subseteq Takers(x, nick)'
         /\ \A q \in Takers(x, nick)' : q \notin Takers(x, nick) =>
              q = r /\ SetNickname(r) /\ User(r) = x /\ plan[r].nick = nick
         /\ SetNickname(r) /\ User(r) = x /\ plan[r].nick = nick =>
              r \in Takers(x, nick)' /\ Op(r) = "profile"
<1>1. /\ RequestInv /\ StageInv /\ DataInv /\ DataInv' /\ plan' = plan /\ Moves(r)
      /\ Req' = Req /\ x \in UserIds'
  BY HandleData DEF NickInv, DataInv, Moves
<1>2. db'.users[x].by = db.users[x].by
  BY <1>1, UsersKept
<1>3. ASSUME NEW q \in Req, q # r
      PROVE  got'[q] = got[q]
  BY <1>1, <1>3, OthersStay
<1>4. ASSUME Op(r) = "profile", got[r] = nick
      PROVE  FALSE
  <2>1. Ended(r)
    BY <1>4, NickTypes DEF NickInv, NamedInv, Ended, Ends
  <2>2. QED
    BY <1>1, <2>1 DEF Moves, Ended
<1>5. ASSUME Op(r) = "profile", got'[r] = nick
      PROVE  SetNickname(r) /\ plan[r].nick = nick
  <2>1. FindProfile(r) \/ FindNickname(r) \/ SetNickname(r)
    BY <1>1, <1>5, HandleFollows DEF Follows
  <2>2. ASSUME NEW from, NEW to, NEW v, Step(r, from, to, v)
        PROVE  got'[r] = v
    BY <1>1, <2>2, StepGoes
  <2>3. nick # None
    BY NickTypes DEF NickInv
  <2>4. SetNickname(r)
    BY <1>5, <2>1, <2>2, <2>3 DEF FindProfile, FindNickname, Refuse
  <2>5. QED
    BY <1>5, <2>2, <2>4 DEF SetNickname
<1>6. ASSUME SetNickname(r), plan[r].nick = nick
      PROVE  Op(r) = "profile" /\ got'[r] = nick
  <2>1. pc[r] = "profile" /\ got'[r] = plan[r].nick
    BY <1>1, <1>6, StepGoes DEF SetNickname
  <2>2. QED
    BY <1>1, <1>6, <2>1 DEF StageInv, StageOps
<1>7. Takers(x, nick) \subseteq Takers(x, nick)'
  BY <1>1, <1>2, <1>3, <1>4 DEF Takers, Op, User
<1>8. ASSUME NEW q \in Takers(x, nick)', q \notin Takers(x, nick)
      PROVE  q = r /\ SetNickname(r) /\ User(r) = x /\ plan[r].nick = nick
  <2>1. q \in Req /\ Op(q) = "profile" /\ User(q) = x /\ got'[q] = nick
    BY <1>1, <1>2, <1>8 DEF Takers, Op, User
  <2>2. q = r
    BY <1>3, <1>8, <2>1 DEF Takers
  <2>3. QED
    BY <1>5, <2>1, <2>2
<1>9. ASSUME SetNickname(r), User(r) = x, plan[r].nick = nick
      PROVE  r \in Takers(x, nick)' /\ Op(r) = "profile"
  BY <1>1, <1>6, <1>9 DEF Takers, Op, User
<1>10. QED
  BY <1>1, <1>7, <1>8, <1>9

LEMMA MetTakersStays ==
  ASSUME NickInv, NEW r \in Req, Handle(r), NEW u \in UserIds, NEW v \in UserIds,
         NEW nick \in Nicknames, MetTakers(u, v, nick)
  PROVE  MetTakers(u, v, nick)'
<1>1. PICK q \in Takers(u, nick), p \in Takers(v, nick) : Met(p, q)
  BY DEF MetTakers, MetAny
<1>2. q \in Takers(u, nick)' /\ p \in Takers(v, nick)'
  BY <1>1, TakersStep
<1>3. q \in Req /\ p \in Req
  BY <1>1 DEF Takers
<1>4. Met(p, q)'
  BY <1>1, <1>3, HandleData, MetStays DEF NickInv, DataInv
<1>5. QED
  BY <1>2, <1>4 DEF MetTakers, MetAny

\* A sign-up that gave u the nickname before v got it, which v had when
\* request r came for it again, has met the one that gave it to v, if not r.
LEMMA BlindlyMet ==
  ASSUME NickInv, NEW r \in Req, pc[r] \in {"nick", "profile"},
         NEW nick, nick = plan[r].nick, db.users[User(r)].nick = nick,
         NEW u \in UserIds,
         NEW q \in Takers(u, nick), Op(q) = "signUp",
         \A p \in Takers(User(r), nick) : q \notin past[p],
         q \in past[r]
  PROVE  MetTakers(u, User(r), nick)
<1>1. RequestInv /\ StageInv /\ Op(r) = "profile" /\ nick \in Nicknames
  BY NickTypes DEF NickInv, StageInv, StageOps
<1>2. User(r) \in UserIds
  BY DEF NickInv, NamedInv
<1>3. PICK p \in Takers(User(r), nick) : Op(p) = "profile" /\ p \notin past[r]
  BY DEF NickInv, NamedInv
<1>4. q \in Req /\ pc[q] # "idle" /\ p \in Req /\ pc[p] # "idle" /\ q # p
  BY <1>1, <1>2, <1>3, TakersRun
<1>5. p \notin past[q]
  BY <1>1, <1>3 DEF RequestInv
<1>6. Met(p, q)
  BY <1>3, <1>4, <1>5 DEF Met
<1>7. QED
  BY <1>3, <1>6 DEF MetTakers, MetAny

LEMMA BlindlyStays ==
  ASSUME NickInv, NEW r \in Req, Handle(r), NEW u \in UserIds, NEW v \in UserIds,
         NEW nick \in Nicknames, TookBlindly(u, v, nick),
         SetNickname(r) /\ User(r) = v /\ plan[r].nick = nick =>
           db.users[v].nick = nick
  PROVE  TookBlindly(u, v, nick)' \/ MetTakers(u, v, nick)'
<1>1. /\ RequestInv /\ plan' = plan /\ Moves(r) /\ Req' = Req
  BY HandleData DEF NickInv, DataInv, Moves
<1>2. PICK q \in Takers(u, nick) : /\ Op(q) = "signUp"
                                   /\ \A p \in Takers(v, nick) : q \notin past[p]
  BY DEF TookBlindly
<1>3. q \in Takers(u, nick)' /\ Op(q)' = "signUp"
  BY <1>1, <1>2, TakersStep DEF Op
<1>4. ASSUME NEW p \in Takers(v, nick)
      PROVE  q \notin past'[p]
  <2>1. p \in Req /\ pc[p] # "idle"
    BY <1>4, TakersRun
  <2>2. QED
    BY <1>1, <1>2, <1>4, <2>1, PastStays
<1>5. CASE \A p \in Takers(v, nick)' : p \in Takers(v, nick)
  BY <1>3, <1>4, <1>5 DEF TookBlindly
<1>6. CASE \E p \in Takers(v, nick)' : p \notin Takers(v, nick)
  <2>1. SetNickname(r) /\ User(r) = v /\ plan[r].nick = nick
    BY <1>6, TakersStep
  <2>2. \A p \in Takers(v, nick)' : p \notin Takers(v, nick) => p = r
    BY TakersStep
  <2>3. pc[r] = "profile" /\ db.users[v].nick = nick
    BY <1>1, <2>1, StepGoes DEF SetNickname
  <2>4. past'[r] = past[r]
    BY <1>1, <2>3, PastStays
  <2>5. CASE q \notin past[r]
    BY <1>3, <1>4, <2>2, <2>4, <2>5 DEF TookBlindly
  <2>6. CASE q \in past[r]
    <3>1. MetTakers(u, v, nick)
      BY <1>2, <2>1, <2>3, <2>6, BlindlyMet
    <3>2. QED
      BY <3>1, MetTakersStays
  <2>7. QED
    BY <2>5, <2>6
<1>7. QED
  BY <1>5, <1>6

LEMMA NamedHandle ==
  ASSUME NickInv, NEW r \in Req, Handle(r)
  PROVE  NamedInv'
<1>1. /\ RequestInv /\ StageInv /\ DataInv /\ DataInv' /\ plan' = plan /\ Moves(r)
      /\ Req' = Req /\ UserIds \subseteq UserIds'
  BY HandleData DEF NickInv, DataInv, Moves
<1>2. ASSUME NEW q \in Req, q # r
      PROVE  pc'[q] = pc[q] /\ got'[q] = got[q] /\ past'[q] = past[q]
  BY <1>1, <1>2, OthersStay
<1>3. ASSUME NEW from, NEW to, NEW v, Step(r, from, to, v)
      PROVE  pc[r] = from /\ pc'[r] = to /\ got'[r] = v
  BY <1>1, <1>3, StepGoes
<1>4. Follows(r)
  BY <1>1, HandleFollows
<1>5. \A q \in Req : pc[q] # "idle" => pc'[q] # "idle" /\ past'[q] = past[q]
  BY <1>1, PastStays
<1>6. ASSUME NEW u \in UserIds', NEW q \in Req, q = db'.users[u].by
      PROVE  Op(q) = "signUp" /\ pc'[q] # "idle"
  <2>1. CASE u \in UserIds
    <3>1. db'.users[u].by = db.users[u].by
      BY <1>1, <2>1, UsersKept
    <3>2. QED
      BY <1>5, <1>6, <2>1, <3>1 DEF NickInv, NamedInv
  <2>2. CASE u \notin UserIds
    <3>1. CreateUser(r) /\ db'.users[u].by = r
      <4>1. PICK row : row = db'.users[u]
        OBVIOUS
      <4>2. /\ CreateUser(r)
            /\ row = [person |-> plan[r].person, nick |-> plan[r].nick,
                      token |-> None, email |-> None, live |-> TRUE, by |-> r]
        BY <1>1, <1>6, <2>2, <4>1, NewUsers
      <4>3. QED
        BY <4>1, <4>2
    <3>2. pc[r] = "create" /\ pc'[r] = "sign"
      BY <1>3, <3>1 DEF CreateUser
    <3>3. QED
      BY <1>1, <1>6, <3>1, <3>2 DEF StageInv, StageOps
  <2>3. QED
    BY <2>1, <2>2
<1>7. ASSUME NEW q \in Req, Op(q) = "profile"
      PROVE  \/ got'[q] = None
             \/ pc'[q] = "done" /\ got'[q] = plan[q].nick /\ User(q) \in UserIds'
  <2>1. CASE q # r
    BY <1>1, <1>2, <1>7, <2>1 DEF NickInv, NamedInv
  <2>2. CASE q = r
    <3>1. FindProfile(r) \/ FindNickname(r) \/ SetNickname(r)
      BY <1>4, <1>7, <2>2 DEF Follows
    <3>2. CASE FindProfile(r) \/ FindNickname(r)
      BY <1>3, <2>2, <3>2 DEF FindProfile, FindNickname, Refuse
    <3>3. CASE SetNickname(r)
      <4>1. pc[r] = "profile" /\ pc'[r] = "done" /\ got'[r] = plan[r].nick
        BY <1>3, <3>3 DEF SetNickname
      <4>2. User(r) \in UserIds
        BY <4>1 DEF NickInv, NamedInv
      <4>3. QED
        BY <1>1, <2>2, <4>1, <4>2
    <3>4. QED
      BY <3>1, <3>2, <3>3
  <2>3. QED
    BY <2>1, <2>2
<1>8. ASSUME NEW q \in Req, pc'[q] \in {"nick", "profile"}
      PROVE  /\ User(q) \in UserIds
             /\ db'.users[User(q)].nick = plan[q].nick =>
                  \E p \in Takers(User(q), plan[q].nick)' :
                    Op(p) = "profile" /\ p \notin past'[q]
  <2>1. Op(q) = "profile" /\ plan[q].nick \in Nicknames
    BY <1>1, <1>8, NickTypes DEF DataInv, StageInv, StageOps, Op
  <2>2. CASE pc[q] \in {"nick", "profile"}
    <3>1. User(q) \in UserIds /\ pc[q] \notin Ends /\ past'[q] = past[q]
      BY <1>5, <2>2 DEF NickInv, NamedInv, Ends
    <3>2. CASE db.users[User(q)].nick = plan[q].nick
      <4>1. PICK p \in Takers(User(q), plan[q].nick) :
              Op(p) = "profile" /\ p \notin past[q]
        BY <2>2, <3>2 DEF NickInv, NamedInv
      <4>2. p \in Takers(User(q), plan[q].nick)'
        <5>1. PICK nick, x : nick = plan[q].nick /\ x = User(q)
          OBVIOUS
        <5>2. p \in Takers(x, nick)'
          BY <2>1, <3>1, <4>1, <5>1, TakersStep
        <5>3. x = User(q)' /\ nick = plan'[q].nick
          BY <1>1, <5>1 DEF User
        <5>4. QED
          BY <5>2, <5>3
      <4>3. QED
        BY <3>1, <4>1, <4>2
    <3>3. CASE db.users[User(q)].nick # plan[q].nick
      <4>1. PICK nick, x : nick = plan[q].nick /\ x = User(q)
        OBVIOUS
      <4>2. SUFFICES ASSUME db'.users[x].nick = nick
                     PROVE  \E p \in Takers(x, nick)' :
                              Op(p) = "profile" /\ p \notin past'[q]
        BY <1>1, <3>1, <4>1 DEF User
      <4>3. SetNickname(r) /\ x = User(r) /\ plan[r].nick = nick
        BY <1>1, <3>1, <3>3, <4>1, <4>2, UsersKept
      <4>4. r \in Takers(x, nick)' /\ Op(r) = "profile"
        BY <2>1, <3>1, <4>1, <4>3, TakersStep
      <4>5. r \notin past[q]
        BY <1>1 DEF RequestInv, Moves, Ended
      <4>6. QED
        BY <3>1, <4>4, <4>5
    <3>4. QED
      BY <3>2, <3>3
  <2>3. CASE pc[q] \notin {"nick", "profile"}
    <3>1. q = r
      BY <1>2, <1>8, <2>3
    <3>2. FindProfile(r)
      BY <1>3, <1>4, <1>8, <2>1, <2>3, <3>1 DEF Follows, FindNickname, SetNickname
    <3>3. User(r) \in UserIds /\ plan[r].nick # db.users[User(r)].nick
      BY <1>3, <1>8, <3>1, <3>2 DEF FindProfile, FindOneUser, Refuse, UserIds
    <3>4. db' = db
      BY <3>2 DEF FindProfile, NoWrite
    <3>5. QED
      BY <3>1, <3>3, <3>4
  <2>4. QED
    BY <2>2, <2>3
<1>9. \A q \in Req : Op(q)' = Op(q) /\ User(q)' = User(q)
  BY <1>1 DEF Op, User
<1>10. QED
  <2>1. \A u \in UserIds' : \A q \in Req' :
          q = db'.users[u].by => Op(q)' = "signUp" /\ pc'[q] # "idle"
    BY <1>1, <1>6, <1>9
  <2>2. \A q \in Req' : Op(q)' = "profile" =>
          \/ got'[q] = None
          \/ pc'[q] = "done" /\ got'[q] = plan'[q].nick /\ User(q)' \in UserIds'
    BY <1>1, <1>7, <1>9
  <2>3. ASSUME NEW q \in Req', pc'[q] \in {"nick", "profile"}
        PROVE  (/\ User(q) \in UserIds
                /\ db.users[User(q)].nick = plan[q].nick =>
                     \E p \in Takers(User(q), plan[q].nick) :
                       Op(p) = "profile" /\ p \notin past[q])'
    <3>1. /\ User(q) \in UserIds
          /\ db'.users[User(q)].nick = plan[q].nick =>
               \E p \in Takers(User(q), plan[q].nick)' :
                 Op(p) = "profile" /\ p \notin past'[q]
      BY <1>1, <1>8, <2>3
    <3>2. \A p \in Takers(User(q), plan[q].nick)' : p \in Req
      BY <1>1 DEF Takers
    <3>3. q \in Req /\ plan'[q].nick = plan[q].nick
      BY <1>1, <2>3
    <3>4. QED
      BY <1>1, <1>9, <3>1, <3>2, <3>3
  <2>4. QED
    BY <2>1, <2>2, <2>3 DEF NamedInv

\* Two live users of one nickname were not two live users of it before only
\* if one has got it.
LEMMA NickFreshHandle ==
  ASSUME NickInv, NEW r \in Req, Handle(r)
  PROVE  NickFreshInv'
<1>1. /\ RequestInv /\ StageInv /\ DataInv /\ DataInv' /\ plan' = plan /\ Moves(r)
      /\ Req' = Req /\ UserIds \subseteq UserIds'
  BY HandleData DEF NickInv, DataInv, Moves
<1>2. ASSUME NEW from, NEW to, NEW v, Step(r, from, to, v)
      PROVE  pc[r] = from /\ pc'[r] = to /\ got'[r] = v
  BY <1>1, <1>2, StepGoes
<1>3. SUFFICES ASSUME NEW q \in Req, pc'[q] = "profile",
                      NEW u \in LiveRows(db'.users), u # User(q),
                      NEW nick, nick = plan[q].nick, db'.users[u].nick = nick
               PROVE  \/ MetAny(q, Takers(u, nick))'
                      \/ MetTakers(u, User(q), nick)'
                      \/ TookBlindly(User(q), u, nick)'
  BY <1>1 DEF NickFreshInv, LiveRows, User
<1>4. Op(q) = "profile" /\ nick \in Nicknames
  BY <1>1, <1>3, NickTypes DEF DataInv, StageInv, StageOps, Op
<1>5. \A s \in Req : Met(s, q) => Met(s, q)'
  BY <1>1, MetStays
<1>6. u \in UserIds'
  BY <1>3 DEF LiveRows, UserIds
\* The one who has it, or gets it now.
<1>7. ASSUME q # r, r \in Takers(u, nick)'
      PROVE  MetAny(q, Takers(u, nick))'
  <2>1. pc[q] = "profile" /\ pc'[r] # "idle"
    BY <1>1, <1>3, <1>7, OthersStay DEF Moves
  <2>2. past'[q] = past[q] /\ r \notin past[q]
    BY <1>1, <2>1, PastStays DEF RequestInv, Moves, Ended
  <2>3. ~Ended(q) /\ pc'[q] # "idle"
    BY <1>3, <2>1 DEF Ended, Ends
  <2>4. q \notin past'[r]
    <3>1. past'[r] = past[r] \/ past'[r] = {s \in Req : Ended(s)}
      BY <1>1 DEF Moves, RequestInv
    <3>2. QED
      BY <1>1, <2>3, <3>1 DEF RequestInv
  <2>5. Met(r, q)'
    BY <1>3, <1>7, <2>1, <2>2, <2>3, <2>4 DEF Met
  <2>6. QED
    BY <1>7, <2>5 DEF MetAny
<1>8. CASE u \notin UserIds
  <2>1. CreateUser(r) /\ db'.users[u].by = r /\ db'.users[u].nick = plan[r].nick
    <3>1. PICK row : row = db'.users[u]
      OBVIOUS
    <3>2. /\ CreateUser(r)
          /\ row = [person |-> plan[r].person, nick |-> plan[r].nick,
                    token |-> None, email |-> None, live |-> TRUE, by |-> r]
      BY <1>1, <1>6, <1>8, <3>1, NewUsers
    <3>3. QED
      BY <3>1, <3>2
  <2>2. q # r
    BY <1>2, <1>3, <2>1 DEF CreateUser
  <2>3. r \in Takers(u, nick)'
    BY <1>1, <1>3, <2>1 DEF Takers
  <2>4. QED
    BY <1>7, <2>2, <2>3
<1>9. CASE u \in UserIds
  <2>1. /\ db'.users[u].live => db.users[u].live
        /\ db'.users[u].nick = IF SetNickname(r) /\ u = User(r) THEN plan[r].nick
                                                                ELSE db.users[u].nick
    BY <1>1, <1>9, UsersKept
  <2>2. u \in LiveRows(db.users)
    BY <1>3, <1>9, <2>1 DEF LiveRows, UserIds
  <2>3. CASE q = r
    <3>1. FindNickname(r)
      BY <1>1, <1>2, <1>3, <1>4, <2>3, HandleFollows
         DEF Follows, FindProfile, SetNickname, Refuse
    <3>2. /\ pc[r] = "nick" /\ NicknameFree(r) /\ db' = db
          /\ Step(r, "nick", "profile", None)
      BY <1>2, <1>3, <2>3, <3>1 DEF FindNickname, Refuse, NoWrite
    <3>3. u \in FindByNickname(db, nick)
      BY <1>3, <2>2, <3>2 DEF FindByNickname
    <3>4. User(r) \in FindByNickname(db, nick) /\ User(r) \in UserIds
      BY <1>3, <2>3, <3>2, <3>3, NickTypes
         DEF NicknameFree, AnyOf, NickInv, NamedInv, FindByNickname
    <3>5. PICK v : v = User(r)
      OBVIOUS
    <3>6. /\ v \in LiveRows(db.users) /\ v \in UserIds /\ u # v
          /\ db.users[v].nick = nick /\ db.users[u].nick = nick
      BY <1>3, <2>3, <3>2, <3>4, <3>5 DEF FindByNickname
    <3>7. <<u, v>> \in Twins(db.users, {"nick"})
      BY <2>2, <3>6 DEF Twins
    <3>8. MetTakers(u, v, nick) \/ TookBlindly(u, v, nick) \/ TookBlindly(v, u, nick)
      BY <3>6, <3>7 DEF NickInv, NicknamesUnique, MetTakers
    <3>9. ~SetNickname(r)
      BY <1>2, <3>2 DEF SetNickname
    <3>10. CASE MetTakers(u, v, nick)
      <4>1. MetTakers(u, v, nick)'
        BY <1>4, <1>9, <3>6, <3>10, MetTakersStays
      <4>2. QED
        BY <1>1, <2>3, <3>5, <4>1 DEF User
    <3>11. CASE TookBlindly(v, u, nick)
      <4>1. TookBlindly(v, u, nick)' \/ MetTakers(v, u, nick)'
        BY <1>4, <1>9, <3>6, <3>9, <3>11, BlindlyStays
      <4>2. MetTakers(v, u, nick)' => MetTakers(u, v, nick)'
        BY DEF MetTakers, MetAny, Met
      <4>3. QED
        BY <1>1, <2>3, <3>5, <4>1, <4>2 DEF User
    <3>12. CASE TookBlindly(u, v, nick)
      <4>1. PICK s \in Takers(u, nick) :
              Op(s) = "signUp" /\ \A p \in Takers(v, nick) : s \notin past[p]
        BY <3>12 DEF TookBlindly
      <4>2. CASE s \in past[r]
        <5>1. MetTakers(u, v, nick)
          BY <1>3, <1>9, <2>3, <3>2, <3>5, <3>6, <4>1, <4>2, BlindlyMet
        <5>2. QED
          BY <3>10, <5>1
      <4>3. CASE s \notin past[r]
        <5>1. s \in Req /\ pc[s] # "idle" /\ s # r
          BY <1>4, <1>9, <2>3, <4>1, TakersRun
        <5>2. r \notin past[s] /\ pc[r] # "idle"
          <6>1. pc[r] = "nick" /\ ~Ended(r)
            BY <3>2 DEF Ended, Ends
          <6>2. QED
            BY <1>1, <5>1, <6>1 DEF RequestInv
        <5>3. Met(s, r)
          BY <4>3, <5>1, <5>2 DEF Met
        <5>4. Met(s, q)'
          BY <1>5, <2>3, <5>1, <5>3
        <5>5. s \in Takers(u, nick)'
          BY <1>4, <1>9, <4>1, TakersStep
        <5>6. QED
          BY <5>4, <5>5 DEF MetAny
      <4>4. QED
        BY <4>2, <4>3
    <3>13. QED
      BY <3>8, <3>10, <3>11, <3>12
  <2>4. CASE q # r /\ db.users[u].nick # nick
    <3>1. SetNickname(r) /\ u = User(r) /\ plan[r].nick = nick
      BY <1>3, <2>1, <2>4
    <3>2. r \in Takers(u, nick)'
      BY <1>4, <1>9, <3>1, TakersStep
    <3>3. QED
      BY <1>7, <2>4, <3>2
  <2>5. CASE q # r /\ db.users[u].nick = nick
    <3>1. pc[q] = "profile"
      BY <1>1, <1>3, <2>5, OthersStay
    <3>2. PICK v : v = User(q) /\ v = User(q)'
      BY <1>1 DEF User
    <3>3. v \in UserIds
      BY <3>1, <3>2 DEF NickInv, NamedInv
    <3>4. \/ MetAny(q, Takers(u, nick))
          \/ MetTakers(u, v, nick)
          \/ TookBlindly(v, u, nick)
      BY <1>3, <2>2, <2>5, <3>1, <3>2 DEF NickInv, NickFreshInv
    <3>5. CASE MetAny(q, Takers(u, nick))
      <4>1. PICK s \in Takers(u, nick) : Met(s, q)
        BY <3>5 DEF MetAny
      <4>2. s \in Takers(u, nick)' /\ s \in Req
        BY <1>4, <1>9, <4>1, TakersStep DEF Takers
      <4>3. QED
        BY <1>5, <4>1, <4>2 DEF MetAny
    <3>6. CASE MetTakers(u, v, nick)
      <4>1. MetTakers(u, v, nick)'
        BY <1>4, <1>9, <3>3, <3>6, MetTakersStays
      <4>2. QED
        BY <3>2, <4>1
    <3>7. CASE TookBlindly(v, u, nick)
      <4>1. TookBlindly(v, u, nick)' \/ MetTakers(v, u, nick)'
        BY <1>4, <1>9, <2>5, <3>3, <3>7, BlindlyStays
      <4>2. MetTakers(v, u, nick)' => MetTakers(u, v, nick)'
        BY DEF MetTakers, MetAny, Met
      <4>3. QED
        BY <3>2, <4>1, <4>2
    <3>8. QED
      BY <3>4, <3>5, <3>6, <3>7
  <2>6. QED
    BY <2>3, <2>4, <2>5
<1>10. QED
  BY <1>8, <1>9

\* Why u and v may both have the nickname.
Clash(u, v, nick) ==
  MetTakers(u, v, nick) \/ TookBlindly(u, v, nick) \/ TookBlindly(v, u, nick)

\* NicknamesUnique said of two users.
NicknamesClash ==
  \A u, v \in LiveRows(db.users) :
    u # v /\ db.users[u].nick = db.users[v].nick => Clash(u, v, db.users[u].nick)

LEMMA NicknamesMean == NicknamesUnique <=> NicknamesClash
<1>1. ASSUME NicknamesUnique,
             NEW u \in LiveRows(db.users), NEW v \in LiveRows(db.users),
             u # v, db.users[u].nick = db.users[v].nick
      PROVE  Clash(u, v, db.users[u].nick)
  <2>1. PICK p : p = <<u, v>>
    OBVIOUS
  <2>2. p \in Twins(db.users, {"nick"}) /\ p[1] = u /\ p[2] = v
    BY <1>1, <2>1 DEF Twins
  <2>3. QED
    BY <1>1, <2>2 DEF NicknamesUnique, Clash, MetTakers
<1>2. ASSUME NicknamesClash,
             NEW p \in Twins(db.users, {"nick"})
      PROVE  Clash(p[1], p[2], db.users[p[1]].nick)
  BY <1>2 DEF Twins, NicknamesClash
<1>3. QED
  BY <1>1, <1>2 DEF NicknamesUnique, NicknamesClash, Clash, MetTakers

\* A pair that does not come of the step.
LEMMA ClashStays ==
  ASSUME NickInv, NEW r \in Req, Handle(r), NEW u \in UserIds, NEW v \in UserIds,
         NEW nick \in Nicknames, Clash(u, v, nick),
         db.users[u].nick = nick, db.users[v].nick = nick
  PROVE  Clash(u, v, nick)'
<1>1. CASE MetTakers(u, v, nick)
  BY <1>1, MetTakersStays DEF Clash
<1>2. CASE TookBlindly(u, v, nick)
  BY <1>2, BlindlyStays DEF Clash
<1>3. CASE TookBlindly(v, u, nick)
  <2>1. TookBlindly(v, u, nick)' \/ MetTakers(v, u, nick)'
    BY <1>3, BlindlyStays
  <2>2. MetTakers(v, u, nick)' => MetTakers(u, v, nick)'
    BY DEF MetTakers, MetAny, Met
  <2>3. QED
    BY <2>1, <2>2 DEF Clash
<1>4. QED
  BY <1>1, <1>2, <1>3 DEF Clash

\* User v gets, by the step, the nickname u has.
LEMMA ClashComes ==
  ASSUME NickInv, NEW r \in Req, Handle(r),
         NEW u \in LiveRows(db'.users), NEW v \in LiveRows(db'.users), u # v,
         NEW nick, db'.users[u].nick = nick, db'.users[v].nick = nick,
         u \in UserIds, db.users[u].nick = nick,
         v \in UserIds => db.users[v].nick # nick
  PROVE  Clash(u, v, nick)'
<1>1. /\ RequestInv /\ StageInv /\ DataInv /\ DataInv' /\ plan' = plan /\ Moves(r)
      /\ Req' = Req /\ UserIds \subseteq UserIds'
  BY HandleData DEF NickInv, DataInv, Moves
<1>2. ASSUME NEW from, NEW to, NEW w, Step(r, from, to, w)
      PROVE  pc[r] = from /\ pc'[r] = to /\ got'[r] = w
  BY <1>1, <1>2, StepGoes
<1>3. nick \in Nicknames
  BY <1>1, NickTypes
<1>4. v \in UserIds'
  BY DEF LiveRows, UserIds
<1>5. CASE v \notin UserIds
  <2>1. CreateUser(r) /\ db'.users[v].by = r /\ db'.users[v].nick = plan[r].nick
    <3>1. PICK row : row = db'.users[v]
      OBVIOUS
    <3>2. /\ CreateUser(r)
          /\ row = [person |-> plan[r].person, nick |-> plan[r].nick,
                    token |-> None, email |-> None, live |-> TRUE, by |-> r]
      BY <1>1, <1>4, <1>5, <3>1, NewUsers
    <3>3. QED
      BY <3>1, <3>2
  <2>2. pc[r] = "create" /\ Op(r) = "signUp" /\ ~Ended(r)
    BY <1>1, <1>2, <2>1 DEF CreateUser, StageInv, StageOps, Ended, Ends
  <2>3. r \in Takers(v, nick)' /\ Op(r)' = "signUp"
    BY <1>1, <2>1, <2>2 DEF Takers, Op
  <2>4. ~SetNickname(r)
    BY <1>2, <2>2 DEF SetNickname
  <2>5. ASSUME NEW p \in Takers(u, nick)'
        PROVE  r \notin past'[p]
    <3>1. p \in Takers(u, nick)
      BY <1>3, <2>4, <2>5, TakersStep
    <3>2. p \in Req /\ pc[p] # "idle"
      BY <1>3, <3>1, TakersRun
    <3>3. past'[p] = past[p]
      BY <1>1, <3>2, PastStays
    <3>4. QED
      BY <1>1, <2>2, <3>2, <3>3 DEF RequestInv
  <2>6. TookBlindly(v, u, nick)'
    BY <2>3, <2>5 DEF TookBlindly
  <2>7. QED
    BY <2>6 DEF Clash
<1>6. CASE v \in UserIds
  <2>1. /\ SetNickname(r) /\ v = User(r) /\ plan[r].nick = nick
        /\ db'.users[u].live => db.users[u].live
    BY <1>1, <1>6, UsersKept
  <2>2. pc[r] = "profile" /\ u \in LiveRows(db.users)
    BY <1>2, <2>1 DEF SetNickname, LiveRows, UserIds
  <2>3. \/ MetAny(r, Takers(u, nick))
        \/ MetTakers(u, v, nick)
        \/ TookBlindly(v, u, nick)
    BY <2>1, <2>2 DEF NickInv, NickFreshInv
  <2>4. CASE MetAny(r, Takers(u, nick))
    <3>1. PICK s \in Takers(u, nick) : Met(s, r)
      BY <2>4 DEF MetAny
    <3>2. s \in Req /\ s \in Takers(u, nick)' /\ r \in Takers(v, nick)'
      BY <1>3, <1>6, <2>1, <3>1, TakersStep DEF Takers
    <3>3. Met(s, r)' /\ Met(r, s)'
      BY <1>1, <3>1, <3>2, MetStays DEF Met
    <3>4. QED
      BY <3>2, <3>3 DEF Clash, MetTakers, MetAny
  <2>5. CASE MetTakers(u, v, nick)
    BY <1>3, <1>6, <2>5, MetTakersStays DEF Clash
  <2>6. CASE TookBlindly(v, u, nick)
    <3>1. TookBlindly(v, u, nick)' \/ MetTakers(v, u, nick)'
      BY <1>3, <1>6, <2>1, <2>6, BlindlyStays
    <3>2. MetTakers(v, u, nick)' => MetTakers(u, v, nick)'
      BY DEF MetTakers, MetAny, Met
    <3>3. QED
      BY <3>1, <3>2 DEF Clash
  <2>7. QED
    BY <2>3, <2>4, <2>5, <2>6
<1>7. QED
  BY <1>5, <1>6

LEMMA NicknamesHandle ==
  ASSUME NickInv, NEW r \in Req, Handle(r)
  PROVE  NicknamesUnique'
<1>1. /\ RequestInv /\ DataInv /\ DataInv' /\ plan' = plan /\ Moves(r)
      /\ Req' = Req /\ UserIds \subseteq UserIds'
  BY HandleData DEF NickInv, DataInv, Moves
<1>2. \A u, v \in LiveRows(db.users) :
        u # v /\ db.users[u].nick = db.users[v].nick => Clash(u, v, db.users[u].nick)
  BY NicknamesMean DEF NickInv, NicknamesClash
<1>3. ASSUME NEW u \in LiveRows(db'.users), NEW v \in LiveRows(db'.users), u # v,
             NEW nick, nick = db'.users[u].nick, nick = db'.users[v].nick
      PROVE  Clash(u, v, nick)'
  <2>1. u \in UserIds' /\ v \in UserIds'
    BY <1>3 DEF LiveRows, UserIds
  <2>2. CASE \E w \in {u, v} : w \in UserIds => db.users[w].nick # nick
    <3>1. ASSUME NEW w \in UserIds', w \in UserIds => db.users[w].nick # nick,
                 db'.users[w].nick = nick
          PROVE  \/ CreateUser(r) /\ w = Len(db.users) + 1
                 \/ SetNickname(r) /\ w = User(r)
      <4>1. CASE w \in UserIds
        BY <1>1, <3>1, <4>1, UsersKept
      <4>2. CASE w \notin UserIds
        BY <1>1, <3>1, <4>2, NewUsers
      <4>3. QED
        BY <4>1, <4>2
    <3>2. ~(CreateUser(r) /\ SetNickname(r))
      BY <1>1, StepGoes DEF CreateUser, SetNickname
    <3>3. \/ u \in UserIds /\ db.users[u].nick = nick
          \/ v \in UserIds /\ db.users[v].nick = nick
      BY <1>3, <2>1, <3>1, <3>2
    <3>4. CASE u \in UserIds /\ db.users[u].nick = nick
      BY <1>3, <2>2, <3>4, ClashComes
    <3>5. CASE v \in UserIds /\ db.users[v].nick = nick
      <4>1. CASE u \in UserIds => db.users[u].nick # nick
        <5>1. Clash(v, u, nick)'
          BY <1>3, <3>5, <4>1, ClashComes
        <5>2. QED
          BY <5>1 DEF Clash, MetTakers, MetAny, Met
      <4>2. QED
        BY <3>4, <4>1
    <3>6. QED
      BY <3>3, <3>4, <3>5
  <2>3. CASE \A w \in {u, v} : w \in UserIds /\ db.users[w].nick = nick
    <3>1. u \in UserIds /\ v \in UserIds /\ nick \in Nicknames
      BY <2>3, NickTypes DEF NickInv
    <3>2. /\ db'.users[u].live => db.users[u].live
          /\ db'.users[v].live => db.users[v].live
      BY <1>1, <3>1, UsersKept
    <3>3. u \in LiveRows(db.users) /\ v \in LiveRows(db.users)
      BY <1>3, <3>1, <3>2 DEF LiveRows, UserIds
    <3>4. Clash(u, v, nick)
      BY <1>2, <1>3, <2>3, <3>3
    <3>5. QED
      BY <2>3, <3>1, <3>4, ClashStays
  <2>4. QED
    BY <2>2, <2>3
<1>4. NicknamesClash'
  <2>1. ASSUME NEW u \in LiveRows(db.users)', NEW v \in LiveRows(db.users)', u # v,
               db'.users[u].nick = db'.users[v].nick
        PROVE  Clash(u, v, db.users[u].nick)'
    <3>1. PICK nick : nick = db'.users[u].nick
      OBVIOUS
    <3>2. Clash(u, v, nick)'
      BY <1>3, <2>1, <3>1 DEF LiveRows
    <3>3. QED
      BY <3>1, <3>2
  <2>2. QED
    BY <2>1 DEF NicknamesClash
<1>5. QED
  BY <1>4, NicknamesMean, PTL

LEMMA NickFail ==
  ASSUME NickInv, NEW r \in Req, Fail(r)
  PROVE  NickInv'
<1>1. /\ RequestInv /\ DataInv /\ DataInv' /\ Moves(r) /\ Req' = Req
      /\ pc'[r] = "failed" /\ got'[r] = None /\ pc[r] # "idle"
      /\ plan' = plan /\ db' = db /\ UserIds' = UserIds
  BY FailData DEF NickInv, DataInv, Moves, Fail, UserIds
<1>2. ASSUME NEW q \in Req, q # r
      PROVE  pc'[q] = pc[q] /\ got'[q] = got[q] /\ past'[q] = past[q]
  BY <1>1, <1>2, OthersStay
<1>3. past' = past /\ ~Ended(r)
  BY <1>1 DEF Moves, Ended
<1>4. None \notin Nicknames
  BY NoneAssumption
<1>5. ASSUME NEW x, NEW nick \in Nicknames
      PROVE  Takers(x, nick)' = Takers(x, nick)
  <2>1. Op(r) = "profile" => got[r] # nick
    BY <1>3, <1>4, <1>5 DEF NickInv, NamedInv, Ended, Ends
  <2>2. QED
    BY <1>1, <1>2, <1>4, <2>1 DEF Takers, Op, User
<1>6. \A p, q \in Req : Met(p, q) => Met(p, q)'
  BY <1>1, MetStays
<1>7. ASSUME NEW u, NEW v, NEW nick \in Nicknames
      PROVE  /\ MetTakers(u, v, nick) => MetTakers(u, v, nick)'
             /\ TookBlindly(u, v, nick) => TookBlindly(u, v, nick)'
             /\ \A q \in Req : MetAny(q, Takers(u, nick)) => MetAny(q, Takers(u, nick))'
             /\ Clash(u, v, nick) => Clash(u, v, nick)'
  <2>1. Takers(u, nick)' = Takers(u, nick) /\ Takers(v, nick)' = Takers(v, nick)
    BY <1>5
  <2>2. Takers(u, nick) \subseteq Req /\ Takers(v, nick) \subseteq Req
    BY DEF Takers
  <2>3. MetTakers(u, v, nick) => MetTakers(u, v, nick)'
    BY <1>6, <2>1, <2>2 DEF MetTakers, MetAny
  <2>4. \A a, b \in {u, v} : TookBlindly(a, b, nick) => TookBlindly(a, b, nick)'
    BY <1>1, <1>3, <2>1 DEF TookBlindly, Op
  <2>5. \A q \in Req : MetAny(q, Takers(u, nick)) => MetAny(q, Takers(u, nick))'
    BY <1>6, <2>1, <2>2 DEF MetAny
  <2>6. QED
    BY <2>3, <2>4, <2>5 DEF Clash
<1>8. NamedInv'
  <2>1. \A u \in UserIds : \A q \in Req :
          q = db.users[u].by => Op(q) = "signUp" /\ pc'[q] # "idle"
    BY <1>1, <1>2 DEF NickInv, NamedInv
  <2>2. \A q \in Req : Op(q) = "profile" =>
          \/ got'[q] = None
          \/ pc'[q] = "done" /\ got'[q] = plan[q].nick /\ User(q) \in UserIds
    BY <1>1, <1>2 DEF NickInv, NamedInv
  <2>3. ASSUME NEW q \in Req, pc'[q] \in {"nick", "profile"}
        PROVE  /\ User(q) \in UserIds
               /\ db.users[User(q)].nick = plan[q].nick =>
                    \E p \in Takers(User(q), plan[q].nick) :
                      Op(p) = "profile" /\ p \notin past[q]
    BY <1>1, <1>2, <2>3 DEF NickInv, NamedInv
  <2>4. ASSUME NEW q \in Req, pc'[q] \in {"nick", "profile"}
        PROVE  Takers(User(q), plan[q].nick)' = Takers(User(q), plan[q].nick)
    <3>1. PICK x, nick : x = User(q) /\ nick = plan[q].nick
      OBVIOUS
    <3>2. nick \in Nicknames
      BY <1>1, <2>4, <3>1, NickTypes DEF DataInv, StageInv, StageOps, Op
    <3>3. Takers(x, nick)' = Takers(x, nick)
      BY <1>5, <3>2
    <3>4. QED
      BY <1>1, <3>1, <3>3 DEF User
  <2>5. QED
    BY <1>1, <1>3, <2>1, <2>2, <2>3, <2>4 DEF NamedInv, Op, User
<1>9. NickFreshInv'
  <2>1. SUFFICES ASSUME NEW q \in Req, pc'[q] = "profile",
                        NEW u \in LiveRows(db.users), u # User(q),
                        NEW nick, nick = plan[q].nick, db.users[u].nick = nick
                 PROVE  \/ MetAny(q, Takers(u, nick))'
                        \/ MetTakers(u, User(q), nick)'
                        \/ TookBlindly(User(q), u, nick)'
    BY <1>1 DEF NickFreshInv, LiveRows, User
  <2>2. pc[q] = "profile" /\ nick \in Nicknames
    BY <1>1, <1>2, <2>1, NickTypes DEF DataInv, StageInv, StageOps, Op
  <2>3. PICK v : v = User(q) /\ v = User(q)'
    BY <1>1 DEF User
  <2>4. \/ MetAny(q, Takers(u, nick))
        \/ MetTakers(u, v, nick)
        \/ TookBlindly(v, u, nick)
    BY <2>1, <2>2, <2>3 DEF NickInv, NickFreshInv
  <2>5. \/ MetAny(q, Takers(u, nick))'
        \/ MetTakers(u, v, nick)'
        \/ TookBlindly(v, u, nick)'
    BY <1>7, <2>2, <2>4
  <2>6. QED
    BY <2>3, <2>5
<1>10. NicknamesUnique'
  <2>1. ASSUME NEW u \in LiveRows(db.users)', NEW v \in LiveRows(db.users)', u # v,
               db'.users[u].nick = db'.users[v].nick
        PROVE  Clash(u, v, db.users[u].nick)'
    <3>1. PICK nick : nick = db.users[u].nick
      OBVIOUS
    <3>2. u \in LiveRows(db.users) /\ v \in LiveRows(db.users)
      BY <1>1, <2>1 DEF LiveRows
    <3>3. Clash(u, v, nick) /\ nick \in Nicknames
      BY <1>1, <2>1, <3>1, <3>2, NicknamesMean, NickTypes
         DEF NickInv, NicknamesClash
    <3>4. Clash(u, v, nick)'
      BY <1>7, <3>3
    <3>5. QED
      BY <1>1, <3>1, <3>4
  <2>2. NicknamesClash'
    BY <2>1 DEF NicknamesClash
  <2>3. QED
    BY <2>2, NicknamesMean, PTL
<1>11. QED
  BY <1>1, <1>8, <1>9, <1>10 DEF NickInv

LEMMA NickStart == Init => NickInv
<1> SUFFICES ASSUME Init PROVE NickInv
  OBVIOUS
<1>1. DataInv
  BY DataStart
<1>2. \A r \in Req : pc[r] = "idle" /\ got[r] = None
  BY <1>1 DEF Init, RequestsInit, DataInv, RequestInv
<1>3. db = StartDb
  BY DEF Init
<1>4. Req \cap {0} = {}
  BY <1>1, RequestNumbers DEF DataInv, StoreInv
<1>5. \A u \in UserIds : db.users[u].by \notin Req
  <2>1. StartDb.users \in Seq(UserRow({0}))
    BY StartAssumption, TableTypes
  <2>2. PICK rows : rows = StartDb.users
    OBVIOUS
  <2>3. \A u \in DOMAIN rows : rows[u] \in UserRow({0})
    BY <2>1, <2>2
  <2>4. \A u \in DOMAIN rows : rows[u].by = 0
    BY <2>3 DEF UserRow
  <2>5. QED
    BY <1>3, <1>4, <2>2, <2>4 DEF UserIds
<1>6. NamedInv
  BY <1>2, <1>5 DEF NamedInv
<1>7. NickFreshInv
  BY <1>2 DEF NickFreshInv
<1>8. NicknamesUnique
  BY <1>3, StartAssumption DEF NicknamesUnique
<1>9. QED
  BY <1>1, <1>6, <1>7, <1>8 DEF NickInv

LEMMA NickStep == NickInv /\ [Next]_accountVars => NickInv'
<1> SUFFICES ASSUME NickInv, [Next]_accountVars PROVE NickInv'
  OBVIOUS
<1>1. ASSUME NEW r \in Req, Handle(r) PROVE NickInv'
  <2>1. DataInv'
    BY <1>1, HandleData DEF NickInv
  <2>2. QED
    BY <1>1, <2>1, NamedHandle, NickFreshHandle, NicknamesHandle DEF NickInv
<1>2. ASSUME NEW r \in Req, Fail(r) PROVE NickInv'
  BY <1>2, NickFail
<1>3. ASSUME \/ \E u \in DOMAIN codes : ExpireCode(u)
             \/ Tick \/ UNCHANGED accountVars
      PROVE  NickInv'
  <2>1. DataInv' /\ UNCHANGED <<requestVars, db>>
    BY <1>3, OtherData DEF NickInv
  <2>2. plan' = plan /\ pc' = pc /\ got' = got /\ past' = past /\ db' = db
    BY <2>1 DEF requestVars
  <2>3. NamedInv' /\ NickFreshInv'
    BY <2>2 DEF NickInv, NamedInv, NickFreshInv, Takers, TookBlindly, MetTakers,
                MetAny, Met, Req, Op, User, UserIds
  <2>4. NicknamesUnique'
    BY <2>2 DEF NickInv, NicknamesUnique, Takers, TookBlindly, MetAny, Met, Req,
                Op, User
  <2>5. QED
    BY <2>1, <2>3, <2>4 DEF NickInv
<1>4. QED
  BY <1>1, <1>2, <1>3 DEF Next

\* Two users have one nickname only when requests that gave it to them met or
\* a sign-up gave it; and what a handler has found free is free when it is
\* stored, but for requests that met it.
THEOREM NickInvariant == Spec => []NickInv
BY NickStart, NickStep, PTL DEF Spec

-----------------------------------------------------------------------------
(* Interest regions.                                                       *)

RegionWriter(r) == RegionsWrite(r) \/ Withdraw(r)

RegionStages == {"replace", "drop", "primary", "insert"}

\* The rows that the handler of r has chosen to write.
Chosen(r) == IF pc[r] = "primary" THEN got[r].clear \cup got[r].set ELSE got[r]

\* A handler writes rows of its user.
ChosenInv ==
  \A r \in Req : pc[r] \in {"replace", "drop", "primary"} =>
    \A i \in Chosen(r) : i \in DOMAIN db.regions /\ db.regions[i].user = User(r)

\* What the handler of r has read of the user's regions is so still.
Current(r) ==
  LET u == User(r)
  IN /\ pc[r] = "replace" => FindRegions(db, u) \subseteq got[r]
     /\ pc[r] = "drop" => \A i \in got[r] : ~db.regions[i].primary
     /\ pc[r] = "primary" => \E i \in FindRegions(db, u) :
          /\ i \notin got[r].clear /\ got[r].set \subseteq {i}
          /\ i \in got[r].set \/ db.regions[i].primary
          /\ FindPrimary(db, u) \subseteq got[r].clear \cup {i}
     /\ pc[r] = "insert" =>
          IF got[r] THEN FindRegions(db, u) = {}
          ELSE Cardinality(FindRegions(db, u)) < INTEREST_REGIONS_MAX_COUNT

CurrentInv == \A r \in Req : RegionOverlap(User(r)) \/ Current(r)

OnePrimary(u) == \A i, j \in FindPrimary(db, u) : i = j

ListReplaced(u) ==
  \E r \in Req : Op(r) = "putRegions" /\ User(r) = u /\ pc[r] # "idle"

LimitsInv ==
  \A u \in UserIds : ~RegionOverlap(u) =>
    /\ OnePrimary(u)
    /\ \/ Cardinality(FindRegions(db, u)) <= INTEREST_REGIONS_MAX_COUNT
       \/ ListReplaced(u)

RegionInv == UniqueInv /\ ChosenInv /\ CurrentInv /\ LimitsInv

LEMMA AtMostOne ==
  ASSUME NEW S, IsFiniteSet(S)
  PROVE  Cardinality(S) <= 1 <=> \A i, j \in S : i = j
<1>1. ASSUME Cardinality(S) <= 1, NEW i \in S, NEW j \in S
      PROVE  i = j
  <2>1. Cardinality(S) = 0 \/ Cardinality(S) = 1
    BY <1>1, FS_CardinalityType
  <2>2. QED
    BY <1>1, <2>1, FS_EmptySet, FS_Singleton
<1>2. ASSUME \A i, j \in S : i = j
      PROVE  Cardinality(S) <= 1
  <2>1. CASE S = {}
    BY <2>1, FS_EmptySet
  <2>2. CASE \E x : S = {x}
    BY <2>2, FS_Singleton
  <2>3. S = {} \/ \E x : S = {x}
    BY <1>2
  <2>4. QED
    BY <2>1, <2>2, <2>3
<1>3. QED
  BY <1>1, <1>2

LEMMA RegionRows ==
  ASSUME DataInv, NEW u
  PROVE  /\ db.regions \in Seq(InterestRegionRow(UserIds, Writers))
         /\ Len(db.regions) \in Nat /\ DOMAIN db.regions = 1 .. Len(db.regions)
         /\ \A i \in DOMAIN db.regions :
              db.regions[i] \in InterestRegionRow(UserIds, Writers)
         /\ FindRegions(db, u) \subseteq DOMAIN db.regions
         /\ FindPrimary(db, u) \subseteq FindRegions(db, u)
         /\ IsFiniteSet(FindRegions(db, u)) /\ IsFiniteSet(FindPrimary(db, u))
         /\ None \notin DOMAIN db.regions
<1>1. db.regions \in Seq(InterestRegionRow(UserIds, Writers))
  BY TableTypes DEF DataInv, StoreInv
<1>2. PICK rows : rows = db.regions
  OBVIOUS
<1>3. /\ Len(rows) \in Nat /\ DOMAIN rows = 1 .. Len(rows)
      /\ \A i \in DOMAIN rows : rows[i] \in InterestRegionRow(UserIds, Writers)
  BY <1>1, <1>2
<1>4. /\ FindRegions(db, u) \subseteq 1 .. Len(rows)
      /\ FindPrimary(db, u) \subseteq FindRegions(db, u)
  BY <1>2, <1>3 DEF FindRegions, FindPrimary, LiveRows
<1>5. IsFiniteSet(1 .. Len(rows))
  BY <1>3, FS_Interval
<1>6. IsFiniteSet(FindRegions(db, u)) /\ IsFiniteSet(FindPrimary(db, u))
  BY <1>4, <1>5, FS_Subset
<1>7. None \notin DOMAIN rows
  BY <1>3, NoneAssumption
<1>8. QED
  BY <1>1, <1>2, <1>3, <1>4, <1>6, <1>7

\* What the steps that write regions make of the rows there are.
LEMMA RegionWrites ==
  ASSUME UniqueInv, NEW r \in Req, Handle(r), RegionWriter(r),
         NEW i \in DOMAIN db.regions, NEW old, old = db.regions[i],
         NEW new, new = db'.regions[i]
  PROVE  /\ i \in DOMAIN db'.regions
         /\ new.user = old.user /\ (new.live => old.live)
         /\ ReplaceRegions(r) \/ DropRegion(r) =>
              IF i \in got[r] THEN ~new.live ELSE new = old
         /\ MovePrimary(r) =>
              /\ i \notin got[r].clear \cup got[r].set => new = old
              /\ new.live = old.live
              /\ i \in got[r].set => new.primary
              /\ i \in got[r].clear \ got[r].set => ~new.primary
         /\ InsertRegion(r) => new = old
         /\ Withdraw(r) => IF old.live /\ old.user = User(r) THEN ~new.live ELSE new = old
<1>1. /\ DataInv /\ RequestInv /\ StoreInv /\ "regions" \in DOMAIN db
      /\ db.regions \in Seq(InterestRegionRow(UserIds, Writers))
      /\ Len(db.regions) \in Nat /\ DOMAIN db.regions = 1 .. Len(db.regions)
      /\ old \in InterestRegionRow(UserIds, Writers)
  BY RegionRows DEF UniqueInv, DataInv, StoreInv, Tables
<1>2. Kept(db.regions, db'.regions, r)
  BY <1>1, RowsKept DEF SweptTables
<1>3. /\ i \in DOMAIN db'.regions
      /\ new.user = old.user /\ (new.live => old.live)
  BY <1>2 DEF Kept, SameRow
<1>4. ASSUME NEW rows, db' = [db EXCEPT !["regions"] = rows]
      PROVE  db'.regions = rows
  BY <1>1, <1>4
<1>5. PICK S : S = got[r]
  OBVIOUS
<1>6. PICK gone : gone = SoftDelete(db.regions, S)
  OBVIOUS
<1>7. /\ gone \in Seq(InterestRegionRow(UserIds, Writers))
      /\ DOMAIN gone = DOMAIN db.regions
      /\ gone[i] = IF i \in S THEN [old EXCEPT !["live"] = FALSE] ELSE old
  <2>1. InterestRegionRow(UserIds, Writers) \in OwnedRows(UserIds, Writers)
    BY DEF OwnedRows
  <2>2. gone \in Seq(InterestRegionRow(UserIds, Writers))
    BY <1>1, <1>6, <2>1, KeptSoftDelete
  <2>3. DOMAIN gone = DOMAIN db.regions
    BY <1>6 DEF SoftDelete, Write
  <2>4. QED
    BY <1>6, <2>2, <2>3 DEF SoftDelete, Write
<1>8. IF i \in S THEN ~gone[i].live ELSE gone[i] = old
  BY <1>1, <1>7 DEF InterestRegionRow
<1>9. ASSUME ReplaceRegions(r)
      PROVE  IF i \in got[r] THEN ~new.live ELSE new = old
  <2>1. PICK rest : rest = [k \in DOMAIN plan[r].regions |->
                              NewRegion(r, plan[r].regions[k],
                                        plan[r].regions[k] = plan[r].primary)]
    OBVIOUS
  <2>2. db'.regions = gone \o rest /\ pc[r] = "replace"
    BY <1>4, <1>5, <1>6, <1>9, <2>1 DEF ReplaceRegions, Store, Step
  <2>3. plan[r].regions \in Seq(Regions \cup {None})
    BY <1>1, <2>2, RequestTypes DEF StoreInv, DataInv, StageInv, StageOps
  <2>4. PICK n \in Nat : DOMAIN plan[r].regions = 1 .. n
    BY <2>3
  <2>5. rest = [k \in 1 .. n |-> rest[k]]
    BY <2>1, <2>4
  <2>6. (gone \o rest)[i] = gone[i]
    BY <1>7, <2>5, ConcatRows
  <2>7. QED
    BY <1>5, <1>8, <2>2, <2>6
<1>10. ASSUME DropRegion(r)
       PROVE  IF i \in got[r] THEN ~new.live ELSE new = old
  <2>1. db'.regions = gone
    BY <1>4, <1>5, <1>6, <1>10 DEF DropRegion, Store
  <2>2. QED
    BY <1>5, <1>8, <2>1
<1>11. ASSUME MovePrimary(r)
       PROVE  /\ i \notin got[r].clear \cup got[r].set => new = old
              /\ new.live = old.live
              /\ i \in got[r].set => new.primary
              /\ i \in got[r].clear \ got[r].set => ~new.primary
  <2>1. PICK A, B : A = got[r].clear /\ B = got[r].set
    OBVIOUS
  <2>2. PICK half : half = Write(db.regions, A, "primary", FALSE)
    OBVIOUS
  <2>3. db'.regions = Write(half, B, "primary", TRUE)
    BY <1>4, <1>11, <2>1, <2>2 DEF MovePrimary, Store
  <2>4. /\ DOMAIN half = DOMAIN db.regions
        /\ half[i] = IF i \in A THEN [old EXCEPT !["primary"] = FALSE] ELSE old
    BY <2>2 DEF Write
  <2>5. new = IF i \in B THEN [half[i] EXCEPT !["primary"] = TRUE] ELSE half[i]
    BY <2>3, <2>4 DEF Write
  <2>6. QED
    BY <1>1, <2>1, <2>4, <2>5 DEF InterestRegionRow
<1>12. ASSUME InsertRegion(r)
       PROVE  new = old
  <2>1. PICK row : row = NewRegion(r, plan[r].region, got[r])
    OBVIOUS
  <2>2. db'.regions = Append(db.regions, row)
    BY <1>4, <1>12, <2>1 DEF InsertRegion, Store
  <2>3. QED
    BY <1>1, <2>2, AppendRows
<1>13. ASSUME Withdraw(r)
       PROVE  IF old.live /\ old.user = User(r) THEN ~new.live ELSE new = old
  <2>1. PICK T : T = OwnedBy(db.regions, User(r))
    OBVIOUS
  <2>2. db'.regions = SoftDelete(db.regions, T)
    BY <1>1, <1>13, <2>1, WithdrawWrites DEF SweptTables
  <2>3. i \in T <=> old.live /\ old.user = User(r)
    BY <2>1 DEF OwnedBy, LiveRows
  <2>4. new = IF i \in T THEN [old EXCEPT !["live"] = FALSE] ELSE old
    BY <2>2 DEF SoftDelete, Write
  <2>5. QED
    BY <1>1, <2>3, <2>4 DEF InterestRegionRow
<1>14. QED
  BY <1>3, <1>9, <1>10, <1>11, <1>12, <1>13

\* A new region row is of the user of the request, and is the primary one as
\* the request says.
LEMMA NewRegions ==
  ASSUME UniqueInv, NEW r \in Req, Handle(r),
         NEW i \in DOMAIN db'.regions, i \notin DOMAIN db.regions,
         NEW new, new = db'.regions[i]
  PROVE  /\ new.user = User(r) /\ (ReplaceRegions(r) \/ InsertRegion(r))
         /\ ReplaceRegions(r) => new.primary = (new.region = plan[r].primary)
         /\ InsertRegion(r) => new.primary = got[r] /\ i = Len(db.regions) + 1
<1>1. /\ DataInv /\ RequestInv /\ StoreInv /\ "regions" \in DOMAIN db
      /\ db.regions \in Seq(InterestRegionRow(UserIds, Writers))
      /\ Len(db.regions) \in Nat /\ DOMAIN db.regions = 1 .. Len(db.regions)
  BY RegionRows DEF UniqueInv, DataInv, StoreInv, Tables
<1>2. "regions" \in DOMAIN Keys
  BY DEF Keys
<1>3. Wants(r, "regions", new)
  BY <1>2, InsertedRows DEF UniqueInv
<1>4. new.user = User(r) /\ pc[r] \in {"replace", "insert"}
  BY <1>3 DEF Wants
<1>5. ASSUME NEW rows, db' = [db EXCEPT !["regions"] = rows]
      PROVE  db'.regions = rows
  BY <1>1, <1>5
<1>6. ReplaceRegions(r) \/ InsertRegion(r)
  <2>1. Op(r) \in {"putRegions", "onboard", "addRegion"} /\ StageInv
    BY <1>1, <1>4 DEF DataInv, StageInv, StageOps
  <2>2. Follows(r)
    BY <2>1, HandleFollows
  <2>3. db' # db
    OBVIOUS
  <2>4. QED
    BY <2>1, <2>2, <2>3 DEF Follows, ReadRegionList, ReadRegions, NoWrite
<1>7. ASSUME ReplaceRegions(r)
      PROVE  new.primary = (new.region = plan[r].primary)
  <2>1. PICK rest : rest = [k \in DOMAIN plan[r].regions |->
                              NewRegion(r, plan[r].regions[k],
                                        plan[r].regions[k] = plan[r].primary)]
    OBVIOUS
  <2>2. PICK gone : gone = SoftDelete(db.regions, got[r])
    OBVIOUS
  <2>3. db'.regions = gone \o rest /\ pc[r] = "replace"
    BY <1>5, <1>7, <2>1, <2>2 DEF ReplaceRegions, Store, Step
  <2>4. InterestRegionRow(UserIds, Writers) \in OwnedRows(UserIds, Writers)
    BY DEF OwnedRows
  <2>5. gone \in Seq(InterestRegionRow(UserIds, Writers))
    BY <1>1, <2>2, <2>4, KeptSoftDelete
  <2>6. DOMAIN gone = DOMAIN db.regions
    BY <2>2 DEF SoftDelete, Write
  <2>7. plan[r].regions \in Seq(Regions \cup {None})
    BY <1>1, <2>3, RequestTypes DEF StoreInv, DataInv, StageInv, StageOps
  <2>8. PICK n \in Nat : DOMAIN plan[r].regions = 1 .. n
    BY <2>7
  <2>9. rest = [k \in 1 .. n |-> rest[k]]
    BY <2>1, <2>8
  <2>10. i - Len(gone) \in 1 .. n /\ new = rest[i - Len(gone)]
    BY <2>3, <2>5, <2>6, <2>9, ConcatRows
  <2>11. PICK k \in 1 .. n : new = rest[k]
    BY <2>10
  <2>12. QED
    BY <2>1, <2>8, <2>11 DEF NewRegion
<1>8. ASSUME InsertRegion(r)
      PROVE  new.primary = got[r] /\ i = Len(db.regions) + 1
  <2>1. PICK row : row = NewRegion(r, plan[r].region, got[r])
    OBVIOUS
  <2>2. db'.regions = Append(db.regions, row)
    BY <1>5, <1>8, <2>1 DEF InsertRegion, Store
  <2>3. i = Len(db.regions) + 1 /\ new = row
    BY <1>1, <2>2, AppendRows
  <2>4. QED
    BY <2>1, <2>3 DEF NewRegion
<1>9. QED
  BY <1>4, <1>6, <1>7, <1>8

LEMMA WriterStage ==
  ASSUME DataInv, NEW r \in Req, Handle(r), RegionWriter(r)
  PROVE  /\ pc[r] \in RegionStages \cup {"withdraw"} /\ ~Ended(r)
         /\ Op(r) \in RegionOps \cup {"withdraw"}
         /\ ReplaceRegions(r) => pc[r] = "replace" /\ pc'[r] = "done"
         /\ DropRegion(r) => pc[r] = "drop" /\ pc'[r] = "done"
         /\ MovePrimary(r) => pc[r] = "primary" /\ pc'[r] = "done"
         /\ InsertRegion(r) => pc[r] = "insert" /\ pc'[r] = "done"
         /\ Withdraw(r) => pc[r] = "withdraw" /\ pc'[r] = "done"
<1>1. RequestInv /\ StageInv
  BY DEF DataInv
<1>2. ASSUME NEW from, NEW to, NEW v, Step(r, from, to, v)
      PROVE  pc[r] = from /\ pc'[r] = to
  BY <1>1, <1>2, StepGoes
<1>3. /\ ReplaceRegions(r) => pc[r] = "replace" /\ pc'[r] = "done"
      /\ DropRegion(r) => pc[r] = "drop" /\ pc'[r] = "done"
      /\ MovePrimary(r) => pc[r] = "primary" /\ pc'[r] = "done"
      /\ InsertRegion(r) => pc[r] = "insert" /\ pc'[r] = "done"
      /\ Withdraw(r) => pc[r] = "withdraw" /\ pc'[r] = "done"
  BY <1>2 DEF ReplaceRegions, DropRegion, MovePrimary, InsertRegion, Withdraw
<1>4. pc[r] \in RegionStages \cup {"withdraw"}
  BY <1>3 DEF RegionWriter, RegionsWrite, RegionStages
<1>5. QED
  BY <1>1, <1>3, <1>4 DEF StageInv, StageOps, RegionStages, RegionOps, Ended, Ends

\* Handlers leave the regions of other users alone.
LEMMA RegionsSame ==
  ASSUME RegionInv, NEW r \in Req, Handle(r), NEW u,
         ~(RegionWriter(r) /\ User(r) = u)
  PROVE  /\ \A i \in DOMAIN db.regions : db.regions[i].user = u =>
              i \in DOMAIN db'.regions /\ db'.regions[i] = db.regions[i]
         /\ FindRegions(db', u) = FindRegions(db, u)
         /\ FindPrimary(db', u) = FindPrimary(db, u)
<1>1. DataInv /\ UniqueInv /\ ChosenInv /\ "regions" \in DOMAIN db
  BY DEF RegionInv, UniqueInv, DataInv, StoreInv, Tables
<1>2. CASE ~RegionWriter(r)
  <2>1. UsersWrite(r) \/ OwnedWrite(r) \/ db' = db
    BY <1>2, HandleWrites DEF RegionWriter
  <2>2. db'.regions = db.regions
    <3>1. CASE UsersWrite(r)
      BY <1>1, <3>1 DEF UsersWrite, CreateUser, StoreToken, SetNickname,
                        CommitVerified, Store, NoWrite
    <3>2. CASE OwnedWrite(r)
      BY <1>1, <3>2 DEF OwnedWrite, InsertAgreements, InsertBlock, DeleteBlock,
                        InsertReport, RegisterDevice, Store
    <3>3. QED
      BY <2>1, <3>1, <3>2
  <2>3. QED
    BY <2>2 DEF FindRegions, FindPrimary, LiveRows
<1>3. CASE RegionWriter(r) /\ User(r) # u
  <2>1. ASSUME NEW i \in DOMAIN db.regions, db.regions[i].user = u
        PROVE  i \in DOMAIN db'.regions /\ db'.regions[i] = db.regions[i]
    <3>1. PICK old, new : old = db.regions[i] /\ new = db'.regions[i]
      OBVIOUS
    <3>2. /\ i \in DOMAIN db'.regions
          /\ ReplaceRegions(r) \/ DropRegion(r) =>
               IF i \in got[r] THEN ~new.live ELSE new = old
          /\ MovePrimary(r) => (i \notin got[r].clear \cup got[r].set => new = old)
          /\ InsertRegion(r) => new = old
          /\ Withdraw(r) =>
               IF old.live /\ old.user = User(r) THEN ~new.live ELSE new = old
      BY <1>1, <1>3, <3>1, RegionWrites
    <3>3. pc[r] \in {"replace", "drop", "primary"} => i \notin Chosen(r)
      BY <1>1, <1>3, <2>1 DEF ChosenInv
    <3>4. CASE ReplaceRegions(r) \/ DropRegion(r)
      BY <1>1, <1>3, <3>1, <3>2, <3>3, <3>4, WriterStage DEF Chosen
    <3>5. CASE MovePrimary(r)
      BY <1>1, <1>3, <3>1, <3>2, <3>3, <3>5, WriterStage DEF Chosen
    <3>6. CASE InsertRegion(r)
      BY <3>1, <3>2, <3>6
    <3>7. CASE Withdraw(r)
      BY <1>3, <2>1, <3>1, <3>2, <3>7
    <3>8. QED
      BY <1>3, <3>4, <3>5, <3>6, <3>7 DEF RegionWriter, RegionsWrite
  <2>2. ASSUME NEW i \in DOMAIN db'.regions, db'.regions[i].user = u
        PROVE  i \in DOMAIN db.regions /\ db.regions[i].user = u
    <3>1. PICK new : new = db'.regions[i]
      OBVIOUS
    <3>2. i \in DOMAIN db.regions
      BY <1>1, <1>3, <2>2, <3>1, NewRegions
    <3>3. PICK old : old = db.regions[i]
      OBVIOUS
    <3>4. new.user = old.user
      BY <1>1, <1>3, <3>1, <3>2, <3>3, RegionWrites
    <3>5. QED
      BY <2>2, <3>1, <3>2, <3>3, <3>4
  <2>3. \A i : i \in FindRegions(db', u) <=> i \in FindRegions(db, u)
    BY <2>1, <2>2 DEF FindRegions, LiveRows
  <2>4. \A i \in FindRegions(db, u) : db'.regions[i] = db.regions[i]
    BY <2>1 DEF FindRegions, LiveRows
  <2>5. FindRegions(db', u) = FindRegions(db, u)
    BY <2>3
  <2>6. QED
    BY <2>1, <2>4, <2>5 DEF FindPrimary
<1>4. QED
  BY <1>2, <1>3

LEMMA OverlapStays ==
  ASSUME DataInv, NEW r \in Req, Moves(r), Req' = Req, NEW u
  PROVE  /\ RegionOverlap(u) => RegionOverlap(u)'
         /\ ListReplaced(u) => ListReplaced(u)'
<1>1. RequestInv /\ plan' = plan
  BY DEF DataInv, Moves
<1>2. \A p, q \in Req : Met(p, q) => Met(p, q)'
  BY <1>1, MetStays
<1>3. \A q \in Req : pc[q] # "idle" => pc'[q] # "idle"
  BY <1>1, PastStays
<1>4. QED
  BY <1>1, <1>2, <1>3 DEF RegionOverlap, ListReplaced, Op, User

\* Whoever writes the regions of a user while another handler of that user has
\* read them and not yet written has met it.
LEMMA WriterMeets ==
  ASSUME DataInv, NEW r \in Req, Handle(r), RegionWriter(r),
         NEW q \in Req, q # r, pc[q] \in RegionStages, User(q) = User(r)
  PROVE  RegionOverlap(User(r))
<1>1. RequestInv /\ StageInv
  BY DEF DataInv
<1>2. pc[q] # "idle" /\ ~Ended(q) /\ Op(q) \in RegionOps
  BY <1>1 DEF RegionStages, StageInv, StageOps, RegionOps, Ended, Ends
<1>3. pc[r] # "idle" /\ ~Ended(r) /\ Op(r) \in RegionOps \cup {"withdraw"}
  BY WriterStage DEF RegionStages
<1>4. Met(q, r)
  BY <1>1, <1>2, <1>3, RunningMeet DEF RequestInv
<1>5. QED
  BY <1>2, <1>3, <1>4 DEF RegionOverlap

LEMMA ChosenHandle ==
  ASSUME RegionInv, NEW r \in Req, Handle(r)
  PROVE  ChosenInv'
<1>1. /\ UniqueInv /\ ChosenInv /\ RequestInv /\ StageInv /\ DataInv /\ DataInv'
      /\ plan' = plan /\ Moves(r) /\ Req' = Req
  BY HandleData DEF RegionInv, UniqueInv, DataInv, Moves
<1>2. ASSUME NEW from, NEW to, NEW v, Step(r, from, to, v)
      PROVE  pc[r] = from /\ pc'[r] = to /\ got'[r] = v
  BY <1>1, <1>2, StepGoes
<1>3. SUFFICES ASSUME NEW q \in Req, pc'[q] \in {"replace", "drop", "primary"},
                      NEW i \in Chosen(q)'
               PROVE  i \in DOMAIN db'.regions /\ db'.regions[i].user = User(q)
  BY <1>1 DEF ChosenInv, User
<1>4. Kept(db.regions, db'.regions, r)
  BY <1>1, RowsKept DEF SweptTables
<1>5. SUFFICES i \in DOMAIN db.regions /\ db.regions[i].user = User(q)
  BY <1>4 DEF Kept, SameRow
<1>6. CASE q # r
  <2>1. pc'[q] = pc[q] /\ got'[q] = got[q]
    BY <1>1, <1>6, OthersStay
  <2>2. QED
    BY <1>1, <1>3, <2>1 DEF ChosenInv, Chosen
<1>7. CASE q = r
  <2>1. Follows(r) /\ Op(r) \in StageOps[pc'[r]]
    BY <1>1, <1>3, <1>7, HandleFollows DEF DataInv, StageInv, StageOps, Op
  <2>2. \A k \in FindRegions(db, User(r)) :
          k \in DOMAIN db.regions /\ db.regions[k].user = User(r)
    BY DEF FindRegions, LiveRows
  <2>3. SUFFICES i \in FindRegions(db, User(r))
    BY <1>7, <2>2
  <2>4. CASE pc'[r] = "replace"
    <3>1. ReadRegionList(r)
      BY <1>2, <2>1, <2>4 DEF Follows, StageOps, ReplaceRegions
    <3>2. got'[r] = FindRegions(db, User(r))
      BY <1>2, <2>4, <3>1 DEF ReadRegionList, Refuse
    <3>3. QED
      BY <1>3, <1>7, <2>4, <3>2 DEF Chosen
  <2>5. CASE pc'[r] = "drop"
    <3>1. ReadRegion(r)
      BY <1>2, <2>1, <2>5 DEF Follows, StageOps, DropRegion
    <3>2. PICK target \in AnyOf(FindByRegion(db, User(r), plan[r].region)) :
            target # None /\ got'[r] = {target}
      BY <1>2, <2>5, <3>1 DEF ReadRegion, Refuse
    <3>3. target \in FindRegions(db, User(r))
      BY <3>2 DEF AnyOf, FindByRegion
    <3>4. QED
      BY <1>3, <1>7, <2>5, <3>2, <3>3 DEF Chosen
  <2>6. CASE pc'[r] = "primary"
    <3>1. ReadPrimary(r)
      <4>1. Op(r) = "setPrimary"
        BY <2>1, <2>6 DEF StageOps
      <4>2. ReadPrimary(r) \/ MovePrimary(r)
        BY <2>1, <4>1 DEF Follows
      <4>3. MovePrimary(r) => Step(r, "primary", "done", None)
        BY DEF MovePrimary
      <4>4. ~Step(r, "primary", "done", None)
        BY <1>2, <2>6
      <4>5. QED
        BY <4>2, <4>3, <4>4
    <3>2. PICK target \in AnyOf(FindByRegion(db, User(r), plan[r].region)),
               current \in AnyOf(FindPrimary(db, User(r))) :
            /\ target # None
            /\ got'[r] = [clear |-> {current} \ {None, target},
                          set |-> IF db.regions[target].primary THEN {} ELSE {target}]
      <4>1. PICK target \in AnyOf(FindByRegion(db, User(r), plan[r].region)),
                 current \in AnyOf(FindPrimary(db, User(r))) :
              IF target = None THEN Step(r, "idle", "refused", None)
              ELSE Step(r, "idle", "primary",
                     [clear |-> {current} \ {None, target},
                      set |-> IF db.regions[target].primary THEN {} ELSE {target}])
        BY <3>1 DEF ReadPrimary, Refuse
      <4>2. target # None
        BY <1>2, <2>6, <4>1
      <4>3. QED
        BY <1>2, <4>1, <4>2
    <3>3. target \in FindRegions(db, User(r))
      BY <3>2 DEF AnyOf, FindByRegion
    <3>4. current # None => current \in FindRegions(db, User(r))
      BY <3>2 DEF AnyOf, FindPrimary
    <3>5. i \in got'[r].clear \/ i \in got'[r].set
      BY <1>3, <1>7, <2>6 DEF Chosen
    <3>6. i = target \/ (i = current /\ current # None)
      BY <3>2, <3>5
    <3>7. QED
      BY <3>3, <3>4, <3>6
  <2>7. QED
    BY <1>3, <1>7, <2>4, <2>5, <2>6
<1>8. QED
  BY <1>6, <1>7

\* What another handler does to the regions of a user whose regions q has read
\* is no news to q unless the two met.
LEMMA CurrentOther ==
  ASSUME RegionInv, NEW r \in Req, Handle(r), NEW q \in Req, q # r,
         NEW u, u = User(q)
  PROVE  RegionOverlap(u)' \/ Current(q)'
<1>1. /\ DataInv /\ RequestInv /\ ChosenInv /\ "regions" \in DOMAIN db
      /\ plan' = plan /\ Moves(r) /\ Req' = Req
  BY HandleData DEF RegionInv, UniqueInv, DataInv, Moves, StoreInv, Tables
<1>2. pc'[q] = pc[q] /\ got'[q] = got[q] /\ User(q)' = u
  BY <1>1, OthersStay DEF User
<1>3. CASE RegionOverlap(u)
  BY <1>1, <1>3, OverlapStays
<1>4. CASE pc[q] \notin RegionStages
  BY <1>2, <1>4 DEF Current, RegionStages
<1>5. CASE Current(q) /\ RegionWriter(r) /\ User(r) = u /\ pc[q] \in RegionStages
  BY <1>1, <1>3, <1>5, WriterMeets
<1>6. CASE Current(q) /\ ~(RegionWriter(r) /\ User(r) = u)
  <2>1. /\ \A i \in DOMAIN db.regions : db.regions[i].user = u =>
             i \in DOMAIN db'.regions /\ db'.regions[i] = db.regions[i]
        /\ FindRegions(db', u) = FindRegions(db, u)
        /\ FindPrimary(db', u) = FindPrimary(db, u)
    BY <1>6, RegionsSame
  <2>2. pc[q] = "replace" => FindRegions(db', u) \subseteq got[q]
    BY <1>6, <2>1 DEF Current
  <2>3. pc[q] = "drop" => \A i \in got[q] : ~db'.regions[i].primary
    BY <1>1, <1>6, <2>1 DEF Current, ChosenInv, Chosen
  <2>4. pc[q] = "primary" => \E i \in FindRegions(db', u) :
          /\ i \notin got[q].clear /\ got[q].set \subseteq {i}
          /\ i \in got[q].set \/ db'.regions[i].primary
          /\ FindPrimary(db', u) \subseteq got[q].clear \cup {i}
    <3>1. SUFFICES ASSUME pc[q] = "primary" PROVE <2>4!2
      OBVIOUS
    <3>2. PICK i \in FindRegions(db, u) :
            /\ i \notin got[q].clear /\ got[q].set \subseteq {i}
            /\ i \in got[q].set \/ db.regions[i].primary
            /\ FindPrimary(db, u) \subseteq got[q].clear \cup {i}
      BY <1>6, <3>1 DEF Current
    <3>3. i \in FindRegions(db', u) /\ db'.regions[i] = db.regions[i]
      BY <2>1 DEF FindRegions, LiveRows
    <3>4. QED
      BY <2>1, <3>2, <3>3
  <2>5. pc[q] = "insert" =>
          IF got[q] THEN FindRegions(db', u) = {}
          ELSE Cardinality(FindRegions(db', u)) < INTEREST_REGIONS_MAX_COUNT
    BY <1>6, <2>1 DEF Current
  <2>6. QED
    BY <1>2, <2>2, <2>3, <2>4, <2>5 DEF Current
<1>7. QED
  BY <1>3, <1>4, <1>5, <1>6 DEF RegionInv, CurrentInv

\* What a handler has just read is so.
LEMMA CurrentSelf ==
  ASSUME RegionInv, NEW r \in Req, Handle(r), NEW u, u = User(r)
  PROVE  RegionOverlap(u)' \/ Current(r)'
<1>1. /\ DataInv /\ RequestInv /\ StageInv /\ DataInv' /\ LimitsInv
      /\ plan' = plan /\ Moves(r) /\ Req' = Req
  BY HandleData DEF RegionInv, UniqueInv, DataInv, Moves
<1>2. ASSUME NEW from, NEW to, NEW v, Step(r, from, to, v)
      PROVE  pc[r] = from /\ pc'[r] = to /\ got'[r] = v
  BY <1>1, <1>2, StepGoes
<1>3. User(r)' = u
  BY <1>1 DEF User
<1>4. CASE RegionOverlap(u)
  BY <1>1, <1>4, OverlapStays
<1>5. CASE pc'[r] \notin RegionStages
  BY <1>5 DEF Current, RegionStages
<1>6. ASSUME ~RegionOverlap(u), pc'[r] \in RegionStages
      PROVE  Current(r)'
  <2>1. Follows(r) /\ Op(r) \in StageOps[pc'[r]]
    BY <1>1, <1>6, HandleFollows DEF DataInv, StageInv, StageOps, Op, RegionStages
  <2>2. CASE pc'[r] = "replace"
    <3>1. ReadRegionList(r)
      BY <1>2, <2>1, <2>2 DEF Follows, StageOps, ReplaceRegions
    <3>2. got'[r] = FindRegions(db, u) /\ db' = db
      BY <1>2, <2>2, <3>1 DEF ReadRegionList, Refuse, NoWrite
    <3>3. FindRegions(db', u) \subseteq got'[r]
      BY <3>2
    <3>4. QED
      BY <1>3, <2>2, <3>3 DEF Current
  <2>3. CASE pc'[r] = "drop"
    <3>1. ReadRegion(r)
      BY <1>2, <2>1, <2>3 DEF Follows, StageOps, DropRegion
    <3>2. PICK target \in AnyOf(FindByRegion(db, u, plan[r].region)) :
            ~db.regions[target].primary /\ got'[r] = {target} /\ db' = db
      BY <1>2, <2>3, <3>1 DEF ReadRegion, Refuse, NoWrite
    <3>3. QED
      BY <1>3, <2>3, <3>2 DEF Current
  <2>4. CASE pc'[r] = "primary"
    <3>1. ReadPrimary(r)
      <4>1. Op(r) = "setPrimary"
        BY <2>1, <2>4 DEF StageOps
      <4>2. ReadPrimary(r) \/ MovePrimary(r)
        BY <2>1, <4>1 DEF Follows
      <4>3. MovePrimary(r) => Step(r, "primary", "done", None)
        BY DEF MovePrimary
      <4>4. ~Step(r, "primary", "done", None)
        BY <1>2, <2>4
      <4>5. QED
        BY <4>2, <4>3, <4>4
    <3>2. PICK target \in AnyOf(FindByRegion(db, u, plan[r].region)),
               current \in AnyOf(FindPrimary(db, u)) :
            /\ target # None
            /\ got'[r] = [clear |-> {current} \ {None, target},
                          set |-> IF db.regions[target].primary THEN {} ELSE {target}]
      <4>1. PICK target \in AnyOf(FindByRegion(db, User(r), plan[r].region)),
                 current \in AnyOf(FindPrimary(db, User(r))) :
              IF target = None THEN Step(r, "idle", "refused", None)
              ELSE Step(r, "idle", "primary",
                     [clear |-> {current} \ {None, target},
                      set |-> IF db.regions[target].primary THEN {} ELSE {target}])
        BY <3>1 DEF ReadPrimary, Refuse
      <4>2. target # None
        BY <1>2, <2>4, <4>1
      <4>3. QED
        BY <1>2, <4>1, <4>2
    <3>3. db' = db /\ Op(r) = "setPrimary" /\ u \in UserIds
      BY <3>1 DEF ReadPrimary, NoWrite, Handle, Acts
    <3>4. target \in FindRegions(db, u)
      BY <3>2 DEF AnyOf, FindByRegion
    <3>5. OnePrimary(u) /\ None \notin FindPrimary(db, u)
      BY <1>1, <1>6, <3>3, RegionRows DEF LimitsInv
    <3>6. FindPrimary(db, u) \subseteq {current} \ {None}
      BY <3>2, <3>5 DEF AnyOf, OnePrimary
    <3>7. /\ target \notin got'[r].clear /\ got'[r].set \subseteq {target}
          /\ target \in got'[r].set \/ db.regions[target].primary
          /\ FindPrimary(db, u) \subseteq got'[r].clear \cup {target}
      BY <3>2, <3>6
    <3>8. \E i \in FindRegions(db', u) :
            /\ i \notin got'[r].clear /\ got'[r].set \subseteq {i}
            /\ i \in got'[r].set \/ db'.regions[i].primary
            /\ FindPrimary(db', u) \subseteq got'[r].clear \cup {i}
      BY <3>3, <3>4, <3>7
    <3>9. QED
      BY <1>3, <2>4, <3>8 DEF Current
  <2>5. CASE pc'[r] = "insert"
    <3>1. ReadRegions(r)
      BY <1>2, <2>1, <2>5 DEF Follows, StageOps, InsertRegion
    <3>2. \/ MayOnboard(r) /\ Step(r, "idle", "insert", TRUE)
          \/ MayAdd(r) /\ Step(r, "idle", "insert", FALSE)
          \/ Step(r, "idle", "refused", None)
      BY <3>1 DEF ReadRegions, Refuse
    <3>3. \/ MayOnboard(r) /\ got'[r] = TRUE
          \/ MayAdd(r) /\ got'[r] = FALSE
      BY <1>2, <2>5, <3>2
    <3>4. IF got'[r] THEN FindRegions(db, u) = {}
          ELSE Cardinality(FindRegions(db, u)) < INTEREST_REGIONS_MAX_COUNT
      BY <3>3 DEF MayOnboard, MayAdd
    <3>5. db' = db
      BY <3>1 DEF ReadRegions, NoWrite
    <3>6. QED
      BY <1>3, <2>5, <3>4, <3>5 DEF Current
  <2>6. QED
    BY <1>6, <2>2, <2>3, <2>4, <2>5 DEF RegionStages
<1>7. QED
  BY <1>4, <1>5, <1>6

LEMMA CurrentHandle ==
  ASSUME RegionInv, NEW r \in Req, Handle(r)
  PROVE  CurrentInv'
<1>1. plan' = plan /\ Req' = Req
  BY HandleData DEF RegionInv, UniqueInv, Moves
<1>2. SUFFICES ASSUME NEW q \in Req
               PROVE  RegionOverlap(User(q))' \/ Current(q)'
  BY <1>1 DEF CurrentInv
<1>3. PICK u : u = User(q)
  OBVIOUS
<1>4. RegionOverlap(u)' \/ Current(q)'
  BY <1>3, CurrentOther, CurrentSelf
<1>5. RegionOverlap(u)' => RegionOverlap(User(q))'
  BY <1>1, <1>3 DEF RegionOverlap, User
<1>6. QED
  BY <1>4, <1>5

LEMMA RegionFound ==
  ASSUME NEW d, NEW u, NEW i
  PROVE  /\ i \in FindRegions(d, u) <=>
              i \in DOMAIN d.regions /\ d.regions[i].live /\ d.regions[i].user = u
         /\ i \in FindPrimary(d, u) <=> i \in FindRegions(d, u) /\ d.regions[i].primary
BY DEF FindRegions, FindPrimary, LiveRows

\* What a writer whose reads are so still makes of its user's regions.
LEMMA WriterRegions ==
  ASSUME RegionInv, NEW r \in Req, Handle(r), RegionWriter(r), Current(r),
         NEW u, u = User(r)
  PROVE  /\ ReplaceRegions(r) => \A i, j \in FindPrimary(db', u) : i = j
         /\ DropRegion(r) => /\ FindRegions(db', u) \subseteq FindRegions(db, u)
                             /\ FindPrimary(db', u) = FindPrimary(db, u)
         /\ MovePrimary(r) => /\ FindRegions(db', u) \subseteq FindRegions(db, u)
                              /\ \E k : FindPrimary(db', u) = {k}
         /\ InsertRegion(r) =>
              /\ FindRegions(db', u) \subseteq
                   FindRegions(db, u) \cup {Len(db.regions) + 1}
              /\ got[r] => FindRegions(db, u) = {}
              /\ ~got[r] => Cardinality(FindRegions(db, u)) < INTEREST_REGIONS_MAX_COUNT
              /\ \/ FindRegions(db, u) = {}
                 \/ FindPrimary(db', u) = FindPrimary(db, u)
         /\ Withdraw(r) => FindRegions(db', u) = {}
<1>1. UniqueInv /\ DataInv /\ ListsInv
  BY DEF RegionInv, UniqueInv
<1>2. PICK old, new : old = db.regions /\ new = db'.regions
  OBVIOUS
<1>3. ASSUME NEW i \in DOMAIN old
      PROVE  /\ i \in DOMAIN new
             /\ new[i].user = old[i].user /\ (new[i].live => old[i].live)
             /\ ReplaceRegions(r) \/ DropRegion(r) =>
                  IF i \in got[r] THEN ~new[i].live ELSE new[i] = old[i]
             /\ MovePrimary(r) =>
                  /\ i \notin got[r].clear \cup got[r].set => new[i] = old[i]
                  /\ new[i].live = old[i].live
                  /\ i \in got[r].set => new[i].primary
                  /\ i \in got[r].clear \ got[r].set => ~new[i].primary
             /\ InsertRegion(r) => new[i] = old[i]
             /\ Withdraw(r) => IF old[i].live /\ old[i].user = User(r)
                                 THEN ~new[i].live ELSE new[i] = old[i]
  <2>1. PICK a, b : a = old[i] /\ b = new[i]
    OBVIOUS
  <2>2. i \in DOMAIN db.regions /\ a = db.regions[i] /\ b = db'.regions[i]
    BY <1>2, <2>1
  <2>3. /\ i \in DOMAIN db'.regions
        /\ b.user = a.user /\ (b.live => a.live)
        /\ ReplaceRegions(r) \/ DropRegion(r) =>
             IF i \in got[r] THEN ~b.live ELSE b = a
        /\ MovePrimary(r) =>
             /\ i \notin got[r].clear \cup got[r].set => b = a
             /\ b.live = a.live
             /\ i \in got[r].set => b.primary
             /\ i \in got[r].clear \ got[r].set => ~b.primary
        /\ InsertRegion(r) => b = a
        /\ Withdraw(r) => IF a.live /\ a.user = User(r) THEN ~b.live ELSE b = a
    BY <1>1, <2>2, RegionWrites
  <2>4. QED
    BY <1>2, <2>1, <2>3
<1>4. ASSUME NEW i \in DOMAIN new, i \notin DOMAIN old
      PROVE  /\ new[i].user = u /\ (ReplaceRegions(r) \/ InsertRegion(r))
             /\ ReplaceRegions(r) => new[i].primary = (new[i].region = plan[r].primary)
             /\ InsertRegion(r) => new[i].primary = got[r] /\ i = Len(old) + 1
  <2>1. PICK b : b = new[i]
    OBVIOUS
  <2>2. b = db'.regions[i] /\ i \in DOMAIN db'.regions /\ i \notin DOMAIN db.regions
    BY <1>2, <1>4, <2>1
  <2>3. /\ b.user = User(r) /\ (ReplaceRegions(r) \/ InsertRegion(r))
        /\ ReplaceRegions(r) => b.primary = (b.region = plan[r].primary)
        /\ InsertRegion(r) => b.primary = got[r] /\ i = Len(db.regions) + 1
    BY <1>1, <2>2, NewRegions
  <2>4. QED
    BY <1>2, <2>1, <2>3
<1>5. ASSUME NEW i
      PROVE  /\ i \in FindRegions(db, u) <=>
                  i \in DOMAIN old /\ old[i].live /\ old[i].user = u
             /\ i \in FindPrimary(db, u) <=> i \in FindRegions(db, u) /\ old[i].primary
             /\ i \in FindRegions(db', u) <=>
                  i \in DOMAIN new /\ new[i].live /\ new[i].user = u
             /\ i \in FindPrimary(db', u) <=> i \in FindRegions(db', u) /\ new[i].primary
  <2>1. PICK d : d = db'
    OBVIOUS
  <2>2. /\ i \in FindRegions(d, u) <=>
             i \in DOMAIN d.regions /\ d.regions[i].live /\ d.regions[i].user = u
        /\ i \in FindPrimary(d, u) <=> i \in FindRegions(d, u) /\ d.regions[i].primary
    BY RegionFound
  <2>3. PICK e : e = db
    OBVIOUS
  <2>4. /\ i \in FindRegions(e, u) <=>
             i \in DOMAIN e.regions /\ e.regions[i].live /\ e.regions[i].user = u
        /\ i \in FindPrimary(e, u) <=> i \in FindRegions(e, u) /\ e.regions[i].primary
    BY RegionFound
  <2>5. QED
    BY <1>2, <2>1, <2>2, <2>3, <2>4
<1>6. ASSUME NEW i \in FindRegions(db', u), i \in DOMAIN old
      PROVE  i \in FindRegions(db, u)
  BY <1>3, <1>5, <1>6
<1>7. /\ ReplaceRegions(r) => pc[r] = "replace"
      /\ DropRegion(r) => pc[r] = "drop"
      /\ MovePrimary(r) => pc[r] = "primary"
      /\ InsertRegion(r) => pc[r] = "insert"
  BY <1>1, WriterStage
<1>8. ASSUME ReplaceRegions(r), NEW i \in FindPrimary(db', u), NEW j \in FindPrimary(db', u)
      PROVE  i = j
  <2>1. FindRegions(db, u) \subseteq got[r]
    BY <1>7, <1>8 DEF Current
  <2>2. \A k \in FindPrimary(db', u) : k \in DOMAIN new /\ k \notin DOMAIN old
    BY <1>3, <1>5, <1>6, <1>8, <2>1
  <2>3. /\ new[i].user = u /\ new[i].region = plan[r].primary
        /\ new[j].user = u /\ new[j].region = plan[r].primary
    BY <1>4, <1>5, <1>8, <2>2
  <2>4. Alike("regions", new[i], new[j])
    BY <2>3 DEF Alike, Keys
  <2>5. "regions" \in DOMAIN Keys /\ db["regions"] = old /\ db'["regions"] = new
    BY <1>2 DEF Keys
  <2>6. \A k \in DOMAIN db'["regions"] :
          k \notin DOMAIN db["regions"] /\ k # j
            => ~Alike("regions", db'["regions"][k], db'["regions"][j])
    BY <1>1, <2>2, <2>5, InsertedRows
  <2>7. QED
    BY <2>2, <2>4, <2>5, <2>6
<1>9. ASSUME DropRegion(r)
      PROVE  /\ FindRegions(db', u) \subseteq FindRegions(db, u)
             /\ FindPrimary(db', u) = FindPrimary(db, u)
  <2>1. ~ReplaceRegions(r) /\ ~InsertRegion(r)
    BY <1>7, <1>9
  <2>2. FindRegions(db', u) \subseteq FindRegions(db, u)
    BY <1>4, <1>5, <1>6, <2>1
  <2>3. \A i \in got[r] : ~old[i].primary
    BY <1>2, <1>7, <1>9 DEF Current
  <2>4. ASSUME NEW i \in FindPrimary(db, u)
        PROVE  i \in FindPrimary(db', u)
    BY <1>3, <1>5, <1>9, <2>3
  <2>5. ASSUME NEW i \in FindPrimary(db', u)
        PROVE  i \in FindPrimary(db, u)
    BY <1>3, <1>5, <1>9, <2>2
  <2>6. QED
    BY <2>2, <2>4, <2>5
<1>10. ASSUME MovePrimary(r)
       PROVE  /\ FindRegions(db', u) \subseteq FindRegions(db, u)
              /\ \E k : FindPrimary(db', u) = {k}
  <2>1. ~ReplaceRegions(r) /\ ~InsertRegion(r)
    BY <1>7, <1>10
  <2>2. FindRegions(db', u) \subseteq FindRegions(db, u)
    BY <1>4, <1>5, <1>6, <2>1
  <2>3. PICK k \in FindRegions(db, u) :
          /\ k \notin got[r].clear /\ got[r].set \subseteq {k}
          /\ k \in got[r].set \/ old[k].primary
          /\ FindPrimary(db, u) \subseteq got[r].clear \cup {k}
    BY <1>2, <1>7, <1>10 DEF Current
  <2>4. k \in FindPrimary(db', u)
    BY <1>3, <1>5, <1>10, <2>3
  <2>5. ASSUME NEW i \in FindPrimary(db', u)
        PROVE  i = k
    BY <1>3, <1>5, <1>10, <2>2, <2>3
  <2>6. QED
    BY <2>2, <2>4, <2>5
<1>11. ASSUME InsertRegion(r)
       PROVE  /\ FindRegions(db', u) \subseteq
                   FindRegions(db, u) \cup {Len(db.regions) + 1}
              /\ got[r] => FindRegions(db, u) = {}
              /\ ~got[r] => Cardinality(FindRegions(db, u)) < INTEREST_REGIONS_MAX_COUNT
              /\ \/ FindRegions(db, u) = {}
                 \/ FindPrimary(db', u) = FindPrimary(db, u)
  <2>1. FindRegions(db', u) \subseteq FindRegions(db, u) \cup {Len(db.regions) + 1}
    BY <1>2, <1>4, <1>5, <1>6, <1>11
  <2>2. /\ got[r] => FindRegions(db, u) = {}
        /\ ~got[r] => Cardinality(FindRegions(db, u)) < INTEREST_REGIONS_MAX_COUNT
    BY <1>7, <1>11 DEF Current
  <2>3. ASSUME ~got[r], NEW i
        PROVE  i \in FindPrimary(db', u) <=> i \in FindPrimary(db, u)
    BY <1>3, <1>4, <1>5, <1>6, <1>11, <2>3
  <2>4. QED
    BY <2>1, <2>2, <2>3
<1>12. ASSUME Withdraw(r)
       PROVE  FindRegions(db', u) = {}
  <2>1. ~ReplaceRegions(r) /\ ~InsertRegion(r)
    BY <1>1, <1>7, <1>12, WriterStage
  <2>2. ASSUME NEW i \in FindRegions(db', u) PROVE FALSE
    BY <1>3, <1>4, <1>5, <1>12, <2>1
  <2>3. QED
    BY <2>2
<1>13. QED
  BY <1>8, <1>9, <1>10, <1>11, <1>12

LEMMA SmallRegions ==
  ASSUME NEW S, NEW T, IsFiniteSet(S), NEW x, T \subseteq S \cup {x},
         S = {} \/ Cardinality(S) < INTEREST_REGIONS_MAX_COUNT
  PROVE  Cardinality(T) <= INTEREST_REGIONS_MAX_COUNT
<1>1. Cardinality(S) \in Nat /\ IsFiniteSet(S \cup {x})
      /\ (Cardinality(S \cup {x}) = Cardinality(S)
            \/ Cardinality(S \cup {x}) = Cardinality(S) + 1)
  BY FS_AddElement, FS_CardinalityType
<1>2. Cardinality(T) \in Nat /\ Cardinality(T) <= Cardinality(S \cup {x})
  BY <1>1, FS_Subset, FS_CardinalityType
<1>3. Cardinality(S) <= 2
  BY <1>1, FS_EmptySet DEF INTEREST_REGIONS_MAX_COUNT
<1>4. QED
  BY <1>1, <1>2, <1>3 DEF INTEREST_REGIONS_MAX_COUNT

LEMMA LimitsHandle ==
  ASSUME RegionInv, NEW r \in Req, Handle(r)
  PROVE  LimitsInv'
<1>1. /\ UniqueInv /\ DataInv /\ RequestInv /\ CurrentInv /\ LimitsInv
      /\ plan' = plan /\ Moves(r) /\ Req' = Req
  BY HandleData DEF RegionInv, UniqueInv, DataInv, Moves
<1>2. SUFFICES ASSUME NEW u \in UserIds', ~RegionOverlap(u)'
               PROVE  /\ \A i, j \in FindPrimary(db', u) : i = j
                      /\ \/ Cardinality(FindRegions(db', u))
                              <= INTEREST_REGIONS_MAX_COUNT
                         \/ ListReplaced(u)'
  BY DEF LimitsInv, OnePrimary
<1>3. ~RegionOverlap(u) /\ (ListReplaced(u) => ListReplaced(u)')
  BY <1>1, <1>2, OverlapStays
<1>4. /\ FindRegions(db, u) \subseteq DOMAIN db.regions
      /\ FindPrimary(db, u) \subseteq FindRegions(db, u)
      /\ IsFiniteSet(FindRegions(db, u))
      /\ \A i \in DOMAIN db.regions :
           db.regions[i] \in InterestRegionRow(UserIds, Writers)
  BY <1>1, RegionRows
<1>5. FindPrimary(db', u) \subseteq FindRegions(db', u)
  BY DEF FindPrimary
<1>6. u \notin UserIds => FindRegions(db, u) = {}
  BY <1>4 DEF FindRegions, InterestRegionRow
<1>7. /\ \A i, j \in FindPrimary(db, u) : i = j
      /\ \/ Cardinality(FindRegions(db, u)) <= INTEREST_REGIONS_MAX_COUNT
         \/ ListReplaced(u)
  <2>1. CASE u \in UserIds
    BY <1>1, <1>3, <2>1 DEF LimitsInv, OnePrimary
  <2>2. CASE u \notin UserIds
    BY <1>4, <1>6, <2>2, FS_EmptySet DEF INTEREST_REGIONS_MAX_COUNT
  <2>3. QED
    BY <2>1, <2>2
<1>8. CASE ~(RegionWriter(r) /\ User(r) = u)
  <2>1. /\ FindRegions(db', u) = FindRegions(db, u)
        /\ FindPrimary(db', u) = FindPrimary(db, u)
    BY <1>8, RegionsSame
  <2>2. QED
    BY <1>3, <1>7, <2>1
<1>9. CASE RegionWriter(r) /\ User(r) = u
  <2>1. Current(r)
    BY <1>1, <1>3, <1>9 DEF CurrentInv
  <2>2. CASE ReplaceRegions(r)
    <3>1. \A i, j \in FindPrimary(db', u) : i = j
      BY <1>9, <2>1, <2>2, WriterRegions
    <3>2. pc[r] = "replace" /\ pc'[r] = "done"
      BY <1>1, <1>9, <2>2, WriterStage
    <3>3. Op(r) = "putRegions"
      BY <1>1, <3>2 DEF DataInv, StageInv, StageOps
    <3>4. ListReplaced(u)'
      BY <1>1, <1>9, <3>2, <3>3 DEF ListReplaced, Op, User
    <3>5. QED
      BY <3>1, <3>4
  <2>3. CASE DropRegion(r) \/ MovePrimary(r) \/ Withdraw(r)
    <3>1. FindRegions(db', u) \subseteq FindRegions(db, u)
      BY <1>9, <2>1, <2>3, WriterRegions
    <3>2. /\ Cardinality(FindRegions(db', u)) \in Nat
          /\ Cardinality(FindRegions(db, u)) \in Nat
          /\ Cardinality(FindRegions(db', u)) <= Cardinality(FindRegions(db, u))
      BY <1>4, <3>1, FS_Subset, FS_CardinalityType
    <3>3. \/ FindPrimary(db', u) = FindPrimary(db, u)
          \/ \E k : FindPrimary(db', u) = {k}
          \/ FindRegions(db', u) = {}
      BY <1>9, <2>1, <2>3, WriterRegions
    <3>4. \A i, j \in FindPrimary(db', u) : i = j
      BY <1>5, <1>7, <3>3
    <3>5. QED
      BY <1>3, <1>7, <3>2, <3>4 DEF INTEREST_REGIONS_MAX_COUNT
  <2>4. CASE InsertRegion(r)
    <3>1. /\ FindRegions(db', u) \subseteq
               FindRegions(db, u) \cup {Len(db.regions) + 1}
          /\ \/ FindRegions(db, u) = {}
             \/ Cardinality(FindRegions(db, u)) < INTEREST_REGIONS_MAX_COUNT
          /\ \/ FindRegions(db, u) = {}
             \/ FindPrimary(db', u) = FindPrimary(db, u)
      BY <1>9, <2>1, <2>4, WriterRegions
    <3>2. Cardinality(FindRegions(db', u)) <= INTEREST_REGIONS_MAX_COUNT
      BY <1>4, <3>1, SmallRegions
    <3>3. \A i, j \in FindPrimary(db', u) : i = j
      BY <1>5, <1>7, <3>1
    <3>4. QED
      BY <3>2, <3>3
  <2>5. QED
    BY <1>9, <2>2, <2>3, <2>4 DEF RegionWriter, RegionsWrite
<1>10. QED
  BY <1>8, <1>9

LEMMA RegionFail ==
  ASSUME RegionInv, NEW r \in Req, Fail(r)
  PROVE  RegionInv'
<1>1. /\ RequestInv /\ DataInv /\ UniqueInv' /\ Moves(r) /\ Req' = Req
      /\ pc'[r] = "failed" /\ plan' = plan /\ db' = db
  BY FailData, UniqueFail DEF RegionInv, UniqueInv, DataInv, Moves, Fail
<1>2. ASSUME NEW q \in Req, q # r
      PROVE  pc'[q] = pc[q] /\ got'[q] = got[q]
  BY <1>1, <1>2, OthersStay
<1>3. ChosenInv'
  <2>1. SUFFICES ASSUME NEW q \in Req, pc'[q] \in {"replace", "drop", "primary"},
                        NEW i \in Chosen(q)'
                 PROVE  i \in DOMAIN db'.regions /\ db'.regions[i].user = User(q)'
    BY <1>1 DEF ChosenInv
  <2>2. q # r
    BY <1>1, <2>1
  <2>3. QED
    BY <1>1, <1>2, <2>1, <2>2 DEF RegionInv, ChosenInv, Chosen, User
<1>4. ASSUME NEW u
      PROVE  /\ RegionOverlap(u) => RegionOverlap(u)'
             /\ ListReplaced(u) => ListReplaced(u)'
  BY <1>1, OverlapStays
<1>5. CurrentInv'
  <2>1. SUFFICES ASSUME NEW q \in Req PROVE RegionOverlap(User(q))' \/ Current(q)'
    BY <1>1 DEF CurrentInv
  <2>2. PICK u : u = User(q)
    OBVIOUS
  <2>3. RegionOverlap(u)' => RegionOverlap(User(q))'
    BY <1>1, <2>2 DEF RegionOverlap, User
  <2>4. CASE RegionOverlap(u)
    BY <1>4, <2>3, <2>4
  <2>5. CASE ~RegionOverlap(u) /\ q # r
    <3>1. Current(q)
      BY <2>2, <2>5 DEF RegionInv, CurrentInv
    <3>2. Current(q)'
      BY <1>1, <1>2, <2>5, <3>1 DEF Current, User
    <3>3. QED
      BY <3>2
  <2>6. CASE q = r
    BY <1>1, <2>6 DEF Current
  <2>7. QED
    BY <2>4, <2>5, <2>6
<1>6. LimitsInv'
  <2>1. SUFFICES ASSUME NEW u \in UserIds, ~RegionOverlap(u)'
                 PROVE  /\ OnePrimary(u)'
                        /\ \/ Cardinality(FindRegions(db, u))'
                                <= INTEREST_REGIONS_MAX_COUNT
                           \/ ListReplaced(u)'
    BY <1>1 DEF LimitsInv, UserIds
  <2>2. /\ OnePrimary(u)
        /\ \/ Cardinality(FindRegions(db, u)) <= INTEREST_REGIONS_MAX_COUNT
           \/ ListReplaced(u)
    BY <1>4, <2>1 DEF RegionInv, LimitsInv
  <2>3. QED
    BY <1>1, <1>4, <2>2 DEF OnePrimary
<1>7. QED
  BY <1>1, <1>3, <1>5, <1>6 DEF RegionInv

LEMMA RegionStart == Init => RegionInv
<1> SUFFICES ASSUME Init PROVE RegionInv
  OBVIOUS
<1>1. UniqueInv /\ DataInv
  BY UniqueStart DEF UniqueInv
<1>2. (\A r \in Req : pc[r] = "idle") /\ db = StartDb
  BY DEF Init, RequestsInit
<1>3. ASSUME NEW u \in UserIds
      PROVE  /\ OnePrimary(u)
             /\ Cardinality(FindRegions(db, u)) <= INTEREST_REGIONS_MAX_COUNT
  <2>1. /\ Cardinality(FindPrimary(db, u)) <= 1
        /\ Cardinality(FindRegions(db, u)) <= INTEREST_REGIONS_MAX_COUNT
    BY <1>2, StartAssumption DEF UserIds
  <2>2. IsFiniteSet(FindPrimary(db, u))
    BY <1>1, RegionRows
  <2>3. \A i, j \in FindPrimary(db, u) : i = j
    BY <2>1, <2>2, AtMostOne
  <2>4. QED
    BY <2>1, <2>3 DEF OnePrimary
<1>4. QED
  BY <1>1, <1>2, <1>3 DEF RegionInv, ChosenInv, CurrentInv, Current, LimitsInv

LEMMA RegionStep == RegionInv /\ [Next]_accountVars => RegionInv'
<1> SUFFICES ASSUME RegionInv, [Next]_accountVars PROVE RegionInv'
  OBVIOUS
<1>1. UniqueInv /\ UniqueInv'
  BY UniqueStep DEF RegionInv
<1>2. ASSUME NEW r \in Req, Handle(r) PROVE RegionInv'
  BY <1>1, <1>2, ChosenHandle, CurrentHandle, LimitsHandle DEF RegionInv
<1>3. ASSUME NEW r \in Req, Fail(r) PROVE RegionInv'
  BY <1>3, RegionFail
<1>4. ASSUME \/ \E u \in DOMAIN codes : ExpireCode(u)
             \/ Tick \/ UNCHANGED accountVars
      PROVE  RegionInv'
  <2>1. UNCHANGED <<requestVars, db>>
    BY <1>1, <1>4, OtherData DEF UniqueInv
  <2>2. plan' = plan /\ pc' = pc /\ got' = got /\ past' = past /\ db' = db
    BY <2>1 DEF requestVars
  <2>3. ChosenInv' /\ CurrentInv'
    BY <2>2 DEF RegionInv, ChosenInv, Chosen, CurrentInv, Current,
                RegionOverlap, Met, Req, Op, User
  <2>4. LimitsInv'
    BY <2>2 DEF RegionInv, LimitsInv, OnePrimary, ListReplaced, RegionOverlap,
                Met, Req, Op, User, UserIds
  <2>5. QED
    BY <1>1, <2>3, <2>4 DEF RegionInv
<1>5. QED
  BY <1>2, <1>3, <1>4 DEF Next

\* What a handler has read of its user's regions is so when it writes, they
\* are three at most unless a list replaced them, and one of them is primary
\* at most: but for requests that met.
THEOREM RegionInvariant == Spec => []RegionInv
BY RegionStart, RegionStep, PTL DEF Spec

-----------------------------------------------------------------------------

\* One account per person, one row for what a user agrees to, blocks, reports
\* and has as a region, one owner of a device token, one user of a nickname,
\* one primary region and three regions at most: the handlers' checks hold of
\* any rows, but for requests that met.
THEOREM ChecksTrue == Spec => []ChecksHold
<1>1. ASSUME UniqueInv PROVE OneAccountPerPerson
  <2>1. "users" \in DOMAIN Keys
    BY DEF Keys
  <2>2. \A p \in Twins(db["users"], Keys["users"]) : Justified("users", p)
    BY <1>1, <2>1 DEF UniqueInv, TwinsInv
  <2>3. QED
    BY <2>2 DEF Justified, OneAccountPerPerson
<1>2. ASSUME UniqueInv PROVE OwnedRowsUnique
  <2>1. ASSUME NEW t \in SweptTables \ {"devices"}, NEW p \in Twins(db[t], Keys[t])
        PROVE  InsertersMet(db[t], p)
    <3>1. t \in DOMAIN Keys
      BY KeyTables
    <3>2. Justified(t, p)
      BY <1>2, <2>1, <3>1 DEF UniqueInv, TwinsInv
    <3>3. QED
      BY <3>2 DEF Justified
  <2>2. "devices" \in DOMAIN Keys
    BY DEF Keys
  <2>3. \A p \in Twins(db["devices"], Keys["devices"]) : Justified("devices", p)
    BY <1>2, <2>2 DEF UniqueInv, TwinsInv
  <2>4. \A p \in Twins(db.devices, Keys.devices) : Disputed(db.devices[p[1]].token)
    BY <2>3 DEF Justified
  <2>5. QED
    BY <2>1, <2>4 DEF OwnedRowsUnique, Disputed
<1>3. ASSUME RegionInv PROVE RegionLimits
  <2>1. ASSUME NEW u \in UserIds, ~RegionOverlap(u)
        PROVE  /\ Cardinality(FindPrimary(db, u)) <= 1
               /\ \/ Cardinality(FindRegions(db, u)) <= INTEREST_REGIONS_MAX_COUNT
                  \/ ListReplaced(u)
    <3>1. /\ \A i, j \in FindPrimary(db, u) : i = j
          /\ \/ Cardinality(FindRegions(db, u)) <= INTEREST_REGIONS_MAX_COUNT
             \/ ListReplaced(u)
      BY <1>3, <2>1 DEF RegionInv, LimitsInv, OnePrimary
    <3>2. IsFiniteSet(FindPrimary(db, u))
      BY <1>3, RegionRows DEF RegionInv, UniqueInv
    <3>3. Cardinality(FindPrimary(db, u)) <= 1
      BY <3>1, <3>2, AtMostOne
    <3>4. QED
      BY <3>1, <3>3
  <2>2. QED
    BY <2>1 DEF RegionLimits, ListReplaced
<1>4. UniqueInv /\ NickInv /\ RegionInv => ChecksHold
  BY <1>1, <1>2, <1>3 DEF NickInv, ChecksHold
<1>5. QED
  BY <1>4, UniqueInvariant, NickInvariant, RegionInvariant, PTL

\* Whoever has a primary region keeps one: it is given up only with a whole
\* new list, with the account, or by requests that met.
THEOREM PrimaryKept == Spec => PrimaryStays
<1>1. ASSUME RegionInv, [Next]_accountVars, NEW u \in UserIds,
             FindPrimary(db, u) # {}, FindPrimary(db', u) = {},
             ~RegionOverlap(u)
      PROVE  \E r \in Req : /\ pc[r] # pc'[r]
                            /\ Op(r) \in {"putRegions", "withdraw"}
                            /\ User(r) = u
  <2>1. DataInv /\ StageInv /\ CurrentInv
    BY <1>1 DEF RegionInv, UniqueInv, DataInv
  <2>2. db' # db
    BY <1>1
  <2>3. PICK r \in Req : Handle(r)
    BY <1>1, <2>2 DEF Next, ExpireCode, Tick, Fail, accountVars
  <2>4. RegionWriter(r) /\ User(r) = u
    <3>1. FindPrimary(db', u) # FindPrimary(db, u)
      BY <1>1
    <3>2. QED
      BY <1>1, <2>3, <3>1, RegionsSame
  <2>5. Current(r)
    BY <1>1, <2>1, <2>4 DEF CurrentInv
  <2>6. FindPrimary(db, u) \subseteq FindRegions(db, u)
    BY <2>1, RegionRows
  <2>7. ~DropRegion(r) /\ ~MovePrimary(r) /\ ~InsertRegion(r)
    BY <1>1, <2>3, <2>4, <2>5, <2>6, WriterRegions
  <2>8. ReplaceRegions(r) \/ Withdraw(r)
    BY <2>4, <2>7 DEF RegionWriter, RegionsWrite
  <2>9. pc[r] \in {"replace", "withdraw"} /\ pc'[r] = "done"
    BY <2>1, <2>3, <2>4, <2>8, WriterStage
  <2>10. Op(r) \in {"putRegions", "withdraw"}
    BY <2>1, <2>9 DEF StageInv, StageOps
  <2>11. QED
    BY <2>4, <2>9, <2>10
<1>2. RegionInv /\ [Next]_accountVars =>
        [\A u \in UserIds :
           FindPrimary(db, u) # {} /\ FindPrimary(db', u) = {} =>
             \/ RegionOverlap(u)
             \/ \E r \in Req : /\ pc[r] # pc'[r]
                               /\ Op(r) \in {"putRegions", "withdraw"}
                               /\ User(r) = u]_accountVars
  BY <1>1
<1>3. QED
  BY <1>2, RegionInvariant, PTL DEF Spec, PrimaryStays

-----------------------------------------------------------------------------
(* The list of the blocked users.                                          *)

\* What of a user's blocks that were there when r came a page has not shown
\* lies below its cursor.
Ahead(r, cursor, seen) ==
  \A i \in BlockedIds(User(r)) : db.blocks[i].by \in past[r] \cup {0} =>
    i \in ToSet(seen) \/ i < cursor

SeenOk(r) ==
  Op(r) = "blockedList" =>
    /\ pc[r] \in {"page", "done"} => got[r].seen \in Seq(Nat) /\ Falling(got[r].seen)
    /\ pc[r] = "page" =>
         /\ got[r].cursor \in Nat \ {0}
         /\ \A k \in ToSet(got[r].seen) : got[r].cursor <= k
         /\ Ahead(r, got[r].cursor, got[r].seen)
    /\ pc[r] = "done" => Ahead(r, 0, got[r].seen)

ListInv == DataInv /\ \A r \in Req : SeenOk(r)

LEMMA BlockedFinite ==
  ASSUME DataInv, NEW u
  PROVE  BlockedIds(u) \subseteq Nat \ {0} /\ IsFiniteSet(BlockedIds(u))
<1>1. db.blocks \in Seq(UserBlockRow(UserIds, Writers))
  BY TableTypes DEF DataInv, StoreInv
<1>2. PICK n \in Nat : DOMAIN db.blocks = 1 .. n
  BY <1>1
<1>3. BlockedIds(u) \in SUBSET (1 .. n)
  BY <1>2 DEF BlockedIds, LiveRows
<1>4. IsFiniteSet(1 .. n)
  BY <1>2, FS_Interval
<1>5. QED
  BY <1>3, <1>4, FS_Subset

\* A page goes on where the one before it ended.
LEMMA PageTurns ==
  ASSUME DataInv, NEW r \in Req, Op(r) = "blockedList", NEW from,
         NEW cursor \in Nat, NEW seen \in Seq(Nat), Falling(seen),
         \A k \in ToSet(seen) : cursor # 0 /\ cursor <= k,
         cursor # 0 => Ahead(r, cursor, seen),
         BlockedPage(r, from, cursor, seen), db' = db,
         from # "idle" => past'[r] = past[r], from = "idle" => cursor = 0
  PROVE  SeenOk(r)'
<1>1. RequestInv /\ StageInv /\ StoreInv /\ plan \in Plans
  BY DEF DataInv, StoreInv
<1>2. PICK B : B = BlockedIds(User(r))
  OBVIOUS
<1>3. B \subseteq Nat \ {0} /\ IsFiniteSet(B)
  BY <1>2, BlockedFinite
<1>4. PICK size \in Nat \ {0} : size = plan[r].size
  BY <1>1, RequestTypes
<1>5. PICK page : page = CursorPage(B, cursor, size)
  OBVIOUS
<1>6. PICK all : all = seen \o page.contents
  OBVIOUS
<1>7. Step(r, from, IF page.hasNext THEN "page" ELSE "done",
           [cursor |-> page.nextCursor, seen |-> all])
  BY <1>2, <1>4, <1>5, <1>6 DEF BlockedPage
<1>8. /\ pc'[r] = IF page.hasNext THEN "page" ELSE "done"
      /\ got'[r] = [cursor |-> page.nextCursor, seen |-> all] /\ plan' = plan
  BY <1>1, <1>7, StepGoes
<1>9. /\ page.contents \in Seq({i \in B : cursor = 0 \/ i < cursor})
      /\ Falling(page.contents) /\ page.hasNext \in BOOLEAN
      /\ ~page.hasNext =>
           \A i \in B : cursor = 0 \/ i < cursor => i \in ToSet(page.contents)
      /\ page.hasNext =>
           /\ page.nextCursor \in ToSet(page.contents)
           /\ \A k \in ToSet(page.contents) : page.nextCursor <= k
           /\ \A i \in B : cursor = 0 \/ i < cursor
                => i \in ToSet(page.contents) \/ i < page.nextCursor
  BY <1>3, <1>5, CursorPageRows
<1>10. PICK rows : rows = page.contents
  OBVIOUS
<1>11. ASSUME NEW k \in ToSet(rows)
       PROVE  k \in B /\ (cursor = 0 \/ k < cursor)
  BY <1>9, <1>10, <1>11 DEF ToSet
<1>12. rows \in Seq(Nat)
  <2>1. {i \in B : cursor = 0 \/ i < cursor} \subseteq Nat
    BY <1>3
  <2>2. QED
    BY <1>9, <1>10, <2>1, SeqGrows
<1>13. \A a \in ToSet(seen), b \in ToSet(rows) : a > b
  <2>1. ASSUME NEW a \in ToSet(seen), NEW b \in ToSet(rows) PROVE a > b
    <3>1. cursor # 0 /\ cursor <= a /\ b < cursor /\ b \in Nat
      BY <1>3, <1>11, <2>1
    <3>2. a \in Nat
      BY <2>1 DEF ToSet
    <3>3. QED
      BY <3>1, <3>2
  <2>2. QED
    BY <2>1
<1>14. /\ all \in Seq(Nat) /\ Falling(all)
       /\ ToSet(all) = ToSet(seen) \cup ToSet(rows)
  BY <1>6, <1>9, <1>10, <1>12, <1>13, FallingOn
<1>15. /\ B = BlockedIds(User(r))' /\ Op(r)' = "blockedList"
       /\ \A i \in B : db'.blocks[i].by = db.blocks[i].by
  BY <1>2, <1>8 DEF BlockedIds, FindById, Op, User
<1>16. ASSUME NEW i \in B, db.blocks[i].by \in past'[r] \cup {0}
       PROVE  i \in ToSet(seen) \/ cursor = 0 \/ i < cursor
  <2>1. CASE cursor = 0
    BY <2>1
  <2>2. CASE cursor # 0
    <3>1. past'[r] = past[r]
      BY <2>2
    <3>2. QED
      BY <1>2, <1>16, <2>2, <3>1 DEF Ahead
  <2>3. QED
    BY <2>1, <2>2
<1>17. CASE ~page.hasNext
  <2>1. pc'[r] = "done" /\ got'[r].seen = all
    BY <1>8, <1>17
  <2>2. \A i \in B : db.blocks[i].by \in past'[r] \cup {0} => i \in ToSet(all)
    BY <1>9, <1>10, <1>14, <1>16, <1>17
  <2>3. QED
    BY <1>14, <1>15, <2>1, <2>2 DEF SeenOk, Ahead
<1>18. CASE page.hasNext
  <2>1. pc'[r] = "page" /\ got'[r].seen = all /\ got'[r].cursor = page.nextCursor
    BY <1>8, <1>18
  <2>2. PICK next \in B : next = page.nextCursor /\ (cursor = 0 \/ next < cursor)
    BY <1>9, <1>10, <1>11, <1>18
  <2>3. \A k \in ToSet(all) : next <= k
    <3>1. ASSUME NEW k \in ToSet(seen) PROVE next <= k
      <4>1. next \in ToSet(rows)
        BY <1>9, <1>10, <1>18, <2>2
      <4>2. k > next
        BY <1>13, <3>1, <4>1
      <4>3. k \in Nat /\ next \in Nat
        BY <1>3, <3>1 DEF ToSet
      <4>4. QED
        BY <4>2, <4>3
    <3>2. QED
      BY <1>9, <1>10, <1>14, <1>18, <2>2, <3>1
  <2>4. \A i \in B : db.blocks[i].by \in past'[r] \cup {0} =>
                       i \in ToSet(all) \/ i < next
    BY <1>9, <1>10, <1>14, <1>16, <1>18, <2>2
  <2>5. next \in Nat \ {0}
    BY <1>3
  <2>6. QED
    BY <1>14, <1>15, <2>1, <2>2, <2>3, <2>4, <2>5 DEF SeenOk, Ahead
<1>19. QED
  BY <1>9, <1>17, <1>18

LEMMA SeenHandle ==
  ASSUME DataInv, NEW r \in Req, SeenOk(r), Op(r) = "blockedList", Handle(r)
  PROVE  SeenOk(r)'
<1>1. RequestInv /\ StageInv
  BY DEF DataInv
<1>2. GetBlockedUsers(r)
  BY <1>1, HandleFollows DEF Follows
<1>3. db' = db
  BY <1>2 DEF GetBlockedUsers, NoWrite
<1>4. CASE BlockedPage(r, "idle", 0, << >>)
  <2>1. << >> \in Seq(Nat) /\ Falling(<< >>) /\ ToSet(<< >>) = {}
    BY DEF Falling, ToSet
  <2>2. QED
    BY <1>3, <1>4, <2>1, PageTurns
<1>5. CASE pc[r] = "page" /\ BlockedPage(r, "page", got[r].cursor, got[r].seen)
  <2>1. past'[r] = past[r]
    BY <1>1, <1>5, HandleAdvances DEF Advances, Moves
  <2>2. /\ got[r].seen \in Seq(Nat) /\ Falling(got[r].seen)
        /\ got[r].cursor \in Nat \ {0}
        /\ \A k \in ToSet(got[r].seen) : got[r].cursor <= k
        /\ Ahead(r, got[r].cursor, got[r].seen)
    BY <1>5 DEF SeenOk
  <2>3. PICK cursor, seen : cursor = got[r].cursor /\ seen = got[r].seen
    OBVIOUS
  <2>4. QED
    BY <1>3, <1>5, <2>1, <2>2, <2>3, PageTurns
<1>6. QED
  BY <1>2, <1>4, <1>5 DEF GetBlockedUsers

\* What others do meanwhile adds no block that was there before.
LEMMA SeenOther ==
  ASSUME DataInv, NEW q \in Req, Handle(q), NEW r \in Req, r # q,
         SeenOk(r), Op(r) = "blockedList"
  PROVE  SeenOk(r)'
<1>1. RequestInv /\ StageInv /\ StoreInv /\ DataInv' /\ Moves(q)
      /\ UserIds \subseteq UserIds' /\ plan' = plan
  BY HandleData DEF DataInv, Moves
<1>2. pc'[r] = pc[r] /\ got'[r] = got[r] /\ past'[r] = past[r]
  BY <1>1, OthersStay
<1>3. ASSUME pc[r] # "idle", NEW i \in BlockedIds(User(r))',
             db'.blocks[i].by \in past[r] \cup {0}
      PROVE  i \in BlockedIds(User(r)) /\ db.blocks[i].by \in past[r] \cup {0}
  <2>1. "blocks" \in SweptTables /\ "blocks" \in DOMAIN Keys
    BY DEF SweptTables, Keys
  <2>2. i \in DOMAIN db'.blocks /\ db'.blocks[i].live /\ db'.blocks[i].user = User(r)
        /\ FindById(db', db'.blocks[i].blocked)
    BY <1>1, <1>3 DEF BlockedIds, LiveRows, User
  <2>3. i \in DOMAIN db.blocks
    <3>1. Kept(db["blocks"], db'["blocks"], q)
      BY <2>1, RowsKept
    <3>2. SUFFICES ASSUME i \notin DOMAIN db.blocks PROVE FALSE
      OBVIOUS
    <3>3. db'.blocks[i].by = q
      BY <2>2, <3>1, <3>2 DEF Kept
    <3>4. q \notin past[r] /\ q # 0
      <4>1. ~Ended(q)
        BY <1>1 DEF Moves, Ended
      <4>2. 0 \notin Req
        BY <1>1, RequestNumbers DEF StoreInv
      <4>3. QED
        BY <1>1, <4>1, <4>2 DEF RequestInv
    <3>5. QED
      BY <1>3, <3>3, <3>4
  <2>4. /\ db'["blocks"][i].by = db["blocks"][i].by
        /\ db'["blocks"][i].live => db["blocks"][i].live
        /\ Alike("blocks", db'["blocks"][i], db["blocks"][i])
    BY <2>1, <2>3, RowsStay
  <2>5. db'.blocks[i].user = db.blocks[i].user /\ db'.blocks[i].blocked = db.blocks[i].blocked
    BY <2>4 DEF Alike, Keys
  <2>6. PICK u : u = db.blocks[i].blocked
    OBVIOUS
  <2>7. u \in UserIds
    <3>1. db.blocks \in Seq(UserBlockRow(UserIds, Writers))
      BY <1>1, TableTypes DEF StoreInv
    <3>2. db.blocks[i] \in UserBlockRow(UserIds, Writers)
      BY <2>3, <3>1
    <3>3. QED
      BY <2>6, <3>2 DEF UserBlockRow
  <2>8. db'.users[u].live => db.users[u].live
    BY <2>7, UsersKept
  <2>9. FindById(db, u)
    BY <2>2, <2>5, <2>6, <2>7, <2>8 DEF FindById, LiveRows, UserIds
  <2>10. QED
    BY <1>3, <2>2, <2>3, <2>4, <2>5, <2>6, <2>9 DEF BlockedIds, LiveRows
<1>4. ASSUME NEW cursor, NEW seen, pc[r] # "idle", Ahead(r, cursor, seen)
      PROVE  Ahead(r, cursor, seen)'
  BY <1>2, <1>3, <1>4 DEF Ahead
<1>5. Op(r)' = Op(r)
  BY <1>1 DEF Op
<1>6. QED
  BY <1>2, <1>4, <1>5 DEF SeenOk

LEMMA ListStep == ListInv /\ [Next]_accountVars => ListInv'
<1> SUFFICES ASSUME ListInv, [Next]_accountVars PROVE ListInv'
  OBVIOUS
<1>1. DataInv /\ DataInv'
  BY DataStep DEF ListInv
<1>2. ASSUME NEW q \in Req, Handle(q) PROVE ListInv'
  <2>1. Req' = Req /\ plan' = plan
    BY <1>1, <1>2, HandleData DEF Moves
  <2>2. ASSUME NEW r \in Req PROVE SeenOk(r)'
    <3>1. CASE Op(r) # "blockedList"
      BY <2>1, <3>1 DEF SeenOk, Op
    <3>2. CASE Op(r) = "blockedList"
      BY <1>1, <1>2, <3>2, SeenHandle, SeenOther DEF ListInv
    <3>3. QED
      BY <3>1, <3>2
  <2>3. QED
    BY <1>1, <2>1, <2>2 DEF ListInv
<1>3. ASSUME NEW q \in Req, Fail(q) PROVE ListInv'
  <2>1. /\ Moves(q) /\ Req' = Req /\ pc'[q] = "failed" /\ plan' = plan
        /\ RequestInv /\ db' = db
    BY <1>1, <1>3, FailData DEF Moves, Fail, DataInv
  <2>2. ASSUME NEW r \in Req PROVE SeenOk(r)'
    <3>1. CASE r = q
      BY <2>1, <3>1 DEF SeenOk
    <3>2. CASE r # q
      <4>1. pc'[r] = pc[r] /\ got'[r] = got[r] /\ past'[r] = past[r]
        BY <2>1, <3>2, OthersStay
      <4>2. QED
        BY <2>1, <4>1 DEF ListInv, SeenOk, Ahead, BlockedIds, FindById, Op, User
    <3>3. QED
      BY <3>1, <3>2
  <2>3. QED
    BY <1>1, <2>1, <2>2 DEF ListInv
<1>4. ASSUME \/ \E u \in DOMAIN codes : ExpireCode(u)
             \/ Tick \/ UNCHANGED accountVars
      PROVE  ListInv'
  <2>1. UNCHANGED <<requestVars, db>>
    BY <1>1, <1>4, OtherData
  <2>2. plan' = plan /\ pc' = pc /\ got' = got /\ past' = past /\ db' = db
    BY <2>1 DEF requestVars
  <2>3. QED
    BY <1>1, <2>2 DEF ListInv, SeenOk, Ahead, BlockedIds, FindById, Op, User, Req
<1>5. QED
  BY <1>2, <1>3, <1>4 DEF Next

\* The pages of the blocked users fall without a gap for what was there when
\* the request came.
THEOREM ListInvariant == Spec => []ListInv
<1>1. Init => ListInv
  BY DataStart DEF Init, RequestsInit, ListInv, SeenOk
<1>2. QED
  BY <1>1, ListStep, PTL DEF Spec

\* Paging by cursor through the blocked users repeats none, and misses no
\* block that was there before the first page and still is, with any blocks,
\* page sizes and requests meanwhile.
THEOREM BlockedListWhole == Spec => []BlockedListComplete
<1>1. ASSUME ListInv PROVE BlockedListComplete
  <2>1. SUFFICES ASSUME NEW r \in Req, Op(r) = "blockedList", Done(r)
                 PROVE  /\ NoRepeats(got[r].seen)
                        /\ \A i \in BlockedIds(User(r)) :
                             db.blocks[i].by \in past[r] \cup {0}
                               => i \in ToSet(got[r].seen)
    BY DEF BlockedListComplete
  <2>2. /\ got[r].seen \in Seq(Nat) /\ Falling(got[r].seen)
        /\ Ahead(r, 0, got[r].seen)
    BY <1>1, <2>1 DEF ListInv, SeenOk, Done
  <2>3. BlockedIds(User(r)) \subseteq Nat \ {0}
    BY <1>1, BlockedFinite DEF ListInv
  <2>4. QED
    BY <2>2, <2>3, FallingOnce DEF Ahead
<1>2. QED
  BY <1>1, ListInvariant, PTL

-----------------------------------------------------------------------------
(* The update popup.                                                       *)

\* What compareVersions answers from part i on.
Stage(v, w, L, f) ==
  [i \in 1 .. L + 1 |->
     IF i > L THEN 0
     ELSE IF Part(v, i) < Part(w, i) THEN -1
     ELSE IF Part(v, i) > Part(w, i) THEN 1
     ELSE f[i + 1]]

LEMMA ComparedFrom ==
  ASSUME NEW v, NEW w, NEW L, L = Max({Len(v), Len(w)}),
         NEW g, g = Stage(v, w, L, g)
  PROVE  \E f : f = Stage(v, w, L, f) /\ CompareVersions(v, w) = f[1]
<1> DEFINE from == CHOOSE f : f = Stage(v, w, L, f)
<1>1. from = Stage(v, w, L, from)
  OBVIOUS
<1>2. CompareVersions(v, w) = from[1]
  BY Zenon DEF CompareVersions, Stage
<1>3. QED
  BY <1>1, <1>2

LEMMA PartNumber ==
  ASSUME NEW v \in Seq(Int \cup {None}), NEW i
  PROVE  Part(v, i) \in Int
BY DEF Part

\* The comparison ends at the first part in which the versions differ.
LEMMA ComparesOrder ==
  ASSUME NEW v \in Seq(Int \cup {None}), NEW w \in Seq(Int \cup {None})
  PROVE  CompareVersions(v, w) < 0 <=> Older(v, w)
<1>1. PICK L \in Nat : L = Max({Len(v), Len(w)})
  <2>1. Max({Len(v), Len(w)}) \in {Len(v), Len(w)}
    <3>1. PICK m \in {Len(v), Len(w)} : \A k \in {Len(v), Len(w)} : m >= k
      OBVIOUS
    <3>2. QED
      BY <3>1 DEF Max
  <2>2. QED
    BY <2>1
<1>2. \A i \in 1 .. L : Part(v, i) \in Int /\ Part(w, i) \in Int
  BY PartNumber
<1> DEFINE Differ == {i \in 1 .. L : Part(v, i) # Part(w, i)}
           From(i) == {j \in Differ : i <= j}
           Sign(j) == IF Part(v, j) < Part(w, j) THEN -1 ELSE 1
<1>3. ASSUME NEW i \in Nat, From(i) # {}
      PROVE  /\ Min(From(i)) \in From(i)
             /\ \A k \in From(i) : Min(From(i)) <= k
  <2>1. From(i) \subseteq Nat
    OBVIOUS
  <2> HIDE DEF From
  <2>2. QED
    BY <1>3, <2>1, Least
<1>4. \E g : g = Stage(v, w, L, g)
  <2> DEFINE g == [i \in 1 .. L + 1 |->
                     IF From(i) = {} THEN 0 ELSE Sign(Min(From(i)))]
  <2>1. ASSUME NEW i \in 1 .. L + 1 PROVE g[i] = Stage(v, w, L, g)[i]
    <3>1. CASE i > L
      <4>1. From(i) = {}
        BY <3>1
      <4>2. QED
        BY <3>1, <4>1 DEF Stage
    <3>2. CASE i \in Differ
      <4>1. Min(From(i)) = i
        <5>1. i \in From(i) /\ i \in Nat
          BY <3>2
        <5>2. Min(From(i)) \in From(i) /\ Min(From(i)) <= i
          BY <1>3, <5>1
        <5>3. QED
          BY <5>1, <5>2
      <4>2. g[i] = Sign(i)
        BY <3>2, <4>1
      <4>3. Stage(v, w, L, g)[i] = Sign(i)
        BY <1>2, <3>2 DEF Stage
      <4>4. QED
        BY <4>2, <4>3
    <3>3. CASE i <= L /\ i \notin Differ
      <4>1. From(i) = From(i + 1) /\ i + 1 \in 1 .. L + 1
        <5>1. i \in 1 .. L
          BY <3>3
        <5>2. \A j \in Differ : j \in Nat /\ (i <= j <=> i + 1 <= j)
          BY <3>3, <5>1
        <5>3. From(i) = From(i + 1)
          BY <5>2
        <5>4. QED
          BY <5>1, <5>3
      <4>2. g[i] = g[i + 1]
        BY <4>1
      <4>3. Stage(v, w, L, g)[i] = g[i + 1]
        <5>1. Part(v, i) = Part(w, i) /\ Part(v, i) \in Int /\ i \in 1 .. L
          BY <1>2, <3>3
        <5> HIDE DEF g
        <5>2. QED
          BY <5>1 DEF Stage
      <4>4. QED
        BY <4>2, <4>3
    <3>4. QED
      BY <3>1, <3>2, <3>3
  <2>2. g = Stage(v, w, L, g)
    <3>1. /\ DOMAIN g = 1 .. L + 1
          /\ DOMAIN Stage(v, w, L, g) = 1 .. L + 1
          /\ g = [i \in 1 .. L + 1 |-> g[i]]
          /\ Stage(v, w, L, g) = [i \in 1 .. L + 1 |-> Stage(v, w, L, g)[i]]
      BY DEF Stage
    <3> HIDE DEF g
    <3>2. QED
      BY <2>1, <3>1
  <2>3. QED
    BY <2>2
<1>5. PICK f : f = Stage(v, w, L, f) /\ CompareVersions(v, w) = f[1]
  BY <1>1, <1>4, ComparedFrom
<1>6. \A i \in 1 .. L :
         f[i] = IF Part(v, i) < Part(w, i) THEN -1
                ELSE IF Part(v, i) > Part(w, i) THEN 1 ELSE f[i + 1]
  BY <1>5 DEF Stage
<1>7. f[L + 1] = 0
  BY <1>5 DEF Stage
\* Up to a part before which the versions agree the answer is the same.
<1>8. ASSUME NEW d \in 1 .. L + 1, \A j \in 1 .. L : j < d => Part(v, j) = Part(w, j)
      PROVE  f[1] = f[d]
  <2> DEFINE Others == {i \in 1 .. d : f[i] # f[1]}
  <2>1. SUFFICES ASSUME Others # {} PROVE FALSE
    BY <1>8
  <2>2. PICK k \in Others : \A i \in Others : k <= i
    <3>1. Others \subseteq Nat
      OBVIOUS
    <3> HIDE DEF Others
    <3>2. QED
      BY <2>1, <3>1, Least
  <2>3. k # 1 /\ k - 1 \in 1 .. L /\ k - 1 < d /\ k - 1 \notin Others
    BY <2>2
  <2>4. f[k - 1] = f[1]
    BY <2>3
  <2>5. f[k - 1] = f[k]
    <3>1. Part(v, k - 1) = Part(w, k - 1) /\ Part(v, k - 1) \in Int
      BY <1>2, <1>8, <2>3
    <3>2. f[k - 1] = f[k - 1 + 1]
      BY <1>6, <2>3, <3>1
    <3>3. k - 1 + 1 = k
      BY <2>2
    <3>4. QED
      BY <3>2, <3>3
  <2>6. QED
    BY <2>2, <2>4, <2>5
<1>9. CASE Differ = {}
  <2>1. \A j \in 1 .. L : Part(v, j) = Part(w, j)
    BY <1>9
  <2>2. f[1] = 0
    BY <1>7, <1>8, <2>1
  <2>3. ~Older(v, w)
    <3>1. \A j \in 1 .. L : ~(Part(v, j) < Part(w, j))
      BY <1>2, <2>1
    <3>2. QED
      BY <1>1, <3>1 DEF Older
  <2>4. QED
    BY <1>5, <2>2, <2>3
<1>10. CASE Differ # {}
  <2>1. PICK d \in Differ : \A j \in Differ : d <= j
    <3>1. Differ \subseteq Nat
      OBVIOUS
    <3> HIDE DEF Differ
    <3>2. QED
      BY <1>10, <3>1, Least
  <2>2. /\ d \in 1 .. L /\ Part(v, d) # Part(w, d)
        /\ \A j \in 1 .. L : j < d => Part(v, j) = Part(w, j)
    BY <2>1
  <2>3. f[1] = Sign(d)
    <3>1. f[1] = f[d]
      BY <1>8, <2>2
    <3>2. QED
      BY <1>2, <1>6, <2>2, <3>1
  <2>4. Older(v, w) <=> Part(v, d) < Part(w, d)
    <3>1. ASSUME Part(v, d) < Part(w, d) PROVE Older(v, w)
      BY <1>1, <2>2, <3>1 DEF Older
    <3>2. ASSUME Older(v, w) PROVE Part(v, d) < Part(w, d)
      <4>1. PICK i \in 1 .. L : /\ Part(v, i) < Part(w, i)
                                /\ \A j \in 1 .. L : j < i => Part(v, j) = Part(w, j)
        BY <1>1, <3>2 DEF Older
      <4>2. i = d
        BY <1>2, <2>2, <4>1
      <4>3. QED
        BY <4>1, <4>2
    <3>3. QED
      BY <3>1, <3>2
  <2>5. QED
    BY <1>5, <2>3, <2>4
<1>11. QED
  BY <1>9, <1>10

PopupOk(r) ==
  Op(r) = "popup" /\ Done(r) =>
    LET forced == OfType(plan[r].platform, "FORCE") \ {None}
        shown == got[r]
    IN /\ shown # None => Older(plan[r].version, shown.version)
       /\ forced # {} /\ (\A f \in forced : Older(plan[r].version, f.version))
            => shown \in forced
       /\ shown # None /\ shown.type = "RECOMMEND" /\ forced # {}
            => \E f \in forced : ~Older(plan[r].version, f.version)

LEMMA PopupShown ==
  ASSUME DataInv, NEW r \in Req, Handle(r), Op(r) = "popup"
  PROVE  PopupOk(r)'
<1>1. RequestInv /\ StageInv /\ plan \in Plans
  BY DEF DataInv, StoreInv
<1>2. CheckUpdatePopup(r)
  BY <1>1, HandleFollows DEF Follows
<1>3. PICK force \in OfType(plan[r].platform, "FORCE"),
           recommend \in OfType(plan[r].platform, "RECOMMEND") :
        Step(r, "idle", "done", ShownPopup(force, recommend, plan[r].version))
  BY <1>2 DEF CheckUpdatePopup
<1>4. PICK v \in Seq(Int \cup {None}) : v = plan[r].version
  BY <1>1, RequestTypes, AccountAssumption
<1>5. /\ pc'[r] = "done" /\ plan' = plan
      /\ got'[r] = ShownPopup(force, recommend, v)
  BY <1>1, <1>3, <1>4, StepGoes
<1>6. ASSUME NEW type, NEW p \in OfType(plan[r].platform, type), p # None
      PROVE  /\ p.type = type
             /\ ShouldShowForVersion(p, v) <=> Older(v, p.version)
  <2>1. p \in Popups /\ p.type = type
    BY <1>6 DEF OfType, AnyOf, FindAllActiveByPlatform
  <2>2. p.version \in Seq(Int \cup {None})
    BY <2>1, AccountAssumption DEF UpdatePopupRow
  <2>3. QED
    BY <2>1, <2>2, ComparesOrder DEF ShouldShowForVersion
<1>7. PICK forced : forced = OfType(plan[r].platform, "FORCE") \ {None}
  OBVIOUS
<1>8. \/ force \in forced
      \/ force = None /\ forced = {}
  <2>1. PICK S : S = {p \in FindAllActiveByPlatform(plan[r].platform) : p.type = "FORCE"}
    OBVIOUS
  <2>2. None \notin S
    BY <2>1, AccountAssumption, NoneAssumption DEF FindAllActiveByPlatform
  <2>3. OfType(plan[r].platform, "FORCE") = IF S = {} THEN {None} ELSE S
    BY <2>1 DEF OfType, AnyOf
  <2>4. QED
    BY <1>7, <2>2, <2>3
<1>9. PICK shown : shown = got'[r]
  OBVIOUS
<1>10. shown # None => Older(v, shown.version)
  BY <1>5, <1>6, <1>9 DEF ShownPopup
<1>11. ASSUME forced # {}, \A f \in forced : Older(v, f.version)
       PROVE  shown \in forced
  BY <1>5, <1>6, <1>7, <1>8, <1>9, <1>11 DEF ShownPopup
<1>12. ASSUME shown # None, shown.type = "RECOMMEND", forced # {}
       PROVE  \E f \in forced : ~Older(v, f.version)
  BY <1>5, <1>6, <1>7, <1>8, <1>9, <1>12 DEF ShownPopup
<1>13. /\ forced = OfType(plan'[r].platform, "FORCE") \ {None}
       /\ v = plan'[r].version
  BY <1>4, <1>5, <1>7
<1>14. QED
  BY <1>9, <1>10, <1>11, <1>12, <1>13 DEF PopupOk

LEMMA PopupStep ==
  ASSUME DataInv, PopupIsNewer, [Next]_accountVars
  PROVE  PopupIsNewer'
<1>1. \A r \in Req : PopupOk(r)
  BY DEF PopupIsNewer, PopupOk
<1>2. RequestInv
  BY DEF DataInv
<1>3. SUFFICES Req' = Req /\ \A r \in Req : PopupOk(r)'
  BY DEF PopupIsNewer, PopupOk
<1>4. ASSUME NEW q \in Req, Moves(q), NEW r \in Req, r # q PROVE PopupOk(r)'
  <2>1. pc'[r] = pc[r] /\ got'[r] = got[r] /\ plan' = plan
    BY <1>2, <1>4, OthersStay DEF Moves
  <2>2. QED
    BY <1>1, <2>1 DEF PopupOk, Op, Done
<1>5. CASE \E q \in Req : Handle(q)
  <2>1. PICK q \in Req : Handle(q)
    BY <1>5
  <2>2. Moves(q) /\ plan' = plan /\ Req' = Req
    BY <2>1, HandleData DEF Moves
  <2>3. Op(q) # "popup" => PopupOk(q)'
    BY <2>2 DEF PopupOk, Op
  <2>4. QED
    BY <1>4, <2>1, <2>2, <2>3, PopupShown
<1>6. CASE \E q \in Req : Fail(q)
  <2>1. PICK q \in Req : Fail(q)
    BY <1>6
  <2>2. Moves(q) /\ Req' = Req /\ pc'[q] = "failed"
    BY <2>1, FailData
  <2>3. PopupOk(q)'
    BY <2>2 DEF PopupOk, Done
  <2>4. QED
    BY <1>4, <2>2, <2>3
<1>7. CASE \/ \E u \in DOMAIN codes : ExpireCode(u)
           \/ Tick \/ UNCHANGED accountVars
  <2>1. plan' = plan /\ pc' = pc /\ got' = got
    BY <1>7, OtherData DEF requestVars
  <2>2. QED
    BY <1>1, <2>1 DEF PopupOk, Op, Done, Req
<1>8. QED
  BY <1>5, <1>6, <1>7 DEF Next

\* Whatever the popups and the versions, whatever their parts: nobody is asked
\* to install a version that is not newer, and whoever lags behind every forced
\* one is forced.
THEOREM PopupsAreNewer == Spec => []PopupIsNewer
<1>1. Init => PopupIsNewer
  BY DEF Init, RequestsInit, PopupIsNewer, Done
<1>2. QED
  BY <1>1, PopupStep, DataInvariant, PTL DEF Spec
=============================================================================
