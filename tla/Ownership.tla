----------------------------- MODULE Ownership ------------------------------
(***************************************************************************)
(* The rows a user owns beside the regions: agreements to terms, blocks,   *)
(* reports and devices, and withdrawUser, which deletes them all.  Each    *)
(* creating request looks for the row and inserts it later; no unique key  *)
(* and no lock stands between two of them.                                 *)
(***************************************************************************)
EXTENDS AccountData, Pagination

\* The ids of a request: at least one, and none twice (ArrayUnique); None
\* stands for each that is unknown.
TermsLists ==
  {s \in Seq(Terms \cup {None}) :
     /\ s # << >>
     /\ \A i, j \in DOMAIN s : s[i] = s[j] /\ s[i] # None => i = j}

AgreementRequests ==
  [op: {"agree"}, user: Nat, terms: TermsLists]
    \cup [op: {"agreements"}, user: Nat]

BlockRequests ==
  [op: {"block", "unblock"}, user: Nat, blocked: Nat]
    \cup [op: {"blockedList"}, user: Nat, size: Nat \ {0}]

\* OTHER: bad manners, a suspected scam, hate speech or anything else.
ReportReasons == {"SEXUAL_HARASSMENT", "OTHER"}

ReportRequests == [op: {"report"}, user: Nat, target: Nat, reason: ReportReasons]

DeviceRequests == [op: {"device"}, user: Nat, token: DeviceTokens]

OnlyOwned == NoRedis /\ UNCHANGED now

-----------------------------------------------------------------------------
(* UserService.saveUserAgreements: no transaction; the terms are looked up *)
(* one after the other.                                                    *)

ReadTerms(r) ==
  /\ Op(r) = "agree"
  /\ IF ToSet(plan[r].terms) \subseteq Terms THEN Step(r, "idle", "agreed", 1)
                                             ELSE Refuse(r, "idle")
  /\ NoWrite /\ OnlyOwned

FindAgreed(r) ==
  LET terms == plan[r].terms
      agreed == FindAgreement(db, User(r), terms[got[r]])
  IN /\ pc[r] = "agreed"
     /\ IF agreed # {} THEN Refuse(r, "agreed")
        ELSE IF got[r] < Len(terms) THEN Step(r, "agreed", "agreed", got[r] + 1)
        ELSE IF FindOneUser(db, User(r)) THEN Step(r, "agreed", "agree", None)
        ELSE Refuse(r, "agreed")
     /\ NoWrite /\ OnlyOwned

InsertAgreements(r) ==
  /\ Step(r, "agree", "done", None)
  /\ Store("agreements",
       db.agreements \o [i \in DOMAIN plan[r].terms |->
                           [user |-> User(r), terms |-> plan[r].terms[i],
                            live |-> TRUE, by |-> r]])
  /\ OnlyOwned

GetUserAgreements(r) ==
  /\ Op(r) = "agreements"
  /\ Step(r, "idle", "done", {i \in LiveRows(db.agreements) :
                                db.agreements[i].user = User(r)})
  /\ NoWrite /\ OnlyOwned

\* getUserProfile: also of a user who has withdrawn.
GetUserProfile(r) ==
  /\ Op(r) = "getProfile"
  /\ IF FindOneUser(db, User(r))
       THEN Step(r, "idle", "done", [nick |-> db.users[User(r)].nick,
                                     email |-> db.users[User(r)].email])
       ELSE Refuse(r, "idle")
  /\ NoWrite /\ OnlyOwned

-----------------------------------------------------------------------------
(* UserBlockService and ReportService: transactions.                       *)

NewBlock(r, blocked) ==
  [user |-> User(r), blocked |-> blocked, live |-> TRUE, by |-> r]

\* blockUser's checks, on the snapshot of its transaction.
MayBlock(u, blocked) == /\ u # blocked
                        /\ FindById(db, blocked)
                        /\ FindBlock(db, u, blocked) = {}

ReadBlock(r) ==
  /\ \/ /\ Op(r) = "block"
        /\ IF MayBlock(User(r), plan[r].blocked)
             THEN Step(r, "idle", "block", None) ELSE Refuse(r, "idle")
     \/ /\ Op(r) = "unblock"
        /\ \E i \in AnyOf(FindBlock(db, User(r), plan[r].blocked)) :
             IF i = None THEN Refuse(r, "idle")
                         ELSE Step(r, "idle", "unblock", {i})
  /\ NoWrite /\ OnlyOwned

InsertBlock(r) ==
  /\ Step(r, "block", "done", None)
  /\ Store("blocks", Append(db.blocks, NewBlock(r, plan[r].blocked)))
  /\ OnlyOwned

DeleteBlock(r) ==
  /\ Step(r, "unblock", "done", None)
  /\ Store("blocks", SoftDelete(db.blocks, got[r]))
  /\ OnlyOwned

\* createReport: a report of sexual harassment blocks its target as well; the
\* ConflictException of a user who is blocked already is swallowed.
ReadReport(r) ==
  LET target == plan[r].target
  IN /\ Op(r) = "report"
     /\ IF \/ User(r) = target \/ ~FindById(db, target)
           \/ FindReport(db, User(r), target) # {}
          THEN Refuse(r, "idle")
          ELSE Step(r, "idle", "report",
                    /\ plan[r].reason = "SEXUAL_HARASSMENT"
                    /\ MayBlock(User(r), target))
     /\ NoWrite /\ OnlyOwned

InsertReport(r) ==
  /\ Step(r, "report", "done", None)
  /\ db' = [db EXCEPT
       !.reports = Append(@, [user |-> User(r), target |-> plan[r].target,
                              live |-> TRUE, by |-> r]),
       !.blocks  = IF got[r] THEN Append(@, NewBlock(r, plan[r].target)) ELSE @]
  /\ OnlyOwned

\* getBlockedUsers, called again with nextCursor until hasNext is false.
BlockedIds(u) == {i \in LiveRows(db.blocks) :
                    db.blocks[i].user = u /\ FindById(db, db.blocks[i].blocked)}

BlockedPage(r, from, cursor, seen) ==
  LET page == CursorPage(BlockedIds(User(r)), cursor, plan[r].size)
  IN Step(r, from, IF page.hasNext THEN "page" ELSE "done",
          [cursor |-> page.nextCursor, seen |-> seen \o page.contents])

GetBlockedUsers(r) ==
  /\ Op(r) = "blockedList"
  /\ \/ BlockedPage(r, "idle", 0, << >>)
     \/ pc[r] = "page" /\ BlockedPage(r, "page", got[r].cursor, got[r].seen)
  /\ NoWrite /\ OnlyOwned

-----------------------------------------------------------------------------
(* DeviceService.registerDevice: a token moves from its owner in one flush.*)

FindDevice(r) ==
  /\ Op(r) = "device"
  /\ \E i \in AnyOf(FindByDeviceToken(db, plan[r].token)) :
       IF ~FindOneUser(db, User(r)) THEN Refuse(r, "idle")
       ELSE IF i # None /\ db.devices[i].user = User(r)
         THEN Step(r, "idle", "done", None)
         ELSE Step(r, "idle", "register", {i} \ {None})
  /\ NoWrite /\ OnlyOwned

\* Mutant: the other owner keeps the token.
RegisterDevice_Shared(r) ==
  /\ Step(r, "register", "done", None)
  /\ Store("devices",
       Append(db.devices, [user |-> User(r), token |-> plan[r].token,
                           live |-> TRUE, by |-> r]))
  /\ OnlyOwned

RegisterDevice(r) ==
  /\ Step(r, "register", "done", None)
  /\ Store("devices",
       Append(SoftDelete(db.devices, got[r]),
              [user |-> User(r), token |-> plan[r].token, live |-> TRUE,
               by |-> r]))
  /\ OnlyOwned

-----------------------------------------------------------------------------
(* UserService.withdrawUser.                                               *)

ReadWithdrawing(r) ==
  /\ Op(r) = "withdraw"
  /\ IF FindOneUser(db, User(r)) THEN Step(r, "idle", "withdraw", None)
                                 ELSE Refuse(r, "idle")
  /\ NoWrite /\ OnlyOwned

\* The repositories' softDeleteByUserId: an UPDATE sees the latest rows, and
\* the inserts it keeps waiting come after the commit.
OwnedBy(table, u) == {i \in LiveRows(table) : table[i].user = u}

SweptTables == {"regions", "agreements", "blocks", "reports", "devices"}

\* Mutant: the blocks are forgotten.
Swept_NoBlocks(d, u) == [t \in DOMAIN d |->
  IF t \in SweptTables \ {"blocks"} THEN SoftDelete(d[t], OwnedBy(d[t], u))
                                    ELSE d[t]]

Swept(d, u) == [t \in DOMAIN d |->
  IF t \in SweptTables THEN SoftDelete(d[t], OwnedBy(d[t], u)) ELSE d[t]]

\* Neither the user's code in Redis nor the blocks of others are touched.
Withdraw(r) ==
  /\ Step(r, "withdraw", "done", None)
  /\ db' = [Swept(db, User(r)) EXCEPT
       !.users = SoftDelete(Write(@, {User(r)}, "token", None), {User(r)})]
  /\ OnlyOwned

OwnershipNext(r) ==
  \/ ReadTerms(r) \/ FindAgreed(r) \/ InsertAgreements(r)
  \/ GetUserAgreements(r) \/ GetUserProfile(r)
  \/ ReadBlock(r) \/ InsertBlock(r) \/ DeleteBlock(r)
  \/ ReadReport(r) \/ InsertReport(r) \/ GetBlockedUsers(r)
  \/ FindDevice(r) \/ RegisterDevice(r)
  \/ ReadWithdrawing(r) \/ Withdraw(r)

-----------------------------------------------------------------------------

Withdrawals(u) == {w \in Req : Op(w) = "withdraw" /\ User(w) = u /\ Done(w)}

\* Two live rows say the same only when the requests that inserted them met:
\* one agreement per user and terms, one block and one report per pair of
\* users, one region row per user and region.  A device token has one owner
\* unless two requests for it ever met: of two owners that came of it a later
\* request moves only one.
OwnedRowsUnique ==
  /\ \A t \in SweptTables \ {"devices"} : \A p \in Twins(db[t], Keys[t]) :
       InsertersMet(db[t], p)
  /\ \A p \in Twins(db.devices, Keys.devices) : \E q, r \in Req :
       /\ Op(q) = "device" /\ Op(r) = "device" /\ Met(q, r)
       /\ plan[q].token = db.devices[p[1]].token
       /\ plan[r].token = db.devices[p[1]].token

\* After withdrawUser the user owns nothing, except what a request inserted
\* that met the withdrawal or came later with an access token still valid.
WithdrawnKeepsNothing ==
  \A u \in UserIds : \A w \in Withdrawals(u) :
    \A t \in SweptTables : \A i \in OwnedBy(db[t], u) :
      LET q == db[t][i].by
      IN q \in Req /\ (Met(q, w) \/ w \in past[q])

\* Nobody is signed in or given tokens for an account that had been deleted
\* when the request came.
WithdrawnGetsNoTokens ==
  \A r \in Req :
    Op(r) \in {"signUp", "signIn", "refresh"} /\ Done(r)
      => Withdrawals(got[r].user) \cap past[r] = {}

\* Withdrawal is final: nothing of the user's rows is left, and no token is
\* given out for the account, but to requests that met it.
WithdrawnIsGone == WithdrawnKeepsNothing /\ WithdrawnGetsNoTokens

\* Paging by cursor through the blocked users repeats none, and misses no
\* block that was there before the first page and still is, whatever is
\* blocked, unblocked or withdrawn meanwhile.
BlockedListComplete ==
  \A r \in Req : Op(r) = "blockedList" /\ Done(r) =>
    /\ NoRepeats(got[r].seen)
    /\ \A i \in BlockedIds(User(r)) :
         db.blocks[i].by \in past[r] \cup {0} => i \in ToSet(got[r].seen)
=============================================================================
