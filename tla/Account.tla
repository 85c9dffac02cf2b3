------------------------------ MODULE Account -------------------------------
(***************************************************************************)
(* The account requests of the api-server together: registration and       *)
(* tokens, interest regions, what users own, the university address and    *)
(* the update popup, interleaved await by await over one database.         *)
(***************************************************************************)
EXTENDS Registration, InterestRegions, Ownership, Verification, UpdatePopup

AccountRequests ==
  RegistrationRequests \cup RefreshRequests \cup ProfileRequests
    \cup RegionRequests \cup PrimaryRequests \cup AgreementRequests
    \cup BlockRequests \cup ReportRequests \cup DeviceRequests
    \cup VerificationRequests \cup PopupRequests

ASSUME AccountAssumption ==
  /\ Plans \subseteq Seq(AccountRequests)
  /\ Versions \subseteq Seq(Int \cup {None})
  /\ Popups \subseteq UpdatePopupRow
  /\ MaxFailures \in Nat
  /\ Horizon \in Nat

ASSUME NoneAssumption ==
  /\ None \notin Nat /\ None \notin Emails /\ None \notin Nicknames
  /\ None \notin Terms /\ None \notin UpdatePopupRow
  /\ None \notin [code: Nat, email: Emails]
  /\ None \notin [user: Nat, token: Nat \cup {None}, new: Nat \cup {None}]

\* Before the first request no address is verified, the tokens are those of
\* second 0, and the rows are such as requests leave that did not meet.
ASSUME StartAssumption ==
  /\ StartDb \in Tables(DOMAIN StartDb.users, {0})
  /\ \A u \in DOMAIN StartDb.users : /\ StartDb.users[u].token \in {0, None}
                                     /\ StartDb.users[u].email = None
  /\ \A t \in DOMAIN Keys : Twins(StartDb[t], Keys[t]) = {}
  /\ Twins(StartDb.users, {"nick"}) = {}
  /\ \A u \in DOMAIN StartDb.users :
       /\ Cardinality(FindPrimary(StartDb, u)) <= 1
       /\ Cardinality(FindRegions(StartDb, u)) <= INTEREST_REGIONS_MAX_COUNT

Init ==
  /\ RequestsInit
  /\ db = StartDb
  /\ codes = << >>
  /\ mails = {}
  /\ now = 0

\* A second passes, while someone signs in or exchanges a token.
Tick ==
  /\ now < Horizon
  /\ \E r \in Req : Op(r) \in {"signIn", "refresh"} /\ ~Ended(r)
  /\ now' = now + 1
  /\ UNCHANGED <<requestVars, db, codes, mails>>

Fail(r) == Abort(r) /\ UNCHANGED <<db, codes, mails, now>>

\* A token names a user who has signed up; the other operations need none, or
\* ask about a user who may not exist.
Acts(r) ==
  Op(r) \notin {"signUp", "signIn", "exists", "nicknameExists", "getProfile",
               "popup"} => User(r) \in UserIds

Handle(r) ==
  /\ Acts(r)
  /\ \/ RegistrationNext(r) \/ InterestRegionsNext(r) \/ OwnershipNext(r)
     \/ VerificationNext(r) \/ CheckUpdatePopup(r)

Next ==
  \/ \E r \in Req : Handle(r) \/ Fail(r)
  \/ \E u \in DOMAIN codes : ExpireCode(u)
  \/ Tick

Spec == Init /\ [][Next]_accountVars

TypeOK ==
  /\ db \in Tables(UserIds, Writers)
  /\ codes \in [DOMAIN codes -> [code: Req, email: Emails]]
  /\ DOMAIN codes \subseteq UserIds
  /\ mails \subseteq [email: Emails, code: Req]
  /\ now \in 0 .. Horizon
  /\ \A r \in Req : past[r] \subseteq {q \in Req : Ended(q)}

\* What the handlers check before they insert holds of the rows, however many
\* of them check at once, but for those that met: one account per person,
\* nicknames, agreements, blocks, reports, devices and regions.
ChecksHold ==
  /\ OneAccountPerPerson
  /\ NicknamesUnique
  /\ OwnedRowsUnique
  /\ RegionLimits
=============================================================================
