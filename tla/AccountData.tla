---------------------------- MODULE AccountData -----------------------------
(***************************************************************************)
(* What the account requests share: the tables of libs/database they read  *)
(* and write, Redis' verification codes, and the clock of the tokens.      *)
(*                                                                         *)
(* A user acts with the id of an access token, which is checked for its    *)
(* signature only: it outlives the account.                                *)
(***************************************************************************)
EXTENDS Requests

CONSTANTS
  Persons,       \* SNS accounts: a provider and the provider's id
  Nicknames,
  Regions, Terms, DeviceTokens,
  Emails,        \* each split at its "@"
  Universities,  \* the domains of the university table
  StartDb,       \* the tables before the first request
  Horizon        \* bound: the last second of the clock

VARIABLES
  db,      \* the tables, committed
  codes,   \* codes[u]: the value of the key verification:code:u, if it exists
  mails,   \* <<email, code>> pairs that went to the mail queue
  now      \* the second a token signed now carries as its iat

accountVars == <<requestVars, db, codes, mails, now>>

UserIds == DOMAIN db.users
Writers == Req \cup {0}   \* 0 wrote the rows of StartDb

-----------------------------------------------------------------------------
(* The rows, of users in us, inserted by the requests in ws (field by, which *)
(* is no column).                                                          *)

\* The refresh token of a user is determined by the second it was signed in.
UserRow(ws) ==
  [person: Persons, nick: Nicknames, token: 0 .. Horizon \cup {None},
   email: Emails \cup {None}, live: BOOLEAN, by: ws]

InterestRegionRow(us, ws) ==
  [user: us, region: Regions, primary: BOOLEAN, live: BOOLEAN, by: ws]

UserAgreementRow(us, ws) == [user: us, terms: Terms, live: BOOLEAN, by: ws]

UserBlockRow(us, ws) == [user: us, blocked: us, live: BOOLEAN, by: ws]

ReportRow(us, ws) == [user: us, target: us, live: BOOLEAN, by: ws]

DeviceRow(us, ws) == [user: us, token: DeviceTokens, live: BOOLEAN, by: ws]

Tables(us, ws) ==
  [users: Seq(UserRow(ws)), regions: Seq(InterestRegionRow(us, ws)),
   agreements: Seq(UserAgreementRow(us, ws)), blocks: Seq(UserBlockRow(us, ws)),
   reports: Seq(ReportRow(us, ws)), devices: Seq(DeviceRow(us, ws))]

-----------------------------------------------------------------------------
(* What identifies a row: there is no unique key, and what stands in for    *)
(* one is that handlers look for the row before they insert it.            *)

Keys ==
  [users |-> {"person"}, regions |-> {"user", "region"},
   agreements |-> {"user", "terms"}, blocks |-> {"user", "blocked"},
   reports |-> {"user", "target"}, devices |-> {"token"}]

\* Pairs of live rows that agree in the fields F.
Twins(table, F) ==
  {p \in LiveRows(table) \X LiveRows(table) :
     p[1] # p[2] /\ \A f \in F : table[p[1]][f] = table[p[2]][f]}

\* Two rows were inserted by requests that met.
InsertersMet(table, p) ==
  /\ table[p[1]].by \in Req /\ table[p[2]].by \in Req
  /\ Met(table[p[1]].by, table[p[2]].by)

-----------------------------------------------------------------------------
(* The repositories' queries, on the tables d.                             *)

\* findOne(userId): it does not ask whether the user is deleted.
FindOneUser(d, u) == u \in DOMAIN d.users

FindById(d, u) == u \in LiveRows(d.users)

\* Mutant: deleted users as well.
FindByProviderId_All(d, person) ==
  {u \in DOMAIN d.users : d.users[u].person = person}

FindByProviderId(d, person) ==
  {u \in LiveRows(d.users) : d.users[u].person = person}

FindByNickname(d, nick) == {u \in LiveRows(d.users) : d.users[u].nick = nick}

FindRegions(d, u) == {i \in LiveRows(d.regions) : d.regions[i].user = u}

FindPrimary(d, u) == {i \in FindRegions(d, u) : d.regions[i].primary}

FindByRegion(d, u, region) ==
  {i \in FindRegions(d, u) : d.regions[i].region = region}

FindAgreement(d, u, terms) ==
  {i \in LiveRows(d.agreements) :
     d.agreements[i].user = u /\ d.agreements[i].terms = terms}

FindBlock(d, u, blocked) ==
  {i \in LiveRows(d.blocks) :
     d.blocks[i].user = u /\ d.blocks[i].blocked = blocked}

FindReport(d, u, target) ==
  {i \in LiveRows(d.reports) :
     d.reports[i].user = u /\ d.reports[i].target = target}

FindByDeviceToken(d, token) ==
  {i \in LiveRows(d.devices) : d.devices[i].token = token}

\* The university of an address: extractDomain wants exactly one "@".
FindByDomain(email) ==
  IF Len(email) = 2 /\ email[2] \in Universities THEN {email[2]} ELSE {}

User(r) == plan[r].user

\* A write to one table, or to none.
Store(table, rows) == db' = [db EXCEPT ![table] = rows]

NoWrite == UNCHANGED db
NoRedis == UNCHANGED <<codes, mails>>
=============================================================================
