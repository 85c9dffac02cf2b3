---------------------------- MODULE Registration ----------------------------
(***************************************************************************)
(* Signing up and in, the exchange of refresh tokens, and the profile:     *)
(* UserService, UserController and AuthService of the api-server with      *)
(* JwtRefreshStrategy.  None of them runs in a transaction.                *)
(*                                                                         *)
(* generateTokens signs a JWT whose only varying claim is the second it is *)
(* issued in, so two refresh tokens a user gets in one second are equal,   *)
(* and it writes the user's row only when the token is another than the    *)
(* one the handler loaded.                                                 *)
(***************************************************************************)
EXTENDS AccountData

\* The public routes of UserController; oauth: whose SNS account the OAuth
\* token opens.
RegistrationRequests ==
  [op: {"signUp"}, person: Persons, oauth: Persons, nick: Nicknames]
    \cup [op: {"signIn", "exists"}, person: Persons, oauth: Persons]
    \cup [op: {"nicknameExists"}, nick: Nicknames]

\* held: the request whose answer holds the refresh token that is sent, 0 for
\* the one stored at the start.
RefreshRequests == [op: {"refresh"}, user: Nat, held: Nat]

\* The routes /users/me and /users/:userId.
ProfileRequests ==
  [op: {"profile"}, user: Nat, nick: Nicknames]
    \cup [op: {"getProfile", "withdraw"}, user: Nat]

\* What a handler knows of the user it answers to.
Loaded(u) == [user |-> u, token |-> db.users[u].token, new |-> None]

\* validateSnsUserInfo, then findByProviderId.
FindPerson(r, opname, found, missing) ==
  /\ Op(r) = opname
  /\ IF plan[r].oauth # plan[r].person THEN Refuse(r, "idle")
     ELSE \E u \in AnyOf(FindByProviderId(db, plan[r].person)) :
            IF u = None THEN Step(r, "idle", missing, None)
                        ELSE Step(r, "idle", found, Loaded(u))
  /\ NoWrite /\ NoRedis /\ UNCHANGED now

\* Mutant: an account is created, whatever was found.
SignUp_Again(r) == FindPerson(r, "signUp", "create", "create")

\* Someone who has an account is signed in to it.
SignUp(r) == FindPerson(r, "signUp", "sign", "create")

\* signUp asks nobody whether the nickname is in use.
CreateUser(r) ==
  /\ Step(r, "create", "sign",
          [user |-> Len(db.users) + 1, token |-> None, new |-> None])
  /\ Store("users",
       Append(db.users, [person |-> plan[r].person, nick |-> plan[r].nick,
                         token |-> None, email |-> None, live |-> TRUE,
                         by |-> r]))
  /\ NoRedis /\ UNCHANGED now

SignIn(r) == FindPerson(r, "signIn", "sign", "refused")

CheckUserExists(r) == FindPerson(r, "exists", "done", "done")

\* The token the client sends with refresh r.
Presented(r) == LET q == plan[r].held
                IN IF q = 0 THEN StartDb.users[User(r)].token ELSE got[q].new

\* The client has the token it sends.
Holds(r) == LET q == plan[r].held
            IN q # 0 => /\ q \in Req /\ Done(q)
                        /\ got[q] # None /\ got[q].user = User(r)

\* Mutant: the stored token is not compared.
ValidToken_Unstored(r) == FindById(db, User(r))

\* JwtRefreshStrategy.validate.
ValidToken(r) == /\ FindById(db, User(r))
                 /\ db.users[User(r)].token = Presented(r)

Refresh(r) ==
  /\ Op(r) = "refresh" /\ Holds(r)
  /\ IF ValidToken(r) THEN Step(r, "idle", "sign", Loaded(User(r)))
                      ELSE Refuse(r, "idle")
  /\ NoWrite /\ NoRedis /\ UNCHANGED now

\* generateTokens up to the flush ...
SignTokens(r) ==
  /\ Step(r, "sign", "store", [got[r] EXCEPT !.new = now])
  /\ NoWrite /\ NoRedis /\ UNCHANGED now

\* Mutant: a token is stored only for a user without one.
StoreToken_First(r) ==
  LET g == got[r]
  IN /\ Step(r, "store", "answer", g)
     /\ IF g.token # None THEN NoWrite
        ELSE Store("users", Write(db.users, {g.user}, "token", g.new))
     /\ NoRedis /\ UNCHANGED now

\* ... which writes one column, blindly, and only if it has changed.
StoreToken(r) ==
  LET g == got[r]
  IN /\ Step(r, "store", "answer", g)
     /\ IF g.new = g.token THEN NoWrite
        ELSE Store("users", Write(db.users, {g.user}, "token", g.new))
     /\ NoRedis /\ UNCHANGED now

Answer(r) == Step(r, "answer", "done", got[r]) /\ NoWrite /\ NoRedis /\ UNCHANGED now

CheckNicknameExists(r) ==
  /\ Op(r) = "nicknameExists"
  /\ Step(r, "idle", "done", FindByNickname(db, plan[r].nick) # {})
  /\ NoWrite /\ NoRedis /\ UNCHANGED now

\* updateUserProfile: the user, then a look for the nickname if it changes,
\* then the flush of what has changed.
FindProfile(r) ==
  /\ Op(r) = "profile"
  /\ IF ~FindOneUser(db, User(r)) THEN Refuse(r, "idle")
     ELSE Step(r, "idle",
               IF plan[r].nick = db.users[User(r)].nick THEN "done"
                                                        ELSE "nick", None)
  /\ NoWrite /\ NoRedis /\ UNCHANGED now

NicknameFree(r) == \E u \in AnyOf(FindByNickname(db, plan[r].nick)) :
                     u \in {None, User(r)}

\* Mutant: the answer of the query is not looked at.
FindNickname_Unchecked(r) ==
  Step(r, "nick", "profile", None) /\ NoWrite /\ NoRedis /\ UNCHANGED now

FindNickname(r) ==
  /\ pc[r] = "nick"
  /\ \/ NicknameFree(r) /\ Step(r, "nick", "profile", None)
     \/ FindByNickname(db, plan[r].nick) \ {User(r)} # {} /\ Refuse(r, "nick")
  /\ NoWrite /\ NoRedis /\ UNCHANGED now

SetNickname(r) ==
  /\ Step(r, "profile", "done", plan[r].nick)
  /\ Store("users",
       Write(db.users, {User(r)}, "nick", plan[r].nick))
  /\ NoRedis /\ UNCHANGED now

RegistrationNext(r) ==
  \/ SignUp(r) \/ CreateUser(r) \/ SignIn(r) \/ CheckUserExists(r)
  \/ Refresh(r) \/ SignTokens(r) \/ StoreToken(r) \/ Answer(r)
  \/ CheckNicknameExists(r)
  \/ FindProfile(r) \/ FindNickname(r) \/ SetNickname(r)

-----------------------------------------------------------------------------

\* Requests that change the stored token of user u.
TokenUse(q, u) ==
  \/ Op(q) \in {"signUp", "signIn", "refresh"} /\ got[q] # None /\ got[q].user = u
  \/ Op(q) = "refresh" /\ User(q) = u
  \/ Op(q) = "withdraw" /\ User(q) = u

\* One SNS account has one live user, unless the sign-ups that inserted them
\* met (signUp looks for the user and inserts it in two statements).
OneAccountPerPerson ==
  \A p \in Twins(db.users, Keys.users) : InsertersMet(db.users, p)

\* The requests that gave user x the nickname.
Takers(x, nick) ==
  {q \in Req : \/ Op(q) = "profile" /\ User(q) = x /\ got[q] = nick
               \/ q = db.users[x].by /\ plan[q].nick = nick}

\* A sign-up, which does not look, gave u the nickname that v has or gets: it
\* had not ended when any request came that gave it to v.
TookBlindly(u, v, nick) ==
  \E q \in Takers(u, nick) : /\ Op(q) = "signUp"
                             /\ \A p \in Takers(v, nick) : q \notin past[p]

\* Two live users have one nickname only when requests which gave it to them
\* met, or a sign-up gave it: updateUserProfile refuses a nickname that a
\* sign-up or another update has stored before.
NicknamesUnique ==
  \A p \in Twins(db.users, {"nick"}) :
    LET u == p[1]
        v == p[2]
        nick == db.users[u].nick
    IN \/ \E q \in Takers(u, nick) : MetAny(q, Takers(v, nick))
       \/ TookBlindly(u, v, nick) \/ TookBlindly(v, u, nick)

\* Whoever got a refresh token last can use it: it is the stored one, unless
\* another request for tokens of the user met it, or one failed half-way.
HeldTokenIsValid ==
  \A r \in Req :
    LET u == got[r].user
        Disturbs(q) == q # r /\ pc[q] # "idle" /\ q \notin past[r] /\ TokenUse(q, u)
    IN /\ Op(r) \in {"signUp", "signIn", "refresh"} /\ Done(r)
       /\ ~\E q \in Req : Disturbs(q) \/ pc[q] = "failed"
       => db.users[u].token = got[r].new

\* A refresh token is exchanged once, unless the first exchange answered with
\* the same token (both signed in one second) or met another request for
\* tokens of the user, which stored the old one again, or one that failed
\* half-way, perhaps after it had stored it.
OneExchangePerToken ==
  \A q, r \in Req :
    /\ Op(q) = "refresh" /\ Op(r) = "refresh" /\ Done(q) /\ Done(r)
    /\ q \in past[r] /\ User(q) = User(r) /\ Presented(q) = Presented(r)
    => \/ got[q].new = Presented(q)
       \/ \E s \in Req : /\ Met(q, s)
                         /\ TokenUse(s, User(q)) \/ pc[s] = "failed"

\* Exchanging refresh tokens spends the old one and leaves a good one: the
\* stored token is the one handed out last, and none is exchanged twice.
TokensRotate == HeldTokenIsValid /\ OneExchangePerToken
=============================================================================
