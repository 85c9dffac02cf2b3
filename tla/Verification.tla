---------------------------- MODULE Verification ----------------------------
(***************************************************************************)
(* The verification of a university address (UniversityService): a code    *)
(* that is stored in Redis for ten minutes and mailed, then compared,      *)
(* written to the user's row and deleted.                                  *)
(*                                                                         *)
(* A code is named by the request that drew it: two requests are taken to  *)
(* draw different ones of the 900000.                                      *)
(***************************************************************************)
EXTENDS AccountData

\* The routes of UniversityController; code 0 was never sent to anybody.
VerificationRequests ==
  [op: {"sendCode"}, user: Nat, email: Emails]
    \cup [op: {"verify"}, user: Nat, code: Nat]

\* sendVerificationCode: the domain's university, then the code ...
SendCode(r) ==
  /\ Op(r) = "sendCode"
  /\ IF FindByDomain(plan[r].email) = {} THEN Refuse(r, "idle")
     ELSE Step(r, "idle", "set", None)
  /\ NoWrite /\ NoRedis /\ UNCHANGED now

\* ... which replaces the one that was stored ...
SetVerificationCode(r) ==
  /\ Step(r, "set", "mail", None)
  /\ codes' = [u \in DOMAIN codes \cup {User(r)} |->
                 IF u = User(r) THEN [code |-> r, email |-> plan[r].email]
                                ELSE codes[u]]
  /\ NoWrite /\ UNCHANGED <<mails, now>>

\* ... and is mailed.
MailCode(r) ==
  /\ Step(r, "mail", "done", None)
  /\ mails' = mails \cup {[email |-> plan[r].email, code |-> r]}
  /\ NoWrite /\ UNCHANGED <<codes, now>>

\* The user knows the code that she types.
Knows(r) == LET c == plan[r].code
            IN c = 0 \/ \E m \in mails : m.code = c

\* GET and DEL of the key verification:code:u.
StoredCode(u) == IF u \in DOMAIN codes THEN codes[u] ELSE None

DeleteCode(u) == codes' = Restrict(codes, DOMAIN codes \ {u})

\* Mutants: any code is as good; a wrong code costs the stored one.
GetVerificationCode_Any(r) ==
  LET cached == StoredCode(User(r))
  IN /\ Op(r) = "verify" /\ Knows(r)
     /\ IF cached = None THEN Refuse(r, "idle") ELSE Step(r, "idle", "user", cached)
     /\ NoWrite /\ NoRedis /\ UNCHANGED now

GetVerificationCode_OneTry(r) ==
  LET cached == StoredCode(User(r))
  IN /\ Op(r) = "verify" /\ Knows(r)
     /\ IF cached = None THEN Refuse(r, "idle") /\ NoRedis
        ELSE IF cached.code # plan[r].code
          THEN /\ Refuse(r, "idle")
               /\ DeleteCode(User(r)) /\ UNCHANGED mails
          ELSE Step(r, "idle", "user", cached) /\ NoRedis
     /\ NoWrite /\ UNCHANGED now

\* verifyUniversityEmail: the code is compared before the transaction's first
\* SELECT ...
GetVerificationCode(r) ==
  LET cached == StoredCode(User(r))
  IN /\ Op(r) = "verify" /\ Knows(r)
     /\ IF cached = None THEN Refuse(r, "idle")
        ELSE IF cached.code # plan[r].code THEN Refuse(r, "idle")
        ELSE Step(r, "idle", "user", cached)
     /\ NoWrite /\ NoRedis /\ UNCHANGED now

FindVerifying(r) ==
  /\ pc[r] = "user"
  /\ IF FindById(db, User(r)) THEN Step(r, "user", "delete", got[r])
                              ELSE Refuse(r, "user")
  /\ NoWrite /\ NoRedis /\ UNCHANGED now

\* Mutant: the code is left to expire.
DeleteVerificationCode_Kept(r) ==
  Step(r, "delete", "commit", got[r]) /\ NoWrite /\ NoRedis /\ UNCHANGED now

\* ... the key is deleted, whatever it holds by now, while the UPDATE is not
\* yet committed ...
DeleteVerificationCode(r) ==
  /\ Step(r, "delete", "commit", got[r])
  /\ DeleteCode(User(r))
  /\ NoWrite /\ UNCHANGED <<mails, now>>

\* ... and then the transaction commits.
CommitVerified(r) ==
  /\ Step(r, "commit", "done", got[r])
  /\ Store("users", Write(db.users, {User(r)}, "email", got[r].email))
  /\ NoRedis /\ UNCHANGED now

VerificationNext(r) ==
  \/ SendCode(r) \/ SetVerificationCode(r) \/ MailCode(r)
  \/ GetVerificationCode(r) \/ FindVerifying(r)
  \/ DeleteVerificationCode(r) \/ CommitVerified(r)

\* The ten minutes are over.
ExpireCode(u) ==
  /\ DeleteCode(u)
  /\ UNCHANGED <<requestVars, db, mails, now>>

-----------------------------------------------------------------------------

\* A verified address belongs to a university and is one to which the user's
\* own code was mailed, whatever codes for other addresses were sent before
\* the handler had written it.
AddressWasProved ==
  \A u \in UserIds : db.users[u].email # None =>
    /\ FindByDomain(db.users[u].email) # {}
    /\ \E m \in mails : /\ m.email = db.users[u].email
                        /\ User(m.code) = u
                        /\ \E r \in Req : /\ Op(r) = "verify" /\ Done(r)
                                          /\ User(r) = u /\ plan[r].code = m.code

\* A code is good for one verification, unless two of them met.
CodeUsedOnce ==
  \A q, r \in Req :
    /\ Op(q) = "verify" /\ Op(r) = "verify" /\ q # r /\ Done(q) /\ Done(r)
    /\ User(q) = User(r) /\ plan[q].code = plan[r].code
    => Met(q, r)

\* A code that was stored stays until it expires, is replaced by the next
\* one, or a verification deletes it that typed it or met the request which
\* stored it (verifyUniversityEmail deletes the key without looking again).
NewCodeSurvives ==
  [][\A u \in DOMAIN codes \ DOMAIN codes' :
       \/ pc' = pc
       \/ \E r \in Req : /\ pc[r] # pc'[r] /\ Op(r) = "verify"
                         /\ User(r) = u
                         /\ \/ plan[r].code = codes[u].code
                            \/ Met(r, codes[u].code)]_accountVars

\* A code proves the address it was mailed to, once: AddressWasProved and
\* CodeUsedOnce, for every order of sending, typing, expiring and failing.
CodesProve == AddressWasProved /\ CodeUsedOnce
=============================================================================
