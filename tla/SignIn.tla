------------------------------- MODULE SignIn -------------------------------
(***************************************************************************)
(* Accounts, mailed codes and sessions (src/modules/auth).  A session is   *)
(* a row of refresh_tokens with the access token minted beside it.         *)
(*                                                                         *)
(* A mailed code lives in Redis under one key for each user and purpose,   *)
(* so all that matters of it is whether that key is set: a client sends    *)
(* the code in force or one that is refused.  Passwords are counted.       *)
(***************************************************************************)
EXTENDS Calls, Sequences

CONSTANTS
  Emails,       \* addresses people register with
  GoogleIds,    \* what Google vouches for: pairs of a subject and an address
  Threshold,    \* SUSPICIOUS_FAILURE_THRESHOLD
  MaxPassword,  \* bound on the passwords of an account
  MaxSessions   \* bound on rows of refresh_tokens

VARIABLES
  account,  \* users, in the order they were written
  code,     \* the keys of Redis that are set: pairs of a purpose and a user
  session   \* refresh_tokens, in the order they were written

signInVars == <<account, code, session>>

ASSUME SignInAssumption == /\ {Threshold, MaxPassword, MaxSessions} \subseteq Nat
                           /\ \A g \in GoogleIds : g[1] # None /\ g[2] \in Emails

Known(e) == {u \in DOMAIN account : account[u].email = e}
Linked(sub) == {u \in DOMAIN account : account[u].sub = sub}

(* The unique indexes on users.                                            *)
EmailFree(e) == Known(e) = {}
SubjectFree(sub) == sub = None \/ Linked(sub) = {}

(* settled: the latest password whose change has ended the sessions.       *)
NewAccount(e, password, verified, sub) ==
  [email |-> e, password |-> password, settled |-> password, verified |-> verified, sub |-> sub, fails |-> 0]

(* since: the password in force when the row was written.                  *)
NewSession(u, password) == [user |-> u, revoked |-> FALSE, denied |-> FALSE, since |-> password]

(* authenticate: an access token outlives its session's row unless it was  *)
(* denied.                                                                 *)
SignedIn(e) == \E s \in DOMAIN session : account[session[s].user].email = e /\ ~session[s].denied

(* Some have signed up, proved their address and signed in before.         *)
SignInInit(emails) ==
  /\ account = [u \in DOMAIN emails |-> NewAccount(emails[u], 1, TRUE, None)]
  /\ session = [u \in DOMAIN emails |-> NewSession(u, 1)]
  /\ code = {}

-----------------------------------------------------------------------------
(* register: the account and its personal workspace in one transaction,    *)
(* the code after it.                                                      *)
RegisterRead(r, e) ==
  /\ Ask(r, "register", [pc |-> "register", email |-> e])
  /\ EmailFree(e)
  /\ UNCHANGED signInVars

RegisterWrite(r) ==
  /\ At(r, "register")
  /\ IF EmailFree(req[r].email)
     THEN /\ account' = Append(account, NewAccount(req[r].email, 1, FALSE, None))
          /\ GoOn(r, [pc |-> "mail", user |-> Len(account')])
     ELSE Answer(r) /\ UNCHANGED account
  /\ UNCHANGED <<code, session>>

RegisterMail(r) ==
  /\ At(r, "mail")
  /\ code' = code \union {<<"verification", req[r].user>>}
  /\ Answer(r)
  /\ UNCHANGED <<account, session>>

(* resendVerification and forgotPassword.                                  *)
ResendVerification(r, u) ==
  /\ AskOnce(r, "verify")
  /\ ~account[u].verified
  /\ code' = code \union {<<"verification", u>>}
  /\ UNCHANGED <<account, session>>

ForgotPassword(r, u) ==
  /\ AskOnce(r, "reset")
  /\ code' = code \union {<<"reset", u>>}
  /\ UNCHANGED <<account, session>>

(* Redis drops a code after OTP_TTL_SECONDS.                               *)
CodeExpires(c) ==
  /\ code' = code \ {c}
  /\ UNCHANGED <<account, session, callVars>>

VerifyRead(r, u) ==
  /\ Ask(r, "verify", [pc |-> "verify", user |-> u])
  /\ ~account[u].verified /\ <<"verification", u>> \in code
  /\ UNCHANGED signInVars

VerifyWrite(r) ==
  /\ At(r, "verify")
  /\ account' = [account EXCEPT ![req[r].user].verified = TRUE]
  /\ GoOn(r, [pc |-> "forget", code |-> <<"verification", req[r].user>>])
  /\ UNCHANGED <<code, session>>

(* The code is dropped last, by verifyEmail and by resetPassword.          *)
ForgetCode(r) ==
  /\ At(r, "forget")
  /\ code' = code \ {req[r].code}
  /\ Answer(r)
  /\ UNCHANGED <<account, session>>

-----------------------------------------------------------------------------
(* login counts the failures of the last half hour before it compares the  *)
(* password; the session is written later.                                 *)
MayLogIn(u) == account[u].verified /\ account[u].fails < Threshold /\ account[u].password > 0

LoginRead(r, u) ==
  /\ Ask(r, "login", [pc |-> "session", user |-> u])
  /\ MayLogIn(u)
  /\ UNCHANGED signInVars

LoginFails(r, u) ==
  /\ AskOnce(r, "login")
  /\ account[u].verified /\ account[u].fails < Threshold
  /\ account' = [account EXCEPT ![u].fails = @ + 1]
  /\ UNCHANGED <<code, session>>

FailuresAge(u) ==
  /\ account[u].fails > 0
  /\ account' = [account EXCEPT ![u].fails = 0]
  /\ UNCHANGED <<code, session, callVars>>

CreateSession(r) ==
  /\ At(r, "session")
  /\ Len(session) < MaxSessions
  /\ session' = Append(session, NewSession(req[r].user, account[req[r].user].password))
  /\ Answer(r)
  /\ UNCHANGED <<account, code>>

(* googleLogin: by subject, else by address when that account is verified, *)
(* else a new account; the transaction reads before it writes.             *)
GoogleRead(r, g) ==
  /\ \/ \E u \in Linked(g[1]) : Ask(r, "google", [pc |-> "session", user |-> u])
     \/ /\ SubjectFree(g[1])
        /\ \E u \in Known(g[2]) : /\ account[u].verified
                                /\ Ask(r, "google", [pc |-> "google", user |-> u, id |-> g])
     \/ /\ SubjectFree(g[1]) /\ EmailFree(g[2])
        /\ Ask(r, "google", [pc |-> "google", user |-> 0, id |-> g])
  /\ UNCHANGED signInVars

GoogleWrite(r) ==
  /\ At(r, "google")
  /\ LET g == req[r].id  u == req[r].user IN
       IF ~SubjectFree(g[1]) \/ (u = 0 /\ ~EmailFree(g[2]))
       THEN Answer(r) /\ UNCHANGED account
       ELSE /\ account' = IF u = 0 THEN Append(account, NewAccount(g[2], 0, TRUE, g[1]))
                          ELSE [account EXCEPT ![u].sub = g[1]]
            /\ GoOn(r, [pc |-> "session", user |-> IF u = 0 THEN Len(account') ELSE u])
  /\ UNCHANGED <<code, session>>

-----------------------------------------------------------------------------
(* refreshTokens: the row is found, revoked by its identifier and replaced *)
(* in three writes.                                                        *)
RefreshRead(r, s) ==
  /\ Ask(r, "refresh", [pc |-> "refresh", session |-> s])
  /\ ~session[s].revoked
  /\ UNCHANGED signInVars

RefreshRevoke(r) ==
  /\ At(r, "refresh")
  /\ session' = [session EXCEPT ![req[r].session].revoked = TRUE]
  /\ GoOn(r, [pc |-> "session", user |-> session[req[r].session].user])
  /\ UNCHANGED <<account, code>>

(* logout: the deny-list is best effort.                                   *)
Logout(r, s) ==
  /\ AskOnce(r, "logout")
  /\ \E denied \in {session[s].denied, TRUE} :
       session' = [session EXCEPT ![s].revoked = TRUE, ![s].denied = denied]
  /\ UNCHANGED <<account, code>>

(* Mutant: only the latest session is revoked.                             *)
RevokeAllUserTokens_Latest(u) ==
  [s \in DOMAIN session |-> IF session[s].user = u /\ s = Len(session) THEN [session[s] EXCEPT !.revoked = TRUE]
                            ELSE session[s]]

RevokeAllUserTokens(u) ==
  [s \in DOMAIN session |-> IF session[s].user = u THEN [session[s] EXCEPT !.revoked = TRUE] ELSE session[s]]

LogoutAll(r, u) ==
  /\ AskOnce(r, "logout")
  /\ session' = RevokeAllUserTokens(u)
  /\ UNCHANGED <<account, code>>

-----------------------------------------------------------------------------
(* changePassword and resetPassword: the password is written, then every   *)
(* session revoked, then the code of a reset dropped.                      *)
ChangeRead(r, u) ==
  /\ Ask(r, "reset", [pc |-> "password", user |-> u, code |-> None])
  /\ account[u].password > 0
  /\ UNCHANGED signInVars

ResetRead(r, u) ==
  /\ Ask(r, "reset", [pc |-> "password", user |-> u, code |-> <<"reset", u>>])
  /\ <<"reset", u>> \in code
  /\ UNCHANGED signInVars

PasswordWrite(r) ==
  /\ At(r, "password")
  /\ LET u == req[r].user IN
       /\ account[u].password < MaxPassword
       /\ account' = [account EXCEPT ![u].password = @ + 1]
       /\ GoOn(r, [pc |-> "revoke", user |-> u, code |-> req[r].code, to |-> account'[u].password])
  /\ UNCHANGED <<code, session>>

PasswordRevoke(r) ==
  /\ At(r, "revoke")
  /\ LET u == req[r].user IN
       /\ session' = RevokeAllUserTokens(u)
       /\ account' = [account EXCEPT ![u].settled = IF @ > req[r].to THEN @ ELSE req[r].to]
  /\ IF req[r].code = None THEN Answer(r) ELSE GoOn(r, [pc |-> "forget", code |-> req[r].code])
  /\ UNCHANGED code

SignInStep(r) ==
  \/ \E e \in Emails : RegisterRead(r, e)
  \/ RegisterWrite(r) \/ RegisterMail(r)
  \/ \E u \in DOMAIN account :
       \/ ResendVerification(r, u) \/ ForgotPassword(r, u) \/ VerifyRead(r, u)
       \/ LoginRead(r, u) \/ LoginFails(r, u) \/ LogoutAll(r, u)
       \/ ChangeRead(r, u) \/ ResetRead(r, u)
  \/ VerifyWrite(r) \/ ForgetCode(r) \/ CreateSession(r)
  \/ \E g \in GoogleIds : GoogleRead(r, g)
  \/ GoogleWrite(r)
  \/ \E s \in DOMAIN session : RefreshRead(r, s) \/ Logout(r, s)
  \/ RefreshRevoke(r) \/ PasswordWrite(r) \/ PasswordRevoke(r)

SignInNext ==
  \/ \E r \in Requests : SignInStep(r)
  \/ \E c \in code : CodeExpires(c)
  \/ \E u \in DOMAIN account : FailuresAge(u)

-----------------------------------------------------------------------------
(* Whoever races to register, and by whatever route, an address and a      *)
(* Google subject belong to one account; nobody has a session before the   *)
(* address is verified; and once a change of password is through, every    *)
(* session written before that password has ended, whichever requests were *)
(* under way.                                                              *)
SignInSafe ==
  /\ \A u, v \in DOMAIN account : u # v =>
       /\ account[u].email # account[v].email
       /\ account[u].sub = None \/ account[u].sub # account[v].sub
  /\ \A s \in DOMAIN session :
       /\ account[session[s].user].verified
       /\ session[s].revoked \/ session[s].since >= account[session[s].user].settled
=============================================================================
