------------------------------- MODULE Sessions -------------------------------
(***************************************************************************)
(* Login, two-factor login, refresh-token rotation and user administration *)
(* (server/api/auth.py, users.py, dependencies.py, services/auth_service). *)
(*                                                                         *)
(* A request runs on one event loop and gives way at each await, so a      *)
(* handler is at most three actions: one up to the snapshot of the user's  *)
(* row that its first query takes, and one per commit, which writes only   *)
(* the columns the handler assigned.  The checks before the first query    *)
(* are taken at the query: what they read is not written back.             *)
(*                                                                         *)
(* Abstracted: the ends of tokens' and sessions' lives (a token that is    *)
(* still there only allows more, so what holds here holds with expiry),    *)
(* JWT and cookie encoding, bcrypt and TOTP arithmetic (a code is named by *)
(* the secret it was computed from), one client address.  Not modelled:    *)
(* e-mail and names of users, and the endpoints that only read.            *)
(***************************************************************************)
EXTENDS Integers, FiniteSets, Sequences

CONSTANTS
  Users,        \* usernames
  Passwords,    \* passwords a user may have or a client may try
  Secrets,      \* TOTP secrets that generate_secret may return
  Clients,      \* requests the server works on at the same time
  MaxAttempts,  \* settings.login_rate_limit
  NoUser,       \* no row of table users has the name
  NoSecret,     \* mfa_secret is NULL
  NoReq,        \* a client without a request
  RolesUsed,    \* roles that users are given
  MaxCommits    \* bound: insertions into sessions and commits to users

ASSUME SessionsAssumption ==
  /\ IsFiniteSet(Clients) /\ NoSecret \notin Secrets
  /\ MaxAttempts \in Nat \ {0} /\ MaxCommits \in Nat

VARIABLES
  user,       \* table users: the row of each name
  sessions,   \* table sessions, in order of insertion
  access,     \* access tokens issued
  challenges, \* MFA challenge tokens issued
  attempts,   \* failures in the window of login_rate_limiter
  req,        \* the request each client waits for
  edits,      \* commits to users so far
  forks,      \* history: per login, sessions revoked again by a second request
  closed,     \* history: logins ended by a logout
  broken,     \* history: logins a crash interrupted a request of
  torn,       \* history: users whose MFA requests have overlapped
  proved      \* history: the secret each user last proved to have

sessionsVars == <<user, sessions, access, challenges, attempts, req, edits,
          forks, closed, broken, torn, proved>>
lineage == <<forks, closed, broken>>
mfaHistory == <<torn, proved>>
tokens == <<access, challenges>>

ROLE_PERMISSIONS ==
  [Admin |-> {"users:read", "users:write", "policies:read", "policies:write",
              "incidents:read", "incidents:write", "discovers:read",
              "discovers:write", "detection:run", "system:admin"},
   Analyst |-> {"incidents:read", "incidents:write", "policies:read",
                "discovers:read", "detection:run"},
   Remediator |-> {"incidents:read", "incidents:write"}]
Roles == DOMAIN ROLE_PERMISSIONS
HasPermission(role, permission) == permission \in ROLE_PERMISSIONS[role]

UserRow == [active : BOOLEAN, role : Roles, pw : Passwords, mfa : BOOLEAN,
            secret : Secrets \cup {NoSecret}]
ASSUME RolesAssumption == RolesUsed \subseteq Roles /\ NoUser \notin UserRow

\* old: the user's row was changed since it was read for this token.
AccessToken == [user : Users, role : Roles, old : BOOLEAN]
Challenge == [user : Users, old : BOOLEAN]

(***************************************************************************)
(* A request that has passed its checks and will write: what it does, the  *)
(* password or secret it carries, the role that was loaded with the user,  *)
(* and the session it read.  A request that is refused, or answered from   *)
(* what it read, without writing anything, is no action.                   *)
(***************************************************************************)
MfaOps == {"enroll", "confirm", "disable"}
Ops == {"login", "guess", "mfa", "password", "refresh", "logout"} \cup MfaOps
Issuing == {"login", "mfa", "refresh"}
Requests == [op : Ops, user : Users, arg : Passwords \cup Secrets \cup {NoSecret},
             at : {"read", "revoked"}, tok : 0 .. MaxCommits, old : BOOLEAN,
             role : Roles \cup {NoUser}]
ASSUME RequestsAssumption == NoReq \notin Requests
Request(o, u, a, k, old) ==
  [op |-> o, user |-> u, arg |-> a, at |-> "read", tok |-> k, old |-> old,
   role |-> IF o \in Issuing THEN user[u].role ELSE NoUser]

\* One administrator, with MFA enabled or not.
SessionsInit ==
  /\ \E u \in Users, p \in Passwords, s \in Secrets \cup {NoSecret} :
       /\ user = [v \in Users |->
                    IF v = u THEN [active |-> TRUE, role |-> "Admin", pw |-> p,
                                   mfa |-> s # NoSecret, secret |-> s]
                             ELSE NoUser]
       /\ proved = [v \in Users |-> IF v = u THEN s ELSE NoSecret]
  /\ sessions = <<>> /\ access = {} /\ challenges = {} /\ attempts = 0
  /\ req = [c \in Clients |-> NoReq]
  /\ edits = 0
  /\ forks = [f \in 1 .. MaxCommits |-> 0] /\ closed = {} /\ broken = {}
  /\ torn = {}

MayCommit == Len(sessions) + edits < MaxCommits

Live(k) == sessions[k].live
LiveOf(f) == {k \in DOMAIN sessions : sessions[k].login = f /\ Live(k)}
Busy(c, op) == req[c] # NoReq /\ req[c].op = op

End(c) == req' = [req EXCEPT ![c] = NoReq]
AuthUnchanged == UNCHANGED <<user, edits>> /\ UNCHANGED mfaHistory

-----------------------------------------------------------------------------
(* Login.                                                                  *)

Check_ == attempts <= MaxAttempts  \* a mutant: one attempt too many
Check == attempts < MaxAttempts

Authenticated(u, p) == user[u] # NoUser /\ user[u].pw = p

\* login up to its first write.
LoginMayIssue_(u) == ~user[u].mfa  \* a mutant: is_active is not looked at
LoginMayIssue(u) == user[u].active /\ ~user[u].mfa
LoginStart(c, u, p) ==
  /\ req[c] = NoReq /\ Check
  /\ \/ /\ ~Authenticated(u, p)
        /\ req' = [req EXCEPT ![c] = Request("guess", u, NoSecret, 0, FALSE)]
        /\ UNCHANGED challenges
     \/ /\ Authenticated(u, p) /\ LoginMayIssue(u)
        /\ req' = [req EXCEPT ![c] = Request("login", u, p, 0, FALSE)]
        /\ UNCHANGED challenges
     \/ /\ Authenticated(u, p) /\ user[u].active /\ user[u].mfa
        /\ challenges' = challenges \cup {[user |-> u, old |-> FALSE]}
        /\ UNCHANGED req
  /\ UNCHANGED <<access, sessions, attempts>>
  /\ UNCHANGED lineage /\ AuthUnchanged

\* The attempts that have left the window are pruned by the next check.
AttemptAges ==
  /\ attempts > 0 /\ attempts' = attempts - 1
  /\ UNCHANGED <<sessions, req>>
  /\ UNCHANGED tokens /\ UNCHANGED lineage /\ AuthUnchanged

Read(c, op) == Busy(c, op) /\ req[c].at = "read"

\* record, after the awaits: every login checked meanwhile has passed.
LoginFails(c) ==
  /\ Read(c, "guess")
  /\ attempts' = attempts + 1
  /\ End(c)
  /\ UNCHANGED sessions /\ UNCHANGED tokens /\ UNCHANGED lineage /\ AuthUnchanged

\* _issue_tokens: an access token, and a session that is committed.
IssueTokens(c) ==
  LET k == Len(sessions) + 1 IN
  /\ MayCommit
  /\ sessions' = Append(sessions, [login |-> k, user |-> req[c].user, live |-> TRUE])
  /\ access' = access \cup {[user |-> req[c].user, role |-> req[c].role,
                             old |-> req[c].old]}
  /\ End(c)
  /\ UNCHANGED challenges /\ UNCHANGED lineage /\ AuthUnchanged

LoginIssues(c) ==
  /\ Read(c, "login")
  /\ attempts' = 0
  /\ IssueTokens(c)

(***************************************************************************)
(* The second factor.  mfa_verify looks neither at is_active nor at the    *)
(* limiter, and a challenge may be used until it expires.                  *)
(***************************************************************************)
VerifyTotp(row, code) == row.secret # NoSecret /\ code = row.secret

MfaStart(c, ch, code) ==
  /\ req[c] = NoReq
  /\ user[ch.user] # NoUser /\ user[ch.user].mfa /\ VerifyTotp(user[ch.user], code)
  /\ req' = [req EXCEPT ![c] = Request("mfa", ch.user, code, 0, ch.old)]
  /\ UNCHANGED <<sessions, attempts>>
  /\ UNCHANGED tokens /\ UNCHANGED lineage /\ AuthUnchanged

MfaIssues(c) ==
  /\ Read(c, "mfa")
  /\ IssueTokens(c)
  /\ UNCHANGED attempts

-----------------------------------------------------------------------------
(* Sessions.                                                               *)

ValidSession_(k) == k \in DOMAIN sessions  \* a mutant: revoked is not compared
ValidSession(k) == k \in DOMAIN sessions /\ Live(k)

\* get_session_by_token, which loads the user and the role with the session.
SessionRead(c, op, k) ==
  /\ req[c] = NoReq /\ ValidSession(k)
  /\ req' = [req EXCEPT ![c] = Request(op, sessions[k].user, NoSecret, k, FALSE)]
  /\ UNCHANGED <<sessions, attempts>>
  /\ UNCHANGED tokens /\ UNCHANGED lineage /\ AuthUnchanged

\* revoke_session; a session that is revoked twice was read by two requests.
Revoked(k) == [sessions EXCEPT ![k].live = FALSE]
CountFork(k) == forks' = IF Live(k) THEN forks ELSE [forks EXCEPT ![sessions[k].login] = @ + 1]

\* refresh_token: the old session is revoked in a transaction of its own ...
RefreshRevokes_(c) ==  \* a mutant: the old session is kept
  /\ Read(c, "refresh")
  /\ req' = [req EXCEPT ![c].at = "revoked"]
  /\ UNCHANGED <<sessions, attempts>>
  /\ UNCHANGED tokens /\ UNCHANGED lineage /\ AuthUnchanged
RefreshRevokes(c) ==
  /\ Read(c, "refresh")
  /\ sessions' = Revoked(req[c].tok) /\ CountFork(req[c].tok)
  /\ req' = [req EXCEPT ![c].at = "revoked"]
  /\ UNCHANGED <<attempts, closed, broken>>
  /\ UNCHANGED tokens /\ AuthUnchanged

\* ... and the new one is inserted in the next, with the role read before.
RefreshIssues_(c) ==  \* a mutant: the role is not the one that was read
  LET s == sessions[req[c].tok] IN
  /\ Busy(c, "refresh") /\ req[c].at = "revoked" /\ MayCommit
  /\ sessions' = Append(sessions, [s EXCEPT !.live = TRUE])
  /\ access' = access \cup {[user |-> s.user, role |-> "Admin", old |-> req[c].old]}
  /\ End(c)
  /\ UNCHANGED <<challenges, attempts>> /\ UNCHANGED lineage /\ AuthUnchanged
RefreshAnswers_(c) ==  \* a mutant: no new session is stored
  LET s == sessions[req[c].tok] IN
  /\ Busy(c, "refresh") /\ req[c].at = "revoked"
  /\ access' = access \cup {[user |-> s.user, role |-> req[c].role, old |-> req[c].old]}
  /\ End(c)
  /\ UNCHANGED <<sessions, challenges, attempts>> /\ UNCHANGED lineage /\ AuthUnchanged
RefreshIssues(c) ==
  LET s == sessions[req[c].tok] IN
  /\ Busy(c, "refresh") /\ req[c].at = "revoked" /\ MayCommit
  /\ sessions' = Append(sessions, [s EXCEPT !.live = TRUE])
  /\ access' = access \cup {[user |-> s.user, role |-> req[c].role, old |-> req[c].old]}
  /\ End(c)
  /\ UNCHANGED <<challenges, attempts>> /\ UNCHANGED lineage /\ AuthUnchanged

LogoutRevokes_(c) ==  \* a mutant: only the cookie is deleted
  /\ Read(c, "logout")
  /\ closed' = closed \cup {sessions[req[c].tok].login}
  /\ End(c)
  /\ UNCHANGED <<sessions, attempts, forks, broken>> /\ UNCHANGED tokens /\ AuthUnchanged
LogoutRevokes(c) ==
  /\ Read(c, "logout")
  /\ sessions' = Revoked(req[c].tok) /\ CountFork(req[c].tok)
  /\ closed' = closed \cup {sessions[req[c].tok].login}
  /\ End(c)
  /\ UNCHANGED <<attempts, broken>> /\ UNCHANGED tokens /\ AuthUnchanged

\* The process dies: requests, and the limiter, go; tokens are not in memory.
Crash ==
  /\ \E c \in Clients : req[c] # NoReq
  /\ req' = [c \in Clients |-> NoReq] /\ attempts' = 0
  /\ broken' = broken \cup {sessions[req[c].tok].login :
                              c \in {d \in Clients : req[d] # NoReq /\ req[d].tok > 0}}
  /\ UNCHANGED <<sessions, forks, closed>> /\ UNCHANGED tokens /\ AuthUnchanged

-----------------------------------------------------------------------------
(* Changes to a user's row.                                                *)

\* Everything that was read from u's row before this commit is old now.
Outdate(u) ==
  /\ access' = {[t EXCEPT !.old = @ \/ t.user = u] : t \in access}
  /\ challenges' = {[t EXCEPT !.old = @ \/ t.user = u] : t \in challenges}

OutdatedReq(u) ==
  [c \in Clients |->
     IF req[c] = NoReq THEN NoReq
     ELSE [req[c] EXCEPT !.old = @ \/ (req[c].op \in Issuing /\ req[c].user = u)]]
Commit(u, row) ==
  /\ MayCommit /\ edits' = edits + 1
  /\ user' = [user EXCEPT ![u] = row]
  /\ Outdate(u)
  /\ UNCHANGED <<sessions, attempts>> /\ UNCHANGED lineage

\* RequirePermission: by the role in the token, not the one in the table.
Permitted(permission) == \E t \in access : HasPermission(t.role, permission)

CreateUser(u, p, role) ==
  /\ Permitted("users:write") /\ user[u] = NoUser
  /\ Commit(u, [active |-> TRUE, role |-> role, pw |-> p, mfa |-> FALSE, secret |-> NoSecret])
  /\ req' = OutdatedReq(u) /\ UNCHANGED mfaHistory

UpdateUser(u) ==
  /\ Permitted("users:write") /\ user[u] # NoUser
  /\ \E active \in BOOLEAN, role \in RolesUsed :
       /\ (active = user[u].active) # (role = user[u].role)  \* one of them
       /\ Commit(u, [user[u] EXCEPT !.active = active, !.role = role])
  /\ req' = OutdatedReq(u) /\ UNCHANGED mfaHistory

MfaBusy(d, u) == req[d] # NoReq /\ req[d].op \in MfaOps /\ req[d].user = u

\* What mfa_enroll, mfa_enroll_verify, mfa_disable and change_password check.
Confirms_(row, a) == ~row.mfa /\ row.secret # NoSecret  \* a mutant: any code does
Confirms(row, a) == ~row.mfa /\ VerifyTotp(row, a)
Accepted(op, row, a, pw) ==
  CASE op = "enroll" -> ~row.mfa
    [] op = "confirm" -> Confirms(row, a)
    [] op = "disable" -> row.mfa /\ pw = row.pw
    [] op = "password" -> pw = row.pw /\ a # pw

\* get_current_user: what the token says is believed until it expires.
OwnStart(c, op, a) ==
  /\ req[c] = NoReq
  /\ \E t \in access :
       /\ \E pw \in Passwords : Accepted(op, user[t.user], a, pw)
       /\ req' = [req EXCEPT ![c] = Request(op, t.user, a, 0, FALSE)]
       /\ torn' = IF op \in MfaOps /\ \E d \in Clients : MfaBusy(d, t.user)
                  THEN torn \cup {t.user} ELSE torn
  /\ UNCHANGED <<user, edits, proved, sessions, attempts>>
  /\ UNCHANGED tokens /\ UNCHANGED lineage

\* The columns that each of them assigns.
Assigned(row, op, a) ==
  CASE op = "enroll" -> [row EXCEPT !.secret = a]
    [] op = "confirm" -> [row EXCEPT !.mfa = TRUE]
    [] op = "disable" -> [row EXCEPT !.mfa = FALSE, !.secret = NoSecret]
    [] op = "password" -> [row EXCEPT !.pw = a]

OwnCommits(c) ==
  LET u == req[c].user IN
  /\ req[c] # NoReq /\ req[c].op \in MfaOps \cup {"password"}
  /\ Commit(u, Assigned(user[u], req[c].op, req[c].arg))
  /\ req' = [OutdatedReq(u) EXCEPT ![c] = NoReq]
  /\ proved' = IF req[c].op = "confirm" THEN [proved EXCEPT ![u] = req[c].arg] ELSE proved
  /\ UNCHANGED torn

-----------------------------------------------------------------------------
Step(c) ==
  \/ \E u \in Users, p \in Passwords : LoginStart(c, u, p)
  \/ LoginFails(c) \/ LoginIssues(c)
  \/ \E ch \in challenges, s \in Secrets : MfaStart(c, ch, s)
  \/ MfaIssues(c)
  \/ \E k \in 1 .. MaxCommits, op \in {"refresh", "logout"} : SessionRead(c, op, k)
  \/ RefreshRevokes(c) \/ RefreshIssues(c) \/ LogoutRevokes(c)
  \/ \E op \in {"enroll", "confirm"}, s \in Secrets : OwnStart(c, op, s)
  \/ OwnStart(c, "disable", NoSecret)
  \/ \E p \in Passwords : OwnStart(c, "password", p)
  \/ OwnCommits(c)

SessionsNext ==
  \/ \E c \in Clients : Step(c)
  \/ AttemptAges \/ Crash
  \/ \E u \in Users : UpdateUser(u) \/ \E p \in Passwords, r \in RolesUsed : CreateUser(u, p, r)

SessionsSpec == SessionsInit /\ [][SessionsNext]_sessionsVars

-----------------------------------------------------------------------------
SessionsTypeOK ==
  /\ user \in [Users -> UserRow \cup {NoUser}]
  /\ sessions \in Seq([login : 1 .. MaxCommits, user : Users, live : BOOLEAN])
  /\ \A k \in DOMAIN sessions : sessions[k].login <= k
  /\ edits \in Nat /\ Len(sessions) + edits <= MaxCommits
  /\ access \subseteq AccessToken /\ challenges \subseteq Challenge
  /\ attempts \in 0 .. MaxAttempts + Cardinality(Clients) - 1
  /\ req \in [Clients -> Requests \cup {NoReq}]
  /\ \A c \in Clients : req[c] # NoReq =>
       /\ req[c].tok <= Len(sessions)
       /\ req[c].tok > 0 <=> req[c].op \in {"refresh", "logout"}
  /\ forks \in [1 .. MaxCommits -> Nat]
  /\ closed \cup broken \subseteq DOMAIN sessions
  /\ torn \subseteq Users /\ proved \in [Users -> Secrets \cup {NoSecret}]

(***************************************************************************)
(* check() and record() are two awaits apart, so concurrent guesses pass   *)
(* the limit together; but never more of them than requests were in        *)
(* flight when the last place was taken (dependencies.py:131-154).         *)
(***************************************************************************)
Guessing == {c \in Clients : Busy(c, "login") \/ Busy(c, "guess")}
GuessesAreBounded ==
  attempts + Cardinality(Guessing) <= MaxAttempts + Cardinality(Clients) - 1

(***************************************************************************)
(* Rotation (auth.py:181-186): one login has one live session, plus one    *)
(* for each time a second request revoked a token it had read.  And it       *)
(* has one, or a refresh about to insert it, until it is logged out or the *)
(* process dies between the two commits.                                   *)
(***************************************************************************)
InFlight(f) ==
  {c \in Clients : /\ Busy(c, "refresh") /\ req[c].at = "revoked"
                   /\ sessions[req[c].tok].login = f}
Logins == {sessions[k].login : k \in DOMAIN sessions}

RotationForks ==
  \A f \in Logins : Cardinality(LiveOf(f)) + Cardinality(InFlight(f)) <= 1 + forks[f]
NobodyIsLoggedOutSilently ==
  \A f \in Logins \ (closed \cup broken) : LiveOf(f) # {} \/ InFlight(f) # {}

\* logout (auth.py:211-224) ends the login, unless a refresh held the token.
LogoutIsFinal ==
  \A f \in closed : forks[f] = 0 => LiveOf(f) = {} /\ InFlight(f) = {}

\* The sessions are those of the logins, rotated and not yet ended (auth.py).
SessionsFollowLogins ==
  SessionsTypeOK /\ RotationForks /\ NobodyIsLoggedOutSilently /\ LogoutIsFinal

(***************************************************************************)
(* A login succeeds only on what the row says, password, is_active and     *)
(* second factor together, unless the row was changed after the request,   *)
(* or the login that got its challenge, had read it (auth.py:72-103,       *)
(* 130-151: mfa_verify asks for neither the password nor is_active).       *)
(***************************************************************************)
RowProves(c) ==
  LET r == user[req[c].user] IN
  /\ r # NoUser /\ r.active
  /\ IF req[c].op = "login" THEN r.pw = req[c].arg /\ ~r.mfa
                            ELSE r.mfa /\ r.secret = req[c].arg
LoginsAreProven ==
  [][\A c \in Clients :
       /\ req[c] # NoReq /\ req[c].op \in {"login", "mfa"}
       /\ Len(sessions') > Len(sessions) /\ req'[c] = NoReq
       => req[c].old \/ RowProves(c)]_sessionsVars

(***************************************************************************)
(* A token's role is the user's role, or the token is older than the last  *)
(* change of the row: whoever is demoted keeps the old role for the life   *)
(* of a token and no longer, refreshes in flight included                  *)
(* (dependencies.py:72-76, auth.py:192-196).                               *)
(***************************************************************************)
RolesAgeOut ==
  \A t \in access : ~t.old => user[t.user] # NoUser /\ t.role = user[t.user].role

(***************************************************************************)
(* While the MFA requests of a user do not overlap, MFA is enabled only    *)
(* with the secret the user has proved to have: otherwise the user could   *)
(* never log in again (auth.py:266-352).                                   *)
(***************************************************************************)
MfaCanBeAnswered ==
  \A u \in Users \ torn :
    user[u] # NoUser /\ user[u].mfa => user[u].secret = proved[u] /\ proved[u] # NoSecret

\* What the row says of a user still holds where it has been copied to (auth.py).
CredentialsAreCurrent == RolesAgeOut /\ MfaCanBeAnswered
=============================================================================
