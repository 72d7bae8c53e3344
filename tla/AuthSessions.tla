---------------------------- MODULE AuthSessions ----------------------------
(***************************************************************************)
(* The auth service's accounts, one-time links and sessions.  A handler    *)
(* reads a user_tokens row first and marks it used later, in a transaction *)
(* whose other effects depend on the number of rows marked; between the    *)
(* two it hashes a password or calls another service, and other handlers   *)
(* run.  PostgreSQL's READ COMMITTED is modelled where it shows: an UPDATE *)
(* over several rows works on the rows visible when it starts and waits    *)
(* for the ones another transaction has marked.                            *)
(*                                                                         *)
(* One account; any token that was issued may be presented at any time.    *)
(* Not modelled: suspended tenants, the dev-only token endpoint.           *)
(***************************************************************************)
EXTENDS Integers, FiniteSets, FiniteSetsExt

CONSTANTS
    Requests,       \* requests in progress at once
    MaxTokens,      \* bound: tokens issued
    MaxPasswords,   \* bound: passwords set
    Threshold,      \* THRESHOLD of the login throttle
    MaxGuesses      \* bound: wrong passwords tried in all

\* What is assumed of the constants; asserted where they get their values.
AuthAssumption ==
    /\ IsFiniteSet(Requests)
    /\ MaxTokens \in Nat /\ MaxPasswords \in Nat \ {0}
    /\ Threshold \in Nat \ {0} /\ MaxGuesses \in Nat

VARIABLES
    account,    \* the users row
    tokens,     \* user_tokens
    req,        \* requests
    sets,       \* Tokens -> passwords set with this link
    throttle    \* Redis: failures, lock; and the guesses made since it was cleared

vars == <<account, tokens, req, sets, throttle>>

Tokens == 1 .. MaxTokens
Types == {"email_verification", "customer_invite", "password_reset", "refresh"}
Free == [type |-> "none", st |-> "free", exp |-> FALSE, parent |-> 0, pw |-> 0]
Idle == [at |-> "idle", tok |-> 0, pw |-> 0, set |-> {}]
Absent == [st |-> "absent", kind |-> "none", pw |-> 0]

Init ==
    /\ account = Absent
    /\ tokens = [t \in Tokens |-> Free]
    /\ req = [r \in Requests |-> Idle]
    /\ sets = [t \in Tokens |-> 0]
    /\ throttle = [failures |-> 0, locked |-> FALSE, guesses |-> 0, total |-> 0]

Live(type) == { t \in Tokens : tokens[t].type = type /\ tokens[t].st = "live" }

\* Marked by a transaction that has not committed.
Locked(t) == \E r \in Requests : req[r].at \in {"rotated", "resetting"} /\ req[r].tok = t

CanIssue == \E t \in Tokens : tokens[t].st = "free"
NewToken == Min({ t \in Tokens : tokens[t].st = "free" })

\* A row of user_tokens added to the table tab.
issueTokenRow(tab, type, parent, pw) ==
    [tab EXCEPT ![NewToken] = [type |-> type, st |-> "live", exp |-> FALSE,
                               parent |-> parent, pw |-> pw]]

\* markTokenUsed reports 1: the row is there and unused, expired or not.
Unused(t) == tokens[t].st = "live"

Revoked(S) == [t \in Tokens |-> IF t \in S /\ tokens[t].st = "live"
                                THEN [tokens[t] EXCEPT !.st = "used"] ELSE tokens[t]]

revokeTokens(tab, type) ==
    [t \in Tokens |-> IF tab[t].type = type /\ tab[t].st = "live"
                      THEN [tab[t] EXCEPT !.st = "used"] ELSE tab[t]]

\* The users row is locked by a transaction that sets a password.
PasswordBusy == \E r \in Requests : req[r].at = "resetting"

Finish(r) == req' = [req EXCEPT ![r] = Idle]
At(r, at) == req[r].at = at

-----------------------------------------------------------------------------
(* Accounts. *)

insertTenantAndAdmin == account' = [st |-> "new", kind |-> "admin", pw |-> 1]

\* The placeholder password of an invited customer.
insertCustomerInviteUser == account' = [st |-> "new", kind |-> "customer", pw |-> 1]

\* Tenant, admin and verification link in one transaction.
register ==
    /\ account = Absent /\ CanIssue
    /\ insertTenantAndAdmin
    /\ tokens' = issueTokenRow(tokens, "email_verification", 0, 0)
    /\ UNCHANGED <<req, sets, throttle>>

\* createCustomerInvite reads the account; one that is verified is refused.
inviteFind(r) ==
    /\ At(r, "idle") /\ CanIssue
    /\ account = Absent \/ (account.kind = "customer" /\ account.st = "new")
    /\ req' = [req EXCEPT ![r].at = IF account = Absent THEN "invite" ELSE "invite again"]
    /\ UNCHANGED <<account, tokens, sets, throttle>>

\* Mutant of inviteNew: no unique index on the customer.
inviteNewMutNoUnique(r) ==
    /\ At(r, "invite") /\ CanIssue
    /\ insertCustomerInviteUser
    /\ tokens' = issueTokenRow(tokens, "customer_invite", 0, 0)
    /\ Finish(r)
    /\ UNCHANGED <<sets, throttle>>

\* A new account with a placeholder password; the unique index refuses a second one.
inviteNew(r) ==
    /\ At(r, "invite")
    /\ IF account = Absent /\ CanIssue
       THEN /\ insertCustomerInviteUser
            /\ tokens' = issueTokenRow(tokens, "customer_invite", 0, 0)
       ELSE UNCHANGED <<account, tokens>>
    /\ Finish(r)
    /\ UNCHANGED <<sets, throttle>>

\* Mutant of inviteAgain: the earlier link is left alive.
inviteAgainMutKeepsOld(r) ==
    /\ At(r, "invite again") /\ CanIssue
    /\ tokens' = issueTokenRow(tokens, "customer_invite", 0, 0)
    /\ Finish(r)
    /\ UNCHANGED <<account, sets, throttle>>

\* The old link is revoked and a new one issued.
inviteAgain(r) ==
    /\ At(r, "invite again") /\ CanIssue
    /\ tokens' = issueTokenRow(revokeTokens(tokens, "customer_invite"), "customer_invite", 0, 0)
    /\ Finish(r)
    /\ UNCHANGED <<account, sets, throttle>>

-----------------------------------------------------------------------------
(* One-time links: verify-email, accept-customer-invite, reset-password. *)

\* findToken: used and expired links are refused at once.
linkFind(r, t) ==
    /\ At(r, "idle") /\ tokens[t].type \in Types \ {"refresh"}
    /\ tokens[t].st = "live" /\ ~tokens[t].exp
    /\ req' = [req EXCEPT ![r] = [Idle EXCEPT !.at = tokens[t].type, !.tok = t]]
    /\ UNCHANGED <<account, tokens, sets, throttle>>

verifyEmail(r) ==
    LET t == req[r].tok IN
    /\ At(r, "email_verification")
    /\ tokens' = Revoked({t})
    /\ account' = IF Unused(t) THEN [account EXCEPT !.st = "verified"] ELSE account
    /\ Finish(r)
    /\ UNCHANGED <<sets, throttle>>

\* Mutant of acceptCustomerInvite: the count of marked rows is not looked at.
acceptCustomerInviteMutNoCheck(r) ==
    LET t == req[r].tok IN
    /\ At(r, "customer_invite") /\ ~PasswordBusy /\ account.pw < MaxPasswords
    /\ tokens' = Revoked({t})
    /\ account' = [account EXCEPT !.st = "verified", !.pw = @ + 1]
    /\ sets' = [sets EXCEPT ![t] = @ + 1]
    /\ Finish(r)
    /\ UNCHANGED throttle

acceptCustomerInvite(r) ==
    LET t == req[r].tok IN
    /\ At(r, "customer_invite") /\ ~PasswordBusy /\ account.pw < MaxPasswords
    /\ IF Unused(t)
       THEN /\ tokens' = Revoked({t})
            /\ account' = [account EXCEPT !.st = "verified", !.pw = @ + 1]
            /\ sets' = [sets EXCEPT ![t] = @ + 1]
       ELSE UNCHANGED <<tokens, account, sets>>
    /\ Finish(r)
    /\ UNCHANGED throttle

\* The earlier links are revoked in the transaction that issues the new one,
\* which waits for a reset that has marked one of them.
forgotPassword ==
    /\ account # Absent /\ CanIssue /\ \A t \in Live("password_reset") : ~Locked(t)
    /\ tokens' = issueTokenRow(revokeTokens(tokens, "password_reset"), "password_reset", 0, 0)
    /\ UNCHANGED <<account, req, sets, throttle>>

\* The link is marked, the password updated, and the revocation of the sessions
\* starts on the rows visible now.
resetBegin(r) ==
    LET t == req[r].tok IN
    /\ At(r, "password_reset") /\ ~PasswordBusy /\ account.pw < MaxPasswords
    /\ req' = IF Unused(t)
              THEN [req EXCEPT ![r].at = "resetting", ![r].set = Live("refresh")]
              ELSE [req EXCEPT ![r] = Idle]
    /\ UNCHANGED <<account, tokens, sets, throttle>>

\* Mutant of resetCommit: the sessions are left alone.
resetCommitMutNoRevoke(r) ==
    LET t == req[r].tok IN
    /\ At(r, "resetting") /\ \A s \in req[r].set : ~Locked(s)
    /\ tokens' = Revoked({t} \cup Live("password_reset"))
    /\ account' = [account EXCEPT !.pw = @ + 1]
    /\ sets' = [sets EXCEPT ![t] = @ + 1]
    /\ Finish(r)
    /\ UNCHANGED throttle

resetCommit(r) ==
    LET t == req[r].tok IN
    /\ At(r, "resetting") /\ \A s \in req[r].set : ~Locked(s)
    /\ tokens' = Revoked({t} \cup req[r].set \cup Live("password_reset"))
    /\ account' = [account EXCEPT !.pw = @ + 1]
    /\ sets' = [sets EXCEPT ![t] = @ + 1]
    /\ Finish(r)
    /\ UNCHANGED throttle

-----------------------------------------------------------------------------
(* Sessions. *)

\* The right password, of an account that is verified and not locked out.
loginVerify(r) ==
    /\ At(r, "idle") /\ account.st = "verified" /\ ~throttle.locked /\ CanIssue
    /\ req' = [req EXCEPT ![r] = [Idle EXCEPT !.at = "login", !.pw = account.pw]]
    /\ UNCHANGED <<account, tokens, sets, throttle>>

loginIssue(r) ==
    /\ At(r, "login") /\ CanIssue
    /\ tokens' = issueTokenRow(tokens, "refresh", 0, req[r].pw)
    /\ throttle' = [throttle EXCEPT !.failures = 0, !.locked = FALSE, !.guesses = 0]
    /\ Finish(r)
    /\ UNCHANGED <<account, sets>>

guess(r) ==
    /\ At(r, "idle") /\ ~throttle.locked /\ throttle.total < MaxGuesses
    /\ req' = [req EXCEPT ![r].at = "guess"]
    /\ throttle' = [throttle EXCEPT !.total = @ + 1, !.guesses = @ + 1]
    /\ UNCHANGED <<account, tokens, sets>>

\* Mutant of recordLoginFailure: the lock is set on the one failure that equals it.
recordLoginFailureMutEqual(r) ==
    /\ At(r, "guess")
    /\ throttle' = [throttle EXCEPT !.failures = @ + 1,
                       !.locked = @ \/ throttle.failures + 1 = Threshold]
    /\ Finish(r)
    /\ UNCHANGED <<account, tokens, sets>>

recordLoginFailure(r) ==
    /\ At(r, "guess")
    /\ throttle' = [throttle EXCEPT !.failures = @ + 1,
                       !.locked = @ \/ throttle.failures + 1 >= Threshold]
    /\ Finish(r)
    /\ UNCHANGED <<account, tokens, sets>>

\* The lockout ends; the failure counter outlives it.
lockoutExpires ==
    /\ throttle.locked
    /\ throttle' = [throttle EXCEPT !.locked = FALSE, !.guesses = 0]
    /\ UNCHANGED <<account, tokens, req, sets>>

\* refresh: an unknown or expired token is refused, a used one ends all sessions.
refreshFind(r, t) ==
    /\ At(r, "idle") /\ tokens[t].type = "refresh" /\ tokens[t].st # "gone"
    /\ \/ tokens[t].st = "used" /\ req' = [req EXCEPT ![r] = [Idle EXCEPT !.at = "reuse"]]
       \/ /\ tokens[t].st = "live" /\ ~tokens[t].exp /\ CanIssue
          /\ req' = [req EXCEPT ![r] = [Idle EXCEPT !.at = "rotate", !.tok = t]]
    /\ UNCHANGED <<account, tokens, sets, throttle>>

\* Mutant of rotateMark: the token read as unused is not marked conditionally.
rotateMarkMutNoCheck(r) ==
    /\ At(r, "rotate") /\ ~Locked(req[r].tok)
    /\ req' = [req EXCEPT ![r].at = "rotated"]
    /\ UNCHANGED <<account, tokens, sets, throttle>>

(***************************************************************************)
(* markTokenUsed waits for a transaction that has marked the row.  If no   *)
(* row was left to mark, revokeTokens runs and the exception that follows  *)
(* rolls it back.                                                          *)
(***************************************************************************)
rotateMark(r) ==
    /\ At(r, "rotate") /\ ~Locked(req[r].tok)
    /\ req' = IF Unused(req[r].tok) THEN [req EXCEPT ![r].at = "rotated"]
              ELSE [req EXCEPT ![r] = [Idle EXCEPT !.at = "ended"]]
    /\ UNCHANGED <<account, tokens, sets, throttle>>

\* The new token and the mark of the old one are committed.
rotateCommit(r) ==
    LET t == req[r].tok IN
    /\ At(r, "rotated") /\ CanIssue
    /\ tokens' = [issueTokenRow(tokens, "refresh", t, tokens[t].pw) EXCEPT ![t].st = "used"]
    /\ Finish(r)
    /\ UNCHANGED <<account, sets, throttle>>

\* revokeTokens of a token presented again starts on the rows visible now ...
revokeBegin(r) ==
    /\ At(r, "reuse")
    /\ req' = [req EXCEPT ![r].at = "revoking", ![r].set = Live("refresh")]
    /\ UNCHANGED <<account, tokens, sets, throttle>>

\* ... and waits for the ones being rotated.
revokeCommit(r) ==
    /\ At(r, "revoking") /\ \A s \in req[r].set : ~Locked(s)
    /\ tokens' = Revoked(req[r].set)
    /\ req' = [req EXCEPT ![r] = [Idle EXCEPT !.at = "ended"]]
    /\ UNCHANGED <<account, sets, throttle>>

\* "Token återanvänt - alla sessioner avslutade" reaches the client.
answerReused(r) ==
    /\ At(r, "ended")
    /\ Finish(r)
    /\ UNCHANGED <<account, tokens, sets, throttle>>

logout(r, t) ==
    /\ At(r, "idle") /\ t \in Live("refresh") /\ ~Locked(t)
    /\ tokens' = Revoked({t})
    /\ UNCHANGED <<account, req, sets, throttle>>

tokenExpires(t) ==
    /\ tokens[t].st \in {"live", "used"} /\ ~tokens[t].exp
    /\ tokens' = [tokens EXCEPT ![t].exp = TRUE]
    /\ UNCHANGED <<account, req, sets, throttle>>

\* The nightly DELETE; a request that read the token in time is over by then.
cleanupExpiredUserTokens(t) ==
    /\ tokens[t].exp /\ tokens[t].st # "gone" /\ \A r \in Requests : req[r].tok # t
    /\ tokens' = [tokens EXCEPT ![t].st = "gone"]
    /\ UNCHANGED <<account, req, sets, throttle>>

-----------------------------------------------------------------------------
RefreshStep(r) == rotateMark(r) \/ rotateCommit(r) \/ revokeBegin(r) \/ revokeCommit(r)
                      \/ answerReused(r)
LinkStep(r) == verifyEmail(r) \/ acceptCustomerInvite(r) \/ resetBegin(r) \/ resetCommit(r)
InviteStep(r) == inviteFind(r) \/ inviteNew(r) \/ inviteAgain(r)
LoginStep(r) == loginVerify(r) \/ loginIssue(r) \/ guess(r) \/ recordLoginFailure(r)

Next ==
    \/ register \/ forgotPassword \/ lockoutExpires
    \/ \E r \in Requests : \/ RefreshStep(r) \/ LinkStep(r) \/ InviteStep(r) \/ LoginStep(r)
                           \/ \E t \in Tokens : linkFind(r, t) \/ refreshFind(r, t) \/ logout(r, t)
    \/ \E t \in Tokens : tokenExpires(t) \/ cleanupExpiredUserTokens(t)

Spec == Init /\ [][Next]_vars

-----------------------------------------------------------------------------
TypeOK ==
    /\ account.st \in {"absent", "new", "verified"} /\ account.pw \in 0 .. MaxPasswords
    /\ \A t \in Tokens : /\ tokens[t].st \in {"free", "live", "used", "gone"}
                         /\ tokens[t].type \in Types \cup {"none"}
                         /\ tokens[t].parent \in 0 .. t - 1 /\ tokens[t].pw <= account.pw
    /\ \A r \in Requests : req[r].tok \in 0 .. MaxTokens /\ req[r].set \subseteq Tokens

(***************************************************************************)
(* Rotation: a refresh token is exchanged for at most one other, however   *)
(* many requests present it at once.                                       *)
(***************************************************************************)
OneSuccessor ==
    \A t \in Tokens : Cardinality({ n \in Tokens : tokens[n].parent = t }) <= 1

(***************************************************************************)
(* A reset or invitation link sets the password at most once.              *)
(***************************************************************************)
LinkUsedOnce == \A t \in Tokens : sets[t] <= 1

(***************************************************************************)
(* Both: what is good for one use is used once, however requests race.     *)
(***************************************************************************)
UsedOnce == OneSuccessor /\ LinkUsedOnce

(***************************************************************************)
(* The throttle holds against parallel attempts too: between two lockouts  *)
(* at most one wrong password per request in progress slips past the       *)
(* threshold.                                                              *)
(***************************************************************************)
GuessesBounded == throttle.guesses <= Threshold - 1 + Cardinality(Requests)

(***************************************************************************)
(* "Lösenordsbyte ogiltigförklarar alla sessioner": no session goes back   *)
(* to a password that has been replaced.                                   *)
(***************************************************************************)
ResetEndsSessions == \A t \in Live("refresh") : tokens[t].pw = account.pw

(***************************************************************************)
(* "Kunden har redan portal-åtkomst": once the customer has accepted, no   *)
(* invitation link is open that would set the password again.              *)
(***************************************************************************)
InviteClosed ==
    account.kind = "customer" /\ account.st = "verified" => Live("customer_invite") = {}

-----------------------------------------------------------------------------
(* What the code does not keep, though its documents say so: see the README. *)

(***************************************************************************)
(* "avsluta alla sessioner": when the reuse of a refresh token has been    *)
(* answered, no session of the user is left.                               *)
(***************************************************************************)
ReuseEndsSessions ==
    [][\A r \in Requests : ~At(r, "ended") /\ At(r, "ended")' => Live("refresh")' = {}]_vars
=============================================================================
