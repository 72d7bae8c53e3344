------------------------ MODULE AuthSessions_proofs ------------------------
(***************************************************************************)
(* Proofs about signing in and staying signed in, for any number of        *)
(* requests, tokens, passwords, companies and API calls: the server        *)
(* (AuthSessions), BankID (BankIdLogin) and the browser (BrowserSession).  *)
(*                                                                         *)
(* The table user_tokens moves in two ways only: its rows age              *)
(* (live, used, gone), and a new row takes the place of a free one.  A row *)
(* that an open transaction has marked stays as it is until that           *)
(* transaction commits.  From this follow what the links and the refresh   *)
(* tokens promise.                                                         *)
(***************************************************************************)
EXTENDS AuthSessions, BankIdLogin, BrowserSession, FiniteSetTheorems, WellFoundedInduction, TLAPS

-----------------------------------------------------------------------------
(* The smallest of a set of numbers.                                       *)

LEMMA MinIsLeast ==
  ASSUME NEW S \in SUBSET Nat, S # {}
  PROVE  Min(S) \in S /\ \A y \in S : Min(S) <= y
<1> DEFINE Less == OpToRel(<, Nat)
<1>1. \A x, y \in Nat : x < y => <<x, y>> \in Less
  BY DEF OpToRel
<1>2. IsWellFoundedOn(Less, Nat)
  BY NatLessThanWellFounded
<1> HIDE DEF Less
<1>3. PICK x \in S : \A y \in S : ~(<<y, x>> \in Less)
  BY <1>2, WFMin
<1>4. ASSUME NEW y \in S PROVE x <= y
  <2>1. x \in Nat /\ y \in Nat
    OBVIOUS
  <2>2. ~(y < x)
    BY <1>1, <1>3, <2>1, Zenon
  <2> QED
    BY <2>1, <2>2
<1> QED
  BY <1>4 DEF Min

LEMMA NewTokenIsFree ==
  ASSUME MaxTokens \in Nat, CanIssue
  PROVE  /\ NewToken \in Tokens /\ tokens[NewToken].st = "free"
         /\ \A t \in Tokens : tokens[t].st = "free" => NewToken <= t
<1> DEFINE F == { t \in Tokens : tokens[t].st = "free" }
<1>1. F \in SUBSET Nat /\ F # {}
  BY DEF CanIssue, Tokens
<1>2. Min(F) \in F /\ \A y \in F : Min(F) <= y
  BY <1>1, MinIsLeast
<1> QED
  BY <1>2 DEF NewToken

-----------------------------------------------------------------------------
(* Types.                                                                  *)

LinkTypes == Types \ {"refresh"}
Places == LinkTypes \cup {"idle", "invite", "invite again", "resetting", "login", "guess",
                          "reuse", "rotate", "rotated", "revoking", "ended"}

TokenRow == [type : Types \cup {"none"}, st : {"free", "live", "used", "gone"}, exp : BOOLEAN,
             parent : 0 .. MaxTokens, pw : Nat]
Request == [at : Places, tok : 0 .. MaxTokens, pw : Nat, set : SUBSET Tokens]
Accounts == [st : {"absent", "new", "verified"}, kind : {"none", "admin", "customer"}, pw : Nat]

Typed ==
  /\ account \in Accounts
  /\ tokens \in [Tokens -> TokenRow]
  /\ req \in [Requests -> Request]
  /\ sets \in [Tokens -> Nat]

-----------------------------------------------------------------------------
(* What a request's row says of the token it carries; tab is the table.    *)

TypeFor(at) == CASE at = "resetting" -> "password_reset"
                 [] at \in {"rotate", "rotated"} -> "refresh"
                 [] OTHER -> at

Carries(x) == x.at \in LinkTypes \cup {"resetting", "rotate", "rotated"}
Holds(x) == x.at \in {"resetting", "rotated"}

Fits(tab, x) ==
  /\ Carries(x) => x.tok \in Tokens /\ tab[x.tok].type = TypeFor(x.at)
  /\ Holds(x) => tab[x.tok].st = "live"
  /\ \A t \in x.set : tab[t].type = "refresh"

RowsFit == \A r \in Requests : Fits(tokens, req[r])

\* No two transactions hold the same token, and one at a time sets a password.
HeldApart ==
  /\ \A q, r \in Requests :
       req[q].at = "rotated" /\ req[r].at = "rotated" /\ req[q].tok = req[r].tok => q = r
  /\ \A q, r \in Requests : req[q].at = "resetting" /\ req[r].at = "resetting" => q = r

\* A token that is still to be issued says nothing yet.
FreeIsFree == \A t \in Tokens : tokens[t].st = "free" <=> tokens[t] = Free

\* A rotated token is spent, and exchanged for one other.
ParentsSpent ==
  /\ \A t \in Tokens : tokens[t].parent # 0 => tokens[tokens[t].parent].st \in {"used", "gone"}
  /\ \A m, n \in Tokens : tokens[m].parent = tokens[n].parent /\ tokens[m].parent # 0 => m = n

\* A link that is not used has set no password.
SetOnce ==
  \A t \in Tokens : /\ sets[t] <= 1
                    /\ tokens[t].st \in {"free", "live"} => sets[t] = 0

AuthInv == Typed /\ RowsFit /\ HeldApart /\ FreeIsFree /\ ParentsSpent /\ SetOnce

-----------------------------------------------------------------------------
(* The two ways a row of user_tokens moves.                                *)

\* A row ages: it keeps what it is, and only live, used, gone follow.
Aged(x, y) ==
  /\ y.type = x.type /\ y.parent = x.parent
  /\ x.st = "free" => y = x
  /\ x.st = "live" => y.st \in {"live", "used", "gone"}
  /\ x.st \in {"used", "gone"} => y.st \in {"used", "gone"}

\* A row is issued.
IssuedAs(x, y) == x = Free /\ y.type \in Types /\ y.st = "live"

RowsMove == \A t \in Tokens : \/ Aged(tokens[t], tokens'[t])
                              \/ IssuedAs(tokens[t], tokens'[t])

\* No row is exchanged for another in this step.
ParentsStay == \A t \in Tokens : tokens'[t].parent = tokens[t].parent

\* A password is set with a link only while the link is marked used.
SetsWithMark ==
  \A t \in Tokens : \/ sets'[t] = sets[t]
                    \/ /\ sets'[t] = sets[t] + 1
                       /\ tokens[t].st = "live" /\ tokens'[t].st = "used"

\* A request begins, ends or goes on, without marking a token.
NoNewMark == \A r \in Requests : \/ req'[r] = req[r]
                                 \/ Fits(tokens', req'[r]) /\ ~Holds(req'[r])

\* A token that another transaction has marked is left alone.
MarksKept == \A r \in Requests : req'[r] = req[r] /\ Holds(req[r])
                                   => tokens'[req[r].tok].st = "live"

LEMMA FitsKept ==
  ASSUME Typed, FreeIsFree, RowsMove, NEW x \in Request, Fits(tokens, x),
         Holds(x) => tokens'[x.tok].st = "live"
  PROVE  Fits(tokens', x)
<1>1. \A t \in Tokens : tokens[t].type \in Types => tokens'[t].type = tokens[t].type
  BY DEF RowsMove, Aged, IssuedAs, Free, Types
<1>2. \A t \in x.set : t \in Tokens /\ tokens[t].type = "refresh"
  BY DEF Fits, Request
<1>3. \A t \in x.set : tokens'[t].type = "refresh"
  BY <1>1, <1>2 DEF Types
<1>4. ASSUME Carries(x) PROVE x.tok \in Tokens /\ tokens'[x.tok].type = TypeFor(x.at)
  <2>1. x.tok \in Tokens /\ tokens[x.tok].type = TypeFor(x.at)
    BY <1>4 DEF Fits
  <2>2. TypeFor(x.at) \in Types
    BY <1>4 DEF Carries, TypeFor, Types, LinkTypes
  <2> QED
    BY <1>1, <2>1, <2>2
<1> QED
  BY <1>3, <1>4 DEF Fits

LEMMA SetOnceKept ==
  ASSUME Typed, Typed', RowsMove, SetsWithMark, SetOnce
  PROVE  SetOnce'
<1> SUFFICES ASSUME NEW t \in Tokens
             PROVE  sets'[t] <= 1 /\ (tokens'[t].st \in {"free", "live"} => sets'[t] = 0)
  BY DEF SetOnce
<1>1. sets[t] \in Nat /\ sets[t] <= 1 /\ (tokens[t].st \in {"free", "live"} => sets[t] = 0)
  BY DEF SetOnce, Typed
<1>2. tokens[t].st \in {"free", "live", "used", "gone"}
  BY DEF Typed, TokenRow
<1>3. tokens'[t].st \in {"free", "live"} => tokens[t].st \in {"free", "live"}
  BY <1>2 DEF RowsMove, Aged, IssuedAs, Free
<1>4. sets'[t] = sets[t] \/ (sets'[t] = sets[t] + 1 /\ tokens[t].st = "live" /\ tokens'[t].st = "used")
  BY DEF SetsWithMark
<1> QED
  BY <1>1, <1>3, <1>4

LEMMA ParentsKept ==
  ASSUME Typed, FreeIsFree, RowsMove, ParentsStay, ParentsSpent
  PROVE  ParentsSpent'
<1>1. ASSUME NEW t \in Tokens, tokens'[t].parent # 0
      PROVE  tokens'[tokens'[t].parent].st \in {"used", "gone"}
  <2> DEFINE p == tokens[t].parent
  <2>1. p # 0 /\ tokens'[t].parent = p
    BY <1>1 DEF ParentsStay
  <2>2. tokens[t] \in TokenRow
    BY DEF Typed
  <2>3. p \in Tokens
    BY <2>1, <2>2 DEF TokenRow, Tokens
  <2>4. tokens[p].st \in {"used", "gone"}
    BY <2>1 DEF ParentsSpent
  <2>5. tokens'[p].st \in {"used", "gone"}
    BY <2>3, <2>4 DEF RowsMove, Aged, IssuedAs, Free
  <2> QED
    BY <2>1, <2>5
<1>2. \A m, n \in Tokens : tokens'[m].parent = tokens'[n].parent /\ tokens'[m].parent # 0 => m = n
  BY DEF ParentsStay, ParentsSpent
<1> QED
  BY <1>1, <1>2 DEF ParentsSpent

LEMMA FreeKept ==
  ASSUME Typed, FreeIsFree, RowsMove
  PROVE  FreeIsFree'
<1> SUFFICES ASSUME NEW t \in Tokens PROVE tokens'[t].st = "free" <=> tokens'[t] = Free
  BY DEF FreeIsFree
<1>1. tokens[t].st \in {"free", "live", "used", "gone"}
  BY DEF Typed, TokenRow
<1>2. tokens[t].st = "free" <=> tokens[t] = Free
  BY DEF FreeIsFree
<1>3. tokens'[t] = Free => tokens'[t].st = "free"
  BY DEF Free
<1>4. Aged(tokens[t], tokens'[t]) \/ IssuedAs(tokens[t], tokens'[t])
  BY DEF RowsMove
<1> QED
  BY <1>1, <1>2, <1>3, <1>4 DEF Aged, IssuedAs

\* What most steps do: move rows, and mark none for a transaction.
LEMMA InvKept ==
  ASSUME AuthInv, Typed', RowsMove, ParentsSpent', SetsWithMark, NoNewMark, MarksKept
  PROVE  AuthInv'
<1> USE DEF AuthInv
<1>1. RowsFit'
  <2> SUFFICES ASSUME NEW r \in Requests PROVE Fits(tokens', req'[r])
    BY DEF RowsFit
  <2>1. CASE req'[r] = req[r]
    <3>1. req[r] \in Request /\ Fits(tokens, req[r])
      BY DEF Typed, RowsFit
    <3>2. Holds(req[r]) => tokens'[req[r].tok].st = "live"
      BY <2>1 DEF MarksKept
    <3>3. Fits(tokens', req[r])
      BY <3>1, <3>2, FitsKept
    <3> QED
      BY <2>1, <3>3
  <2> QED
    BY <2>1 DEF NoNewMark
<1>2. HeldApart'
  <2>1. \A r \in Requests : Holds(req'[r]) => req'[r] = req[r]
    BY DEF NoNewMark
  <2>2. \A r \in Requests : req'[r].at \in {"rotated", "resetting"} => req'[r] = req[r]
    BY <2>1 DEF Holds
  <2> QED
    BY <2>2 DEF HeldApart
<1>3. FreeIsFree'
  BY FreeKept
<1>4. SetOnce'
  BY SetOnceKept
<1> QED
  BY <1>1, <1>2, <1>3, <1>4

-----------------------------------------------------------------------------
(* The ways the steps write the table.                                     *)

\* A row is added to a table whose rows have aged.
LEMMA IssueMoves ==
  ASSUME AuthAssumption, Typed, FreeIsFree, CanIssue,
         NEW tab \in [Tokens -> TokenRow], \A t \in Tokens : Aged(tokens[t], tab[t]),
         NEW type \in Types, NEW parent \in 0 .. MaxTokens, NEW pw \in Nat,
         tokens' = issueTokenRow(tab, type, parent, pw)
  PROVE  /\ NewToken \in Tokens /\ tokens[NewToken] = Free
         /\ tokens' \in [Tokens -> TokenRow] /\ RowsMove
         /\ tokens'[NewToken].parent = parent
         /\ \A t \in Tokens \ {NewToken} : tokens'[t] = tab[t]
         /\ parent = 0 => ParentsStay
<1> DEFINE row == [type |-> type, st |-> "live", exp |-> FALSE, parent |-> parent, pw |-> pw]
           n == NewToken
<1>1. n \in Tokens /\ tokens[n] = Free
  BY NewTokenIsFree DEF AuthAssumption, FreeIsFree
<1>2. row \in TokenRow
  BY DEF TokenRow, Types
<1>3. row.type = type /\ row.st = "live" /\ row.parent = parent
  OBVIOUS
<1>4. tokens' = [tab EXCEPT ![n] = row]
  BY DEF issueTokenRow
<1> HIDE DEF row, n
<1>5. tokens' \in [Tokens -> TokenRow] /\ tokens'[n] = row
      /\ \A t \in Tokens \ {n} : tokens'[t] = tab[t]
  BY <1>1, <1>2, <1>4
<1>6. IssuedAs(tokens[n], tokens'[n])
  BY <1>1, <1>3, <1>5 DEF IssuedAs
<1>7. RowsMove
  BY <1>5, <1>6 DEF RowsMove
<1>8. ASSUME parent = 0 PROVE ParentsStay
  <2>1. tokens'[n].parent = tokens[n].parent
    BY <1>1, <1>3, <1>5, <1>8 DEF Free
  <2>2. \A t \in Tokens \ {n} : tokens'[t].parent = tokens[t].parent
    BY <1>5 DEF Aged
  <2> QED
    BY <2>1, <2>2 DEF ParentsStay
<1> QED
  BY <1>1, <1>3, <1>5, <1>7, <1>8 DEF n

\* Nothing is issued.
LEMMA AgingMoves ==
  ASSUME \A t \in Tokens : Aged(tokens[t], tokens'[t])
  PROVE  RowsMove /\ ParentsStay
BY DEF RowsMove, ParentsStay, Aged

LEMMA AgedSelf == \A x : Aged(x, x)
BY DEF Aged

LEMMA UsedRow ==
  ASSUME NEW x \in TokenRow, x.st = "live"
  PROVE  LET y == [x EXCEPT !.st = "used"]
         IN  y \in TokenRow /\ y.st = "used" /\ Aged(x, y)
BY DEF TokenRow, Aged

LEMMA RevokedAges ==
  ASSUME Typed, NEW S
  PROVE  /\ Revoked(S) \in [Tokens -> TokenRow]
         /\ \A t \in Tokens : Aged(tokens[t], Revoked(S)[t])
         /\ \A t \in Tokens : IF t \in S /\ tokens[t].st = "live"
                              THEN Revoked(S)[t].st = "used" ELSE Revoked(S)[t] = tokens[t]
<1>1. \A t \in Tokens : tokens[t] \in TokenRow
  BY DEF Typed
<1>2. \A t \in Tokens : Revoked(S)[t] = IF t \in S /\ tokens[t].st = "live"
                                        THEN [tokens[t] EXCEPT !.st = "used"] ELSE tokens[t]
  BY DEF Revoked
<1>3. \A t \in Tokens : Revoked(S)[t] \in TokenRow
  BY <1>1, <1>2, UsedRow
<1>4. \A t \in Tokens : Aged(tokens[t], Revoked(S)[t])
  BY <1>1, <1>2, UsedRow, AgedSelf
<1>5. \A t \in Tokens : t \in S /\ tokens[t].st = "live" => Revoked(S)[t].st = "used"
  BY <1>1, <1>2, UsedRow
<1>6. Revoked(S) \in [Tokens -> TokenRow]
  BY <1>3 DEF Revoked
<1> QED
  BY <1>2, <1>4, <1>5, <1>6

LEMMA RevokeTokensAges ==
  ASSUME Typed, NEW type
  PROVE  LET tab == revokeTokens(tokens, type)
         IN  /\ tab \in [Tokens -> TokenRow]
             /\ \A t \in Tokens : Aged(tokens[t], tab[t])
             /\ \A t \in Tokens : tokens[t].type # type => tab[t] = tokens[t]
<1> DEFINE tab == revokeTokens(tokens, type)
<1>1. \A t \in Tokens : tokens[t] \in TokenRow
  BY DEF Typed
<1>2. \A t \in Tokens : tab[t] = IF tokens[t].type = type /\ tokens[t].st = "live"
                                 THEN [tokens[t] EXCEPT !.st = "used"] ELSE tokens[t]
  BY DEF revokeTokens
<1>3. \A t \in Tokens : tab[t] \in TokenRow
  BY <1>1, <1>2, UsedRow
<1>4. \A t \in Tokens : Aged(tokens[t], tab[t])
  BY <1>1, <1>2, UsedRow, AgedSelf
<1>5. tab \in [Tokens -> TokenRow]
  BY <1>3 DEF revokeTokens
<1> QED
  BY <1>2, <1>4, <1>5

\* A step that leaves the table alone.
LEMMA QuietStep ==
  ASSUME AuthInv, account' \in Accounts, req' \in [Requests -> Request],
         UNCHANGED <<tokens, sets>>, NoNewMark
  PROVE  AuthInv'
<1> USE DEF AuthInv
<1>1. Typed'
  BY DEF Typed
<1>2. RowsMove /\ ParentsStay
  BY AgedSelf, AgingMoves
<1>3. ParentsSpent'
  BY <1>2, ParentsKept
<1>4. SetsWithMark
  BY DEF SetsWithMark
<1>5. MarksKept
  BY DEF MarksKept, RowsFit, Fits
<1> QED
  BY <1>1, <1>2, <1>3, <1>4, <1>5, InvKept

\* A request that ends.
LEMMA FinishStep ==
  ASSUME AuthAssumption, Typed, NEW r \in Requests, Finish(r)
  PROVE  req' \in [Requests -> Request] /\ NoNewMark
         /\ \A q \in Requests \ {r} : req'[q] = req[q]
<1>1. Idle \in Request
  BY DEF Idle, Request, Places, AuthAssumption
<1>2. \A tab : Fits(tab, Idle)
  BY DEF Fits, Idle, Carries, Holds, LinkTypes, Types
<1>3. ~Holds(Idle)
  BY DEF Holds, Idle
<1>4. req' = [req EXCEPT ![r] = Idle]
  BY DEF Finish
<1> HIDE DEF Idle
<1>5. req' \in [Requests -> Request] /\ req'[r] = Idle
      /\ \A q \in Requests \ {r} : req'[q] = req[q]
  BY <1>1, <1>4 DEF Typed
<1> QED
  BY <1>2, <1>3, <1>5 DEF NoNewMark

\* A request that goes on to x.
LEMMA GoesOn ==
  ASSUME Typed, NEW r \in Requests, NEW x \in Request, req' = [req EXCEPT ![r] = x],
         Fits(tokens', x), ~Holds(x)
  PROVE  req' \in [Requests -> Request] /\ NoNewMark
<1>1. req' \in [Requests -> Request] /\ req'[r] = x
      /\ \A q \in Requests \ {r} : req'[q] = req[q]
  BY DEF Typed
<1> QED
  BY <1>1 DEF NoNewMark

\* The row of a request that carries no token.
LEMMA PlainRow ==
  ASSUME AuthInv, AuthAssumption, NEW r \in Requests,
         NEW at \in {"invite", "invite again", "guess"},
         req' = [req EXCEPT ![r].at = at], UNCHANGED <<account, tokens, sets>>
  PROVE  AuthInv'
<1> USE DEF AuthInv
<1> DEFINE x == [req[r] EXCEPT !.at = at]
<1>1. req[r] \in Request /\ Fits(tokens, req[r])
  BY DEF Typed, RowsFit
<1>2. x \in Request /\ x.at = at /\ x.set = req[r].set
  BY <1>1 DEF Request, Places
<1>3. req' = [req EXCEPT ![r] = x]
  BY DEF Typed
<1> HIDE DEF x
<1>4. ~Carries(x) /\ ~Holds(x)
  BY <1>2 DEF Carries, Holds, LinkTypes, Types
<1>5. Fits(tokens', x)
  BY <1>1, <1>2, <1>4 DEF Fits
<1>6. req' \in [Requests -> Request] /\ NoNewMark
  BY <1>2, <1>3, <1>4, <1>5, GoesOn
<1> QED
  BY <1>6, QuietStep DEF Typed

LEMMA IdleRow ==
  ASSUME AuthAssumption
  PROVE  Idle \in Request /\ Idle.set = {}
BY DEF Idle, Request, Places, AuthAssumption

LEMMA RowAt ==
  ASSUME AuthAssumption, NEW at \in Places
  PROVE  LET x == [Idle EXCEPT !.at = at]
         IN  x \in Request /\ x.at = at /\ x.set = {}
BY IdleRow DEF Request

LEMMA RowWithToken ==
  ASSUME AuthAssumption, NEW at \in Places, NEW t \in 0 .. MaxTokens
  PROVE  LET x == [Idle EXCEPT !.at = at, !.tok = t]
         IN  x \in Request /\ x.at = at /\ x.tok = t /\ x.set = {}
BY IdleRow DEF Request

LEMMA RowWithPassword ==
  ASSUME AuthAssumption, NEW at \in Places, NEW p \in Nat
  PROVE  LET x == [Idle EXCEPT !.at = at, !.pw = p]
         IN  x \in Request /\ x.at = at /\ x.set = {} /\ x.pw = p
BY IdleRow DEF Request

\* A fresh row of a request: at, token and snapshot as they are given.
LEMMA FreshRow ==
  ASSUME AuthInv, NEW r \in Requests, NEW x \in Request, Fits(tokens, x), ~Holds(x),
         req' = [req EXCEPT ![r] = x], UNCHANGED <<account, tokens, sets>>
  PROVE  AuthInv'
<1> USE DEF AuthInv
<1>1. Fits(tokens', x)
  OBVIOUS
<1>2. req' \in [Requests -> Request] /\ NoNewMark
  BY <1>1, GoesOn
<1> QED
  BY <1>2, QuietStep DEF Typed

LEMMA LiveTyped == Typed => \A t \in Live("refresh") : t \in Tokens /\ tokens[t].type = "refresh"
BY DEF Live

-----------------------------------------------------------------------------
(* The steps that write no link: one lemma each.                           *)

LEMMA InviteFindKeeps ==
  ASSUME AuthAssumption, AuthInv, NEW r \in Requests, inviteFind(r)
  PROVE  AuthInv'
<1> DEFINE at == IF account = Absent THEN "invite" ELSE "invite again"
<1>1. at \in {"invite", "invite again", "guess"}
  OBVIOUS
<1>2. req' = [req EXCEPT ![r].at = at] /\ UNCHANGED <<account, tokens, sets>>
  BY DEF inviteFind
<1> QED
  BY <1>1, <1>2, PlainRow

LEMMA GuessKeeps ==
  ASSUME AuthAssumption, AuthInv, NEW r \in Requests, guess(r)
  PROVE  AuthInv'
BY PlainRow DEF guess

LEMMA LinkFindKeeps ==
  ASSUME AuthAssumption, AuthInv, NEW r \in Requests, NEW t \in Tokens, linkFind(r, t)
  PROVE  AuthInv'
<1> DEFINE x == [Idle EXCEPT !.at = tokens[t].type, !.tok = t]
<1>2. tokens[t].type \in LinkTypes /\ t \in 0 .. MaxTokens
  BY DEF linkFind, LinkTypes, Tokens, AuthAssumption
<1>3. x.at = tokens[t].type /\ x.tok = t /\ x.set = {} /\ x \in Request
  BY <1>2, RowWithToken DEF Places
<1>4. req' = [req EXCEPT ![r] = x] /\ UNCHANGED <<account, tokens, sets>>
  BY DEF linkFind
<1> HIDE DEF x
<1>5. ~Holds(x) /\ TypeFor(x.at) = x.at
  BY <1>2, <1>3 DEF Holds, TypeFor, LinkTypes, Types
<1>6. Fits(tokens, x)
  BY <1>3, <1>5 DEF Fits
<1> QED
  BY <1>3, <1>4, <1>5, <1>6, FreshRow

LEMMA LoginVerifyKeeps ==
  ASSUME AuthAssumption, AuthInv, NEW r \in Requests, loginVerify(r)
  PROVE  AuthInv'
<1> DEFINE x == [Idle EXCEPT !.at = "login", !.pw = account.pw]
<1>2. account.pw \in Nat
  BY DEF AuthInv, Typed, Accounts
<1>3. x.at = "login" /\ x.set = {} /\ x \in Request
  BY <1>2, RowWithPassword DEF Places
<1>4. req' = [req EXCEPT ![r] = x] /\ UNCHANGED <<account, tokens, sets>>
  BY DEF loginVerify
<1> HIDE DEF x
<1>5. ~Holds(x) /\ Fits(tokens, x)
  BY <1>3 DEF Holds, Fits, Carries, LinkTypes, Types
<1> QED
  BY <1>3, <1>4, <1>5, FreshRow

LEMMA RefreshFindKeeps ==
  ASSUME AuthAssumption, AuthInv, NEW r \in Requests, NEW t \in Tokens, refreshFind(r, t)
  PROVE  AuthInv'
<1>1. UNCHANGED <<account, tokens, sets>> /\ tokens[t].type = "refresh" /\ t \in 0 .. MaxTokens
  BY DEF refreshFind, Tokens, AuthAssumption
<1>2. CASE req' = [req EXCEPT ![r] = [Idle EXCEPT !.at = "reuse"]]
  <2> DEFINE x == [Idle EXCEPT !.at = "reuse"]
  <2>2. x.at = "reuse" /\ x.set = {} /\ x \in Request
    BY RowAt DEF Places
  <2>3. req' = [req EXCEPT ![r] = x]
    BY <1>2
  <2> HIDE DEF x
  <2>4. ~Holds(x) /\ Fits(tokens, x)
    BY <2>2 DEF Holds, Fits, Carries, LinkTypes, Types
  <2> QED
    BY <1>1, <2>2, <2>3, <2>4, FreshRow
<1>3. CASE req' = [req EXCEPT ![r] = [Idle EXCEPT !.at = "rotate", !.tok = t]]
  <2> DEFINE x == [Idle EXCEPT !.at = "rotate", !.tok = t]
  <2>2. x.at = "rotate" /\ x.tok = t /\ x.set = {} /\ x \in Request
    BY <1>1, RowWithToken DEF Places
  <2>3. req' = [req EXCEPT ![r] = x]
    BY <1>3
  <2> HIDE DEF x
  <2>4. ~Holds(x) /\ Fits(tokens, x)
    BY <1>1, <2>2 DEF Holds, Fits, TypeFor
  <2> QED
    BY <1>1, <2>2, <2>3, <2>4, FreshRow
<1> QED
  BY <1>2, <1>3 DEF refreshFind

LEMMA RevokeBeginKeeps ==
  ASSUME AuthAssumption, AuthInv, NEW r \in Requests, revokeBegin(r)
  PROVE  AuthInv'
<1> DEFINE x == [req[r] EXCEPT !.at = "revoking", !.set = Live("refresh")]
<1>1. req[r] \in Request
  BY DEF AuthInv, Typed
<1>2. Live("refresh") \subseteq Tokens /\ \A t \in Live("refresh") : tokens[t].type = "refresh"
  BY LiveTyped DEF AuthInv
<1>3. x.at = "revoking" /\ x.set = Live("refresh") /\ x \in Request
  BY <1>1, <1>2 DEF Request, Places
<1>4. req' = [req EXCEPT ![r] = x] /\ UNCHANGED <<account, tokens, sets>>
  BY DEF revokeBegin, AuthInv, Typed
<1> HIDE DEF x
<1>5. ~Holds(x) /\ Fits(tokens, x)
  BY <1>2, <1>3 DEF Holds, Fits, Carries, LinkTypes, Types
<1> QED
  BY <1>3, <1>4, <1>5, FreshRow

LEMMA EndsKeeps ==
  ASSUME AuthAssumption, AuthInv, NEW r \in Requests, Finish(r),
         UNCHANGED <<account, tokens, sets>>
  PROVE  AuthInv'
<1>1. req' \in [Requests -> Request] /\ NoNewMark
  BY FinishStep DEF AuthInv
<1> QED
  BY <1>1, QuietStep DEF AuthInv, Typed

\* A request that marks a token which no other transaction holds.
LEMMA MarkStep ==
  ASSUME AuthInv, NEW r \in Requests, NEW x \in Request, Fits(tokens, x),
         req' = [req EXCEPT ![r] = x], UNCHANGED <<account, tokens, sets>>,
         x.at = "rotated" => \A q \in Requests : req[q].at = "rotated" => req[q].tok # x.tok,
         x.at = "resetting" => \A q \in Requests : req[q].at # "resetting"
  PROVE  AuthInv'
<1> USE DEF AuthInv
<1>1. req' \in [Requests -> Request] /\ req'[r] = x
      /\ \A q \in Requests \ {r} : req'[q] = req[q]
  BY DEF Typed
<1>2. Typed'
  BY <1>1 DEF Typed
<1>3. RowsFit'
  <2> SUFFICES ASSUME NEW q \in Requests PROVE Fits(tokens, req'[q])
    BY DEF RowsFit
  <2> QED
    BY <1>1 DEF RowsFit
<1>4. HeldApart'
  <2>1. \A p, q \in Requests :
          req'[p].at = "rotated" /\ req'[q].at = "rotated" /\ req'[p].tok = req'[q].tok => p = q
    BY <1>1 DEF HeldApart
  <2>2. \A p, q \in Requests : req'[p].at = "resetting" /\ req'[q].at = "resetting" => p = q
    BY <1>1 DEF HeldApart
  <2> QED
    BY <2>1, <2>2 DEF HeldApart
<1>5. FreeIsFree' /\ ParentsSpent' /\ SetOnce'
  BY DEF FreeIsFree, ParentsSpent, SetOnce
<1> QED
  BY <1>2, <1>3, <1>4, <1>5

LEMMA RotateMarkKeeps ==
  ASSUME AuthAssumption, AuthInv, NEW r \in Requests, rotateMark(r)
  PROVE  AuthInv'
<1>1. req[r] \in Request /\ Fits(tokens, req[r]) /\ req[r].at = "rotate"
      /\ UNCHANGED <<account, tokens, sets>>
  BY DEF AuthInv, Typed, RowsFit, rotateMark, At
<1>2. CASE Unused(req[r].tok)
  <2> DEFINE x == [req[r] EXCEPT !.at = "rotated"]
  <2>1. x \in Request /\ x.at = "rotated" /\ x.tok = req[r].tok /\ x.set = req[r].set
    BY <1>1 DEF Request, Places
  <2>2. req' = [req EXCEPT ![r] = x]
    BY <1>2 DEF rotateMark, AuthInv, Typed
  <2> HIDE DEF x
  <2>3. req[r].tok \in Tokens /\ tokens[req[r].tok].type = "refresh"
    BY <1>1 DEF Fits, Carries, TypeFor
  <2>4. tokens[x.tok].st = "live"
    BY <1>2, <2>1 DEF Unused
  <2>5. Fits(tokens, x)
    BY <1>1, <2>1, <2>3, <2>4 DEF Fits, Carries, TypeFor
  <2>6. \A q \in Requests : req[q].at = "rotated" => req[q].tok # x.tok
    BY <2>1 DEF rotateMark, Locked
  <2> QED
    BY <1>1, <2>1, <2>2, <2>5, <2>6, MarkStep
<1>3. CASE ~Unused(req[r].tok)
  <2> DEFINE x == [Idle EXCEPT !.at = "ended"]
  <2>1. x \in Request /\ x.at = "ended" /\ x.set = {}
    BY RowAt DEF Places
  <2>2. req' = [req EXCEPT ![r] = x]
    BY <1>3 DEF rotateMark
  <2> HIDE DEF x
  <2>3. ~Holds(x) /\ Fits(tokens, x)
    BY <2>1 DEF Holds, Fits, Carries, LinkTypes, Types
  <2> QED
    BY <1>1, <2>1, <2>2, <2>3, FreshRow
<1> QED
  BY <1>2, <1>3

LEMMA ResetBeginKeeps ==
  ASSUME AuthAssumption, AuthInv, NEW r \in Requests, resetBegin(r)
  PROVE  AuthInv'
<1>1. req[r] \in Request /\ Fits(tokens, req[r]) /\ req[r].at = "password_reset"
      /\ UNCHANGED <<account, tokens, sets>>
  BY DEF AuthInv, Typed, RowsFit, resetBegin, At
<1>2. CASE Unused(req[r].tok)
  <2> DEFINE x == [req[r] EXCEPT !.at = "resetting", !.set = Live("refresh")]
  <2>1. Live("refresh") \subseteq Tokens /\ \A t \in Live("refresh") : tokens[t].type = "refresh"
    BY LiveTyped DEF AuthInv
  <2>2. x \in Request /\ x.at = "resetting" /\ x.tok = req[r].tok /\ x.set = Live("refresh")
    BY <1>1, <2>1 DEF Request, Places
  <2>3. req' = [req EXCEPT ![r] = x]
    BY <1>2 DEF resetBegin, AuthInv, Typed
  <2> HIDE DEF x
  <2>4. req[r].tok \in Tokens /\ tokens[req[r].tok].type = "password_reset"
    BY <1>1 DEF Fits, Carries, TypeFor, LinkTypes, Types
  <2>5. tokens[x.tok].st = "live"
    BY <1>2, <2>2 DEF Unused
  <2>6. Fits(tokens, x)
    BY <2>1, <2>2, <2>4, <2>5 DEF Fits, Carries, TypeFor
  <2>7. \A q \in Requests : req[q].at # "resetting"
    BY DEF resetBegin, PasswordBusy
  <2> QED
    BY <1>1, <2>2, <2>3, <2>6, <2>7, MarkStep
<1>3. CASE ~Unused(req[r].tok)
  <2>1. Finish(r)
    BY <1>3 DEF resetBegin, Finish
  <2> QED
    BY <1>1, <2>1, EndsKeeps
<1> QED
  BY <1>2, <1>3

-----------------------------------------------------------------------------
(* The steps that mark links used.                                         *)

LEMMA AgingStep ==
  ASSUME AuthInv, account' \in Accounts, tokens' \in [Tokens -> TokenRow],
         req' \in [Requests -> Request], sets' \in [Tokens -> Nat],
         \A t \in Tokens : Aged(tokens[t], tokens'[t]), SetsWithMark, NoNewMark, MarksKept
  PROVE  AuthInv'
<1>1. Typed'
  BY DEF Typed
<1>2. RowsMove /\ ParentsStay
  BY AgingMoves
<1>3. ParentsSpent'
  BY <1>2, ParentsKept DEF AuthInv
<1> QED
  BY <1>1, <1>2, <1>3, InvKept

\* Rows are revoked that no transaction which goes on has marked.
LEMMA RevokingStep ==
  ASSUME AuthInv, NEW S, tokens' = Revoked(S), account' \in Accounts,
         req' \in [Requests -> Request], sets' \in [Tokens -> Nat],
         \A t \in Tokens : \/ sets'[t] = sets[t]
                           \/ sets'[t] = sets[t] + 1 /\ t \in S /\ tokens[t].st = "live",
         NoNewMark,
         \A q \in Requests : Holds(req[q]) /\ req'[q] = req[q] => req[q].tok \notin S
  PROVE  AuthInv'
<1>1. tokens' \in [Tokens -> TokenRow] /\ \A t \in Tokens : Aged(tokens[t], tokens'[t])
  BY RevokedAges DEF AuthInv
<1>2. \A t \in Tokens : IF t \in S /\ tokens[t].st = "live"
                        THEN tokens'[t].st = "used" ELSE tokens'[t] = tokens[t]
  BY RevokedAges DEF AuthInv
<1>3. SetsWithMark
  BY <1>2 DEF SetsWithMark
<1>4. MarksKept
  <2> SUFFICES ASSUME NEW q \in Requests, req'[q] = req[q], Holds(req[q])
               PROVE  tokens'[req[q].tok].st = "live"
    BY DEF MarksKept
  <2>1. Fits(tokens, req[q])
    BY DEF AuthInv, RowsFit
  <2>2. req[q].tok \in Tokens /\ tokens[req[q].tok].st = "live"
    BY <2>1 DEF Fits, Carries, Holds
  <2> QED
    BY <1>2, <2>2
<1> QED
  BY <1>1, <1>3, <1>4, AgingStep

\* What a request in progress carries.
LEMMA HeldType ==
  ASSUME AuthInv, NEW q \in Requests, Holds(req[q])
  PROVE  /\ req[q].tok \in Tokens /\ tokens[req[q].tok].st = "live"
         /\ req[q].at = "rotated" => tokens[req[q].tok].type = "refresh"
         /\ req[q].at = "resetting" => tokens[req[q].tok].type = "password_reset"
BY DEF AuthInv, RowsFit, Fits, Holds, Carries, TypeFor

LEMMA CarriedLink ==
  ASSUME AuthInv, NEW r \in Requests, req[r].at \in LinkTypes
  PROVE  req[r].tok \in Tokens /\ tokens[req[r].tok].type = req[r].at
BY DEF AuthInv, RowsFit, Fits, Carries, TypeFor, LinkTypes, Types

LEMMA AccountKept ==
  ASSUME Typed
  PROVE  /\ [account EXCEPT !.st = "verified"] \in Accounts
         /\ [account EXCEPT !.st = "verified", !.pw = @ + 1] \in Accounts
         /\ [account EXCEPT !.pw = @ + 1] \in Accounts
<1>1. account \in Accounts
  BY DEF Typed
<1>2. account.pw + 1 \in Nat
  BY <1>1 DEF Accounts
<1>3. \A n \in Nat : [account EXCEPT !.pw = n] \in Accounts
  BY <1>1 DEF Accounts
<1>4. \A n \in Nat : [account EXCEPT !.st = "verified", !.pw = n] \in Accounts
  BY <1>1 DEF Accounts
<1>5. [account EXCEPT !.st = "verified"] \in Accounts
  BY <1>1 DEF Accounts
<1> QED
  BY <1>2, <1>3, <1>4, <1>5

LEMMA VerifyEmailKeeps ==
  ASSUME AuthAssumption, AuthInv, NEW r \in Requests, verifyEmail(r)
  PROVE  AuthInv'
<1>1. req[r].at = "email_verification" /\ tokens' = Revoked({req[r].tok}) /\ Finish(r)
      /\ sets' = sets
  BY DEF verifyEmail, At
<1>2. account' \in Accounts
  BY AccountKept DEF verifyEmail, AuthInv, Typed
<1>3. req' \in [Requests -> Request] /\ NoNewMark
  BY <1>1, FinishStep DEF AuthInv
<1>4. tokens[req[r].tok].type = "email_verification"
  BY <1>1, CarriedLink DEF LinkTypes, Types
<1>5. \A q \in Requests : Holds(req[q]) => req[q].tok \notin {req[r].tok}
  BY <1>4, HeldType DEF Holds
<1>6. sets' \in [Tokens -> Nat] /\ \A t \in Tokens : sets'[t] = sets[t]
  BY <1>1 DEF AuthInv, Typed
<1> QED
  BY <1>1, <1>2, <1>3, <1>5, <1>6, RevokingStep

LEMMA AcceptKeeps ==
  ASSUME AuthAssumption, AuthInv, NEW r \in Requests, acceptCustomerInvite(r)
  PROVE  AuthInv'
<1>1. req[r].at = "customer_invite" /\ Finish(r)
  BY DEF acceptCustomerInvite, At
<1>2. CASE Unused(req[r].tok)
  <2>1. /\ tokens' = Revoked({req[r].tok})
        /\ account' = [account EXCEPT !.st = "verified", !.pw = @ + 1]
        /\ sets' = [sets EXCEPT ![req[r].tok] = @ + 1]
    BY <1>2 DEF acceptCustomerInvite
  <2>2. account' \in Accounts
    BY <2>1, AccountKept DEF AuthInv
  <2>3. req' \in [Requests -> Request] /\ NoNewMark
    BY <1>1, FinishStep DEF AuthInv
  <2>4. req[r].tok \in Tokens /\ tokens[req[r].tok].type = "customer_invite"
    BY <1>1, CarriedLink DEF LinkTypes, Types
  <2>5. \A q \in Requests : Holds(req[q]) => req[q].tok \notin {req[r].tok}
    BY <2>4, HeldType DEF Holds
  <2>6. sets \in [Tokens -> Nat]
    BY DEF AuthInv, Typed
  <2>7. sets' \in [Tokens -> Nat]
        /\ \A t \in Tokens : IF t = req[r].tok THEN sets'[t] = sets[t] + 1 ELSE sets'[t] = sets[t]
    BY <2>1, <2>4, <2>6
  <2>8. \A t \in Tokens : \/ sets'[t] = sets[t]
                          \/ sets'[t] = sets[t] + 1 /\ t \in {req[r].tok} /\ tokens[t].st = "live"
    BY <1>2, <2>7 DEF Unused
  <2> QED
    BY <2>1, <2>2, <2>3, <2>5, <2>7, <2>8, RevokingStep
<1>3. CASE ~Unused(req[r].tok)
  <2>1. UNCHANGED <<account, tokens, sets>>
    BY <1>3 DEF acceptCustomerInvite
  <2> QED
    BY <1>1, <2>1, EndsKeeps
<1> QED
  BY <1>2, <1>3

LEMMA ResetCommitKeeps ==
  ASSUME AuthAssumption, AuthInv, NEW r \in Requests, resetCommit(r)
  PROVE  AuthInv'
<1> DEFINE t == req[r].tok
           S == {t} \cup req[r].set \cup Live("password_reset")
<1>1. /\ req[r].at = "resetting" /\ Finish(r) /\ tokens' = Revoked(S)
      /\ account' = [account EXCEPT !.pw = @ + 1]
      /\ sets' = [sets EXCEPT ![t] = @ + 1]
      /\ \A s \in req[r].set : ~Locked(s)
  BY DEF resetCommit, At
<1>2. account' \in Accounts
  BY <1>1, AccountKept DEF AuthInv
<1>3. req' \in [Requests -> Request] /\ NoNewMark
  BY <1>1, FinishStep DEF AuthInv
<1>4. t \in Tokens /\ tokens[t].st = "live" /\ tokens[t].type = "password_reset"
  BY <1>1, HeldType DEF Holds
<1>5. ASSUME NEW q \in Requests, Holds(req[q]), req'[q] = req[q] PROVE req[q].tok \notin S
  <2>1. q # r
    BY <1>1, <1>5 DEF Finish, Idle, AuthInv, Typed
  <2>2. req[q].at = "rotated"
    BY <1>1, <1>5, <2>1 DEF Holds, AuthInv, HeldApart
  <2>3. tokens[req[q].tok].type = "refresh"
    BY <1>5, <2>2, HeldType
  <2>4. Locked(req[q].tok)
    BY <2>2 DEF Locked
  <2> QED
    BY <1>1, <1>4, <2>3, <2>4 DEF Live
<1>6. sets \in [Tokens -> Nat]
  BY DEF AuthInv, Typed
<1>7. sets' \in [Tokens -> Nat]
      /\ \A u \in Tokens : IF u = t THEN sets'[u] = sets[u] + 1 ELSE sets'[u] = sets[u]
  BY <1>1, <1>4, <1>6
<1>8. \A u \in Tokens : \/ sets'[u] = sets[u]
                        \/ sets'[u] = sets[u] + 1 /\ u \in S /\ tokens[u].st = "live"
  BY <1>4, <1>7
<1> HIDE DEF S
<1> QED
  BY <1>1, <1>2, <1>3, <1>5, <1>7, <1>8, RevokingStep

LEMMA RevokeCommitKeeps ==
  ASSUME AuthAssumption, AuthInv, NEW r \in Requests, revokeCommit(r)
  PROVE  AuthInv'
<1> DEFINE x == [Idle EXCEPT !.at = "ended"]
<1>1. /\ tokens' = Revoked(req[r].set) /\ UNCHANGED <<account, sets>>
      /\ req' = [req EXCEPT ![r] = x] /\ \A s \in req[r].set : ~Locked(s)
  BY DEF revokeCommit
<1>2. x \in Request /\ x.at = "ended" /\ x.set = {}
  BY RowAt DEF Places
<1> HIDE DEF x
<1>3. ~Holds(x) /\ Fits(tokens', x)
  BY <1>2 DEF Holds, Fits, Carries, LinkTypes, Types
<1>4. req' \in [Requests -> Request] /\ NoNewMark
  BY <1>1, <1>2, <1>3, GoesOn DEF AuthInv
<1>5. \A q \in Requests : Holds(req[q]) => req[q].tok \notin req[r].set
  BY <1>1 DEF Holds, Locked
<1>6. account' \in Accounts /\ sets' \in [Tokens -> Nat]
      /\ \A t \in Tokens : sets'[t] = sets[t]
  BY <1>1 DEF AuthInv, Typed
<1> QED
  BY <1>1, <1>4, <1>5, <1>6, RevokingStep

LEMMA LogoutKeeps ==
  ASSUME AuthAssumption, AuthInv, NEW r \in Requests, NEW t \in Tokens, logout(r, t)
  PROVE  AuthInv'
<1>1. tokens' = Revoked({t}) /\ UNCHANGED <<account, req, sets>> /\ ~Locked(t)
  BY DEF logout
<1>2. NoNewMark
  BY <1>1 DEF NoNewMark
<1>3. \A q \in Requests : Holds(req[q]) => req[q].tok \notin {t}
  BY <1>1 DEF Holds, Locked
<1>4. account' \in Accounts /\ req' \in [Requests -> Request] /\ sets' \in [Tokens -> Nat]
      /\ \A u \in Tokens : sets'[u] = sets[u]
  BY <1>1 DEF AuthInv, Typed
<1> QED
  BY <1>1, <1>2, <1>3, <1>4, RevokingStep

\* One row ages, and no request holds it.
LEMMA OneRowAges ==
  ASSUME AuthInv, NEW t \in Tokens, NEW y \in TokenRow, Aged(tokens[t], y),
         tokens' = [tokens EXCEPT ![t] = y], UNCHANGED <<account, req, sets>>,
         y.st = tokens[t].st \/ \A r \in Requests : req[r].tok # t
  PROVE  AuthInv'
<1>1. tokens \in [Tokens -> TokenRow] /\ account' \in Accounts
      /\ req' \in [Requests -> Request] /\ sets' \in [Tokens -> Nat]
  BY DEF AuthInv, Typed
<1>2. tokens' \in [Tokens -> TokenRow] /\ tokens'[t] = y
      /\ \A u \in Tokens \ {t} : tokens'[u] = tokens[u]
  BY <1>1
<1>3. \A u \in Tokens : Aged(tokens[u], tokens'[u])
  BY <1>2, AgedSelf
<1>4. SetsWithMark /\ NoNewMark
  BY DEF SetsWithMark, NoNewMark
<1>5. MarksKept
  BY <1>2, HeldType DEF MarksKept
<1> QED
  BY <1>1, <1>2, <1>3, <1>4, <1>5, AgingStep

LEMMA TokenExpiresKeeps ==
  ASSUME AuthAssumption, AuthInv, NEW t \in Tokens, tokenExpires(t)
  PROVE  AuthInv'
<1> DEFINE y == [tokens[t] EXCEPT !.exp = TRUE]
<1>1. tokens[t] \in TokenRow /\ tokens[t].st \in {"live", "used"}
  BY DEF AuthInv, Typed, tokenExpires
<1>2. y \in TokenRow /\ y.st = tokens[t].st /\ y.type = tokens[t].type
      /\ y.parent = tokens[t].parent
  BY <1>1 DEF TokenRow
<1>3. tokens' = [tokens EXCEPT ![t] = y] /\ UNCHANGED <<account, req, sets>>
  BY DEF tokenExpires, AuthInv, Typed
<1> HIDE DEF y
<1>4. Aged(tokens[t], y)
  BY <1>1, <1>2 DEF Aged
<1> QED
  BY <1>2, <1>3, <1>4, OneRowAges

LEMMA CleanupKeeps ==
  ASSUME AuthAssumption, AuthInv, NEW t \in Tokens, cleanupExpiredUserTokens(t)
  PROVE  AuthInv'
<1> DEFINE y == [tokens[t] EXCEPT !.st = "gone"]
<1>1. tokens[t] \in TokenRow
  BY DEF AuthInv, Typed
<1>2. y \in TokenRow /\ y.st = "gone" /\ y.type = tokens[t].type /\ y.parent = tokens[t].parent
  BY <1>1 DEF TokenRow
<1>3. tokens' = [tokens EXCEPT ![t] = y] /\ UNCHANGED <<account, req, sets>>
      /\ \A r \in Requests : req[r].tok # t
  BY DEF cleanupExpiredUserTokens, AuthInv, Typed
<1>4. tokens[t].st # "free"
  BY DEF cleanupExpiredUserTokens, AuthInv, FreeIsFree, Free
<1> HIDE DEF y
<1>5. Aged(tokens[t], y)
  BY <1>1, <1>2, <1>4 DEF Aged, TokenRow
<1> QED
  BY <1>2, <1>3, <1>5, OneRowAges

-----------------------------------------------------------------------------
(* The steps that issue a link or a session.                               *)

LEMMA IssuingStep ==
  ASSUME AuthAssumption, AuthInv, CanIssue, account' \in Accounts,
         req' \in [Requests -> Request], NoNewMark, UNCHANGED sets,
         NEW tab \in [Tokens -> TokenRow], \A t \in Tokens : Aged(tokens[t], tab[t]),
         \A q \in Requests : Holds(req[q]) => tab[req[q].tok] = tokens[req[q].tok],
         NEW type \in Types, NEW pw \in Nat, tokens' = issueTokenRow(tab, type, 0, pw)
  PROVE  AuthInv'
<1>1. 0 \in 0 .. MaxTokens
  BY DEF AuthAssumption
<1>2. /\ tokens[NewToken] = Free /\ tokens' \in [Tokens -> TokenRow]
      /\ RowsMove /\ ParentsStay
      /\ \A t \in Tokens \ {NewToken} : tokens'[t] = tab[t]
  BY <1>1, IssueMoves DEF AuthInv
<1>3. Typed'
  BY <1>2 DEF AuthInv, Typed
<1>4. ParentsSpent'
  BY <1>2, ParentsKept DEF AuthInv
<1>5. SetsWithMark
  BY DEF SetsWithMark
<1>6. MarksKept
  <2> SUFFICES ASSUME NEW q \in Requests, Holds(req[q])
               PROVE  tokens'[req[q].tok].st = "live"
    BY DEF MarksKept
  <2>1. req[q].tok \in Tokens /\ tokens[req[q].tok].st = "live"
    BY HeldType
  <2>2. req[q].tok # NewToken
    BY <1>2, <2>1 DEF Free
  <2> QED
    BY <1>2, <2>1, <2>2
<1> QED
  BY <1>2, <1>3, <1>4, <1>5, <1>6, InvKept

LEMMA RegisterKeeps ==
  ASSUME AuthAssumption, AuthInv, register
  PROVE  AuthInv'
<1>1. CanIssue /\ tokens' = issueTokenRow(tokens, "email_verification", 0, 0)
      /\ UNCHANGED <<req, sets>>
  BY DEF register
<1>2. account' \in Accounts
  BY DEF register, insertTenantAndAdmin, Accounts
<1>3. tokens \in [Tokens -> TokenRow] /\ req' \in [Requests -> Request] /\ NoNewMark
  BY <1>1 DEF AuthInv, Typed, NoNewMark
<1> QED
  BY <1>1, <1>2, <1>3, AgedSelf, IssuingStep DEF Types

LEMMA InviteNewKeeps ==
  ASSUME AuthAssumption, AuthInv, NEW r \in Requests, inviteNew(r)
  PROVE  AuthInv'
<1>1. Finish(r) /\ UNCHANGED sets
  BY DEF inviteNew
<1>2. tokens \in [Tokens -> TokenRow] /\ req' \in [Requests -> Request] /\ NoNewMark
  BY <1>1, FinishStep DEF AuthInv, Typed
<1>3. CASE account = Absent /\ CanIssue
  <2>1. tokens' = issueTokenRow(tokens, "customer_invite", 0, 0)
    BY <1>3 DEF inviteNew
  <2>2. account' \in Accounts
    BY <1>3 DEF inviteNew, insertCustomerInviteUser, Accounts
  <2> QED
    BY <1>1, <1>2, <1>3, <2>1, <2>2, AgedSelf, IssuingStep DEF Types
<1>4. CASE ~(account = Absent /\ CanIssue)
  <2>1. UNCHANGED <<account, tokens, sets>>
    BY <1>1, <1>4 DEF inviteNew
  <2> QED
    BY <1>1, <2>1, EndsKeeps
<1> QED
  BY <1>3, <1>4

LEMMA InviteAgainKeeps ==
  ASSUME AuthAssumption, AuthInv, NEW r \in Requests, inviteAgain(r)
  PROVE  AuthInv'
<1> DEFINE tab == revokeTokens(tokens, "customer_invite")
<1>1. CanIssue /\ tokens' = issueTokenRow(tab, "customer_invite", 0, 0)
      /\ Finish(r) /\ UNCHANGED <<account, sets>>
  BY DEF inviteAgain
<1>2. req' \in [Requests -> Request] /\ NoNewMark /\ account' \in Accounts
  BY <1>1, FinishStep DEF AuthInv, Typed
<1>3. /\ tab \in [Tokens -> TokenRow] /\ \A t \in Tokens : Aged(tokens[t], tab[t])
      /\ \A t \in Tokens : tokens[t].type # "customer_invite" => tab[t] = tokens[t]
  BY RevokeTokensAges DEF AuthInv
<1> HIDE DEF tab
<1>4. \A q \in Requests : Holds(req[q]) => tab[req[q].tok] = tokens[req[q].tok]
  BY <1>3, HeldType DEF Holds
<1> QED
  BY <1>1, <1>2, <1>3, <1>4, IssuingStep DEF Types

LEMMA ForgotPasswordKeeps ==
  ASSUME AuthAssumption, AuthInv, forgotPassword
  PROVE  AuthInv'
<1> DEFINE tab == revokeTokens(tokens, "password_reset")
<1>1. CanIssue /\ tokens' = issueTokenRow(tab, "password_reset", 0, 0)
      /\ UNCHANGED <<account, req, sets>> /\ \A t \in Live("password_reset") : ~Locked(t)
  BY DEF forgotPassword
<1>2. req' \in [Requests -> Request] /\ NoNewMark /\ account' \in Accounts
  BY <1>1 DEF AuthInv, Typed, NoNewMark
<1>3. /\ tab \in [Tokens -> TokenRow] /\ \A t \in Tokens : Aged(tokens[t], tab[t])
      /\ \A t \in Tokens : tokens[t].type # "password_reset" => tab[t] = tokens[t]
  BY RevokeTokensAges DEF AuthInv
<1> HIDE DEF tab
<1>4. ASSUME NEW q \in Requests, Holds(req[q]) PROVE tab[req[q].tok] = tokens[req[q].tok]
  <2>1. req[q].tok \in Tokens /\ tokens[req[q].tok].st = "live"
    BY <1>4, HeldType
  <2>2. Locked(req[q].tok)
    BY <1>4 DEF Holds, Locked
  <2>3. tokens[req[q].tok].type # "password_reset"
    BY <1>1, <2>1, <2>2 DEF Live
  <2> QED
    BY <1>3, <2>1, <2>3
<1> QED
  BY <1>1, <1>2, <1>3, <1>4, IssuingStep DEF Types

LEMMA LoginIssueKeeps ==
  ASSUME AuthAssumption, AuthInv, NEW r \in Requests, loginIssue(r)
  PROVE  AuthInv'
<1>1. CanIssue /\ tokens' = issueTokenRow(tokens, "refresh", 0, req[r].pw)
      /\ Finish(r) /\ UNCHANGED <<account, sets>>
  BY DEF loginIssue
<1>2. req' \in [Requests -> Request] /\ NoNewMark /\ account' \in Accounts
  BY <1>1, FinishStep DEF AuthInv, Typed
<1>3. tokens \in [Tokens -> TokenRow] /\ req[r].pw \in Nat
  BY DEF AuthInv, Typed, Request
<1> QED
  BY <1>1, <1>2, <1>3, AgedSelf, IssuingStep DEF Types

-----------------------------------------------------------------------------
(* Rotation: the mark and the new row in one commit.                       *)

LEMMA RotateCommitKeeps ==
  ASSUME AuthAssumption, AuthInv, NEW r \in Requests, rotateCommit(r)
  PROVE  AuthInv'
<1> DEFINE t == req[r].tok
           n == NewToken
           spent == [tokens[t] EXCEPT !.st = "used"]
           tab == [tokens EXCEPT ![t] = spent]
<1>1. req[r].at = "rotated" /\ CanIssue /\ Finish(r) /\ UNCHANGED <<account, sets>>
      /\ tokens' = [issueTokenRow(tokens, "refresh", t, tokens[t].pw) EXCEPT ![t].st = "used"]
  BY DEF rotateCommit, At
<1>2. t \in Tokens /\ tokens[t].st = "live" /\ tokens[t].type = "refresh"
  BY <1>1, HeldType DEF Holds
<1>3. tokens \in [Tokens -> TokenRow]
  BY DEF AuthInv, Typed
<1>4. tokens[t] \in TokenRow /\ tokens[t].pw \in Nat
  BY <1>2, <1>3 DEF TokenRow
<1>5. spent \in TokenRow /\ spent.st = "used" /\ Aged(tokens[t], spent)
  BY <1>2, <1>4, UsedRow
<1>6. n \in Tokens /\ tokens[n].st = "free"
  BY <1>1, NewTokenIsFree DEF AuthAssumption
<1>7. n # t
  BY <1>2, <1>6
<1>8. tokens' = issueTokenRow(tab, "refresh", t, tokens[t].pw)
  <2> DEFINE row == [type |-> "refresh", st |-> "live", exp |-> FALSE,
                     parent |-> t, pw |-> tokens[t].pw]
  <2>1. tokens' = [[tokens EXCEPT ![n] = row] EXCEPT ![t].st = "used"]
    BY <1>1 DEF issueTokenRow
  <2>2. issueTokenRow(tab, "refresh", t, tokens[t].pw) = [tab EXCEPT ![n] = row]
    BY DEF issueTokenRow
  <2> HIDE DEF row, n, t
  <2>3. [[tokens EXCEPT ![n] = row] EXCEPT ![t].st = "used"] = [tab EXCEPT ![n] = row]
    BY <1>2, <1>3, <1>6, <1>7
  <2> QED
    BY <2>1, <2>2, <2>3
<1> HIDE DEF spent
<1>9. tab \in [Tokens -> TokenRow] /\ tab[t] = spent
      /\ \A u \in Tokens \ {t} : tab[u] = tokens[u]
  BY <1>2, <1>3, <1>5
<1> HIDE DEF tab
<1>10. \A u \in Tokens : Aged(tokens[u], tab[u])
  BY <1>5, <1>9, AgedSelf
<1>11. t \in 0 .. MaxTokens /\ t # 0
  BY <1>2 DEF Tokens, AuthAssumption
<1>12. "refresh" \in Types
  BY DEF Types
<1>13. /\ tokens[n] = Free /\ tokens' \in [Tokens -> TokenRow] /\ RowsMove
       /\ tokens'[n].parent = t /\ \A u \in Tokens \ {n} : tokens'[u] = tab[u]
  <2> DEFINE pw == tokens[t].pw
  <2>1. Typed /\ FreeIsFree /\ pw \in Nat /\ CanIssue
    BY <1>1, <1>4 DEF AuthInv
  <2>2. tokens' = issueTokenRow(tab, "refresh", t, pw)
    BY <1>8
  <2> HIDE DEF t, pw
  <2>3. /\ tokens[NewToken] = Free /\ tokens' \in [Tokens -> TokenRow] /\ RowsMove
        /\ tokens'[NewToken].parent = t
        /\ \A u \in Tokens \ {NewToken} : tokens'[u] = tab[u]
    BY <1>9, <1>10, <1>11, <1>12, <2>1, <2>2, IssueMoves
  <2> QED
    BY <2>3
<1>14. req' \in [Requests -> Request] /\ NoNewMark
       /\ \A q \in Requests \ {r} : req'[q] = req[q]
  BY <1>1, FinishStep DEF AuthInv
<1>15. Typed'
  BY <1>1, <1>13, <1>14 DEF AuthInv, Typed
<1>16. \A u \in Tokens \ {n} : tokens'[u].parent = tokens[u].parent
  BY <1>9, <1>10, <1>13 DEF Aged
<1>17. tokens'[t].st = "used"
  BY <1>2, <1>5, <1>7, <1>9, <1>13
<1>18. ParentsSpent'
  <2>1. \A u \in Tokens \ {n} : tokens[u].parent # t
    BY <1>2, <1>11 DEF AuthInv, ParentsSpent
  <2>2. ASSUME NEW u \in Tokens, tokens'[u].parent # 0
        PROVE  tokens'[tokens'[u].parent].st \in {"used", "gone"}
    <3>1. CASE u = n
      BY <1>13, <1>17, <3>1
    <3>2. CASE u # n
      <4> DEFINE p == tokens[u].parent
      <4>1. tokens'[u].parent = p /\ p # 0
        BY <1>16, <2>2, <3>2
      <4>2. p \in Tokens
        BY <1>3, <4>1 DEF TokenRow, Tokens
      <4>3. tokens[p].st \in {"used", "gone"}
        BY <4>1 DEF AuthInv, ParentsSpent
      <4>4. tokens'[p].st \in {"used", "gone"}
        BY <1>13, <4>2, <4>3 DEF RowsMove, Aged, IssuedAs, Free
      <4> QED
        BY <4>1, <4>4
    <3> QED
      BY <3>1, <3>2
  <2>3. ASSUME NEW u \in Tokens, NEW v \in Tokens,
               tokens'[u].parent = tokens'[v].parent, tokens'[u].parent # 0
        PROVE  u = v
    BY <1>13, <1>16, <2>1, <2>3 DEF AuthInv, ParentsSpent
  <2> QED
    BY <2>2, <2>3 DEF ParentsSpent
<1>19. SetsWithMark
  BY <1>1 DEF SetsWithMark
<1>20. MarksKept
  <2> SUFFICES ASSUME NEW q \in Requests, req'[q] = req[q], Holds(req[q])
               PROVE  tokens'[req[q].tok].st = "live"
    BY DEF MarksKept
  <2>1. q # r
    BY <1>1 DEF Finish, Idle, Holds, AuthInv, Typed
  <2>2. req[q].tok \in Tokens /\ tokens[req[q].tok].st = "live"
    BY HeldType
  <2>3. req[q].tok # n
    BY <1>6, <2>2
  <2>4. req[q].tok # t
    BY <1>1, <1>2, <2>1, HeldType DEF Holds, AuthInv, HeldApart
  <2> QED
    BY <1>9, <1>13, <2>2, <2>3, <2>4
<1> QED
  BY <1>13, <1>14, <1>15, <1>18, <1>19, <1>20, InvKept

-----------------------------------------------------------------------------
LEMMA AuthInit == ASSUME AuthAssumption, Init PROVE AuthInv
<1> USE DEF Init
<1>1. account \in Accounts
  BY DEF Absent, Accounts
<1>2. Free \in TokenRow
  BY DEF Free, TokenRow, AuthAssumption
<1>3. Idle \in Request /\ \A tab : Fits(tab, Idle)
  <2>1. \A tab : Fits(tab, Idle)
    BY DEF Fits, Idle, Carries, Holds, LinkTypes, Types
  <2> QED
    BY <2>1, IdleRow
<1>4. Typed
  <2>1. tokens \in [Tokens -> TokenRow]
    BY <1>2
  <2>2. req \in [Requests -> Request]
    BY <1>3
  <2>3. sets \in [Tokens -> Nat]
    OBVIOUS
  <2> QED
    BY <1>1, <2>1, <2>2, <2>3 DEF Typed
<1>5. RowsFit
  BY <1>3 DEF RowsFit
<1>6. HeldApart
  BY DEF HeldApart, Idle
<1>7. FreeIsFree
  BY DEF FreeIsFree, Free
<1>8. ParentsSpent
  BY DEF ParentsSpent, Free
<1>9. SetOnce
  BY DEF SetOnce, Free
<1> QED
  BY <1>4, <1>5, <1>6, <1>7, <1>8, <1>9 DEF AuthInv

LEMMA AuthStep == ASSUME AuthAssumption, AuthInv, [Next]_vars PROVE AuthInv'
<1>1. CASE register
  BY <1>1, RegisterKeeps
<1>2. CASE forgotPassword
  BY <1>2, ForgotPasswordKeeps
<1>3. CASE lockoutExpires
  <2>1. UNCHANGED <<account, tokens, req, sets>>
    BY <1>3 DEF lockoutExpires
  <2> QED
    BY <2>1, QuietStep DEF AuthInv, Typed, NoNewMark
<1>4. ASSUME NEW r \in Requests, RefreshStep(r) PROVE AuthInv'
  <2>1. ASSUME answerReused(r) PROVE AuthInv'
    BY <2>1, EndsKeeps DEF answerReused
  <2> QED
    BY <1>4, <2>1, RotateMarkKeeps, RotateCommitKeeps, RevokeBeginKeeps, RevokeCommitKeeps
    DEF RefreshStep
<1>5. ASSUME NEW r \in Requests, LinkStep(r) PROVE AuthInv'
  BY <1>5, VerifyEmailKeeps, AcceptKeeps, ResetBeginKeeps, ResetCommitKeeps DEF LinkStep
<1>6. ASSUME NEW r \in Requests, InviteStep(r) PROVE AuthInv'
  BY <1>6, InviteFindKeeps, InviteNewKeeps, InviteAgainKeeps DEF InviteStep
<1>7. ASSUME NEW r \in Requests, LoginStep(r) PROVE AuthInv'
  <2>1. ASSUME recordLoginFailure(r) PROVE AuthInv'
    BY <2>1, EndsKeeps DEF recordLoginFailure
  <2> QED
    BY <1>7, <2>1, LoginVerifyKeeps, LoginIssueKeeps, GuessKeeps DEF LoginStep
<1>8. ASSUME NEW r \in Requests, NEW t \in Tokens,
             linkFind(r, t) \/ refreshFind(r, t) \/ logout(r, t)
      PROVE  AuthInv'
  BY <1>8, LinkFindKeeps, RefreshFindKeeps, LogoutKeeps
<1>9. ASSUME NEW t \in Tokens, tokenExpires(t) \/ cleanupExpiredUserTokens(t) PROVE AuthInv'
  BY <1>9, TokenExpiresKeeps, CleanupKeeps
<1>10. CASE UNCHANGED vars
  BY <1>10, QuietStep DEF vars, AuthInv, Typed, NoNewMark
<1> QED
  BY <1>1, <1>2, <1>3, <1>4, <1>5, <1>6, <1>7, <1>8, <1>9, <1>10 DEF Next

LEMMA AtMostOne ==
  ASSUME NEW S, \A x, y \in S : x = y
  PROVE  IsFiniteSet(S) /\ Cardinality(S) <= 1
<1>1. CASE S = {}
  BY <1>1, FS_EmptySet
<1>2. CASE S # {}
  <2>1. PICK x \in S : S = {x}
    BY <1>2
  <2>2. IsFiniteSet({x}) /\ Cardinality({x}) = 1
    BY FS_Singleton
  <2> QED
    BY <2>1, <2>2
<1> QED
  BY <1>1, <1>2

LEMMA InvUsedOnce == ASSUME AuthInv PROVE UsedOnce
<1>1. ASSUME NEW t \in Tokens
      PROVE  Cardinality({ n \in Tokens : tokens[n].parent = t }) <= 1
  <2> DEFINE S == { n \in Tokens : tokens[n].parent = t }
  <2>1. t # 0
    BY DEF Tokens
  <2>2. \A x, y \in S : x = y
    BY <2>1 DEF AuthInv, ParentsSpent
  <2> HIDE DEF S
  <2>3. Cardinality(S) <= 1
    BY <2>2, AtMostOne
  <2> QED
    BY <2>3 DEF S
<1>2. OneSuccessor
  BY <1>1 DEF OneSuccessor
<1>3. LinkUsedOnce
  BY DEF AuthInv, SetOnce, LinkUsedOnce
<1> QED
  BY <1>2, <1>3 DEF UsedOnce

(***************************************************************************)
(* However many requests present a token at once, a refresh token is       *)
(* exchanged for at most one other, and a reset or invitation link sets    *)
(* the password at most once (auth/services.ts, auth/repository.ts).       *)
(***************************************************************************)
THEOREM UsedOnceHolds == ASSUME AuthAssumption PROVE Spec => []UsedOnce
<1>1. Init => AuthInv
  BY AuthInit
<1>2. AuthInv /\ [Next]_vars => AuthInv'
  BY AuthStep
<1>3. AuthInv => UsedOnce
  BY InvUsedOnce
<1> QED
  BY <1>1, <1>2, <1>3, PTL DEF Spec

-----------------------------------------------------------------------------
(* The login throttle.  While it is open, every guess since it was cleared *)
(* is either counted as a failure or still on its way to be counted; once  *)
(* the counter stands at the threshold, only guesses on their way are left. *)

Guessing == { r \in Requests : req[r].at = "guess" }

ThrottleState == [failures : Nat, locked : BOOLEAN, guesses : Nat, total : Nat]

Counted == IF throttle.failures < Threshold THEN throttle.failures ELSE 0

ThrottleInv ==
  /\ throttle \in ThrottleState
  /\ GuessesBounded
  /\ ~throttle.locked => throttle.guesses <= Counted + Cardinality(Guessing)

LEMMA GuessingFinite ==
  ASSUME AuthAssumption
  PROVE  /\ IsFiniteSet(Guessing) /\ Cardinality(Guessing) \in Nat
         /\ Cardinality(Guessing) <= Cardinality(Requests) /\ Cardinality(Requests) \in Nat
<1>1. Guessing \subseteq Requests /\ IsFiniteSet(Requests)
  BY DEF Guessing, AuthAssumption
<1> QED
  BY <1>1, FS_Subset, FS_CardinalityType

\* A step of a request that is not guessing, or of none.
LEMMA GuessesOnTheWay ==
  ASSUME AuthAssumption, UNCHANGED throttle, ThrottleInv,
         \A q \in Requests : req[q].at = "guess" => req'[q].at = "guess"
  PROVE  ThrottleInv'
<1>1. Guessing \subseteq Guessing' /\ Guessing' \subseteq Requests
  BY DEF Guessing
<1>2. IsFiniteSet(Requests)
  BY DEF AuthAssumption
<1>3. IsFiniteSet(Guessing')
  BY <1>1, <1>2, FS_Subset
<1>4. Cardinality(Guessing) <= Cardinality(Guessing') /\ Cardinality(Guessing') \in Nat
      /\ Cardinality(Guessing) \in Nat
  BY <1>1, <1>3, FS_Subset, FS_CardinalityType
<1>5. Counted' = Counted /\ Counted \in Nat
  BY DEF Counted, ThrottleInv, ThrottleState
<1> QED
  BY <1>4, <1>5 DEF ThrottleInv, GuessesBounded, ThrottleState

LEMMA GuessThrottled ==
  ASSUME AuthAssumption, Typed, ThrottleInv, NEW r \in Requests, guess(r)
  PROVE  ThrottleInv'
<1>1. /\ req[r].at = "idle" /\ ~throttle.locked
      /\ req' = [req EXCEPT ![r].at = "guess"]
      /\ throttle' = [throttle EXCEPT !.total = throttle.total + 1,
                                      !.guesses = throttle.guesses + 1]
  BY DEF guess, At
<1>2. throttle' \in ThrottleState /\ throttle'.guesses = throttle.guesses + 1
      /\ throttle'.failures = throttle.failures
  <2> DEFINE m == throttle.total + 1
             n == throttle.guesses + 1
  <2>1. m \in Nat /\ n \in Nat /\ throttle \in ThrottleState
    BY DEF ThrottleInv, ThrottleState
  <2>2. throttle' = [throttle EXCEPT !.total = m, !.guesses = n]
    BY <1>1
  <2> HIDE DEF m
  <2>3. n = throttle.guesses + 1
    OBVIOUS
  <2> HIDE DEF n
  <2> QED
    BY <2>1, <2>2, <2>3 DEF ThrottleState
<1>3. req'[r].at = "guess" /\ \A q \in Requests \ {r} : req'[q] = req[q]
  BY <1>1 DEF Typed, Request
<1>4. Guessing' = Guessing \cup {r} /\ r \notin Guessing
  BY <1>1, <1>3 DEF Guessing
<1>5. Cardinality(Guessing') = Cardinality(Guessing) + 1
  BY <1>4, GuessingFinite, FS_AddElement
<1>6. Guessing' \subseteq Requests /\ IsFiniteSet(Requests)
  BY DEF Guessing, AuthAssumption
<1>7. Cardinality(Guessing') <= Cardinality(Requests)
  BY <1>6, FS_Subset
<1>8. Counted' = Counted /\ Counted \in Nat /\ Counted <= Threshold - 1
  BY <1>2 DEF Counted, ThrottleInv, ThrottleState, AuthAssumption
<1>9. throttle.guesses \in Nat /\ throttle.guesses <= Counted + Cardinality(Guessing)
  BY <1>1 DEF ThrottleInv, ThrottleState
<1>10. Threshold \in Nat
  BY DEF AuthAssumption
<1>11. throttle'.guesses <= Counted' + Cardinality(Guessing')
  BY <1>2, <1>5, <1>8, <1>9, GuessingFinite
<1>12. throttle'.guesses <= Threshold - 1 + Cardinality(Requests)
  BY <1>2, <1>5, <1>7, <1>8, <1>9, <1>10, GuessingFinite
<1> QED
  BY <1>2, <1>11, <1>12 DEF ThrottleInv, GuessesBounded

LEMMA FailureThrottled ==
  ASSUME AuthAssumption, Typed, ThrottleInv, NEW r \in Requests, recordLoginFailure(r)
  PROVE  ThrottleInv'
<1> DEFINE n == throttle.failures + 1
           l == throttle.locked \/ n >= Threshold
<1>1. /\ req[r].at = "guess" /\ req' = [req EXCEPT ![r] = Idle]
      /\ throttle' = [throttle EXCEPT !.failures = n, !.locked = l]
  BY DEF recordLoginFailure, At, Finish
<1>2. n \in Nat /\ l \in BOOLEAN /\ throttle.failures \in Nat /\ throttle.guesses \in Nat
      /\ throttle \in ThrottleState
  BY DEF ThrottleInv, ThrottleState
<1> HIDE DEF n, l
<1>3. throttle' \in ThrottleState /\ throttle'.guesses = throttle.guesses
      /\ throttle'.failures = n /\ throttle'.locked = l
  BY <1>1, <1>2 DEF ThrottleState
<1>4. req'[r].at = "idle" /\ \A q \in Requests \ {r} : req'[q] = req[q]
  BY <1>1 DEF Typed, Idle
<1>5. Guessing' = Guessing \ {r} /\ r \in Guessing
  BY <1>1, <1>4 DEF Guessing
<1>6. Cardinality(Guessing') = Cardinality(Guessing) - 1
  BY <1>5, GuessingFinite, FS_RemoveElement
<1>7. ASSUME ~l PROVE throttle'.guesses <= Counted' + Cardinality(Guessing')
  <2>1. ~throttle.locked /\ n < Threshold /\ n = throttle.failures + 1
    BY <1>2, <1>7 DEF l, n, AuthAssumption
  <2>2. Counted = throttle.failures /\ Counted' = n
    BY <1>2, <1>3, <2>1 DEF Counted, AuthAssumption
  <2>3. throttle.guesses <= Counted + Cardinality(Guessing)
    BY <2>1 DEF ThrottleInv
  <2> QED
    BY <1>2, <1>3, <1>6, <2>1, <2>2, <2>3, GuessingFinite
<1>8. GuessesBounded'
  BY <1>3 DEF ThrottleInv, GuessesBounded
<1> QED
  BY <1>3, <1>7, <1>8 DEF ThrottleInv

\* A login, or the end of a lockout, clears the guesses.
LEMMA ClearThrottled ==
  ASSUME AuthAssumption, throttle' \in ThrottleState, throttle'.guesses = 0
  PROVE  ThrottleInv'
<1>1. Guessing' \subseteq Requests /\ IsFiniteSet(Requests)
  BY DEF Guessing, AuthAssumption
<1>2. Cardinality(Guessing') \in Nat /\ Cardinality(Requests) \in Nat
  BY <1>1, FS_Subset, FS_CardinalityType
<1>3. Counted' \in Nat
  BY DEF Counted, ThrottleState
<1> QED
  BY <1>2, <1>3 DEF ThrottleInv, GuessesBounded, AuthAssumption

LEMMA ThrottleStep ==
  ASSUME AuthAssumption, Typed, ThrottleInv, [Next]_vars
  PROVE  ThrottleInv'
<1> DEFINE Stay == \A q \in Requests : req[q].at = "guess" => req'[q].at = "guess"
<1>1. ASSUME NEW r \in Requests, UNCHANGED throttle, req[r].at # "guess",
             \A q \in Requests \ {r} : req'[q] = req[q]
      PROVE  ThrottleInv'
  BY <1>1, GuessesOnTheWay
<1>2. ASSUME UNCHANGED <<req, throttle>> PROVE ThrottleInv'
  BY <1>2, GuessesOnTheWay
<1>3. CASE lockoutExpires
  <2>1. throttle' \in ThrottleState /\ throttle'.guesses = 0
    BY <1>3 DEF lockoutExpires, ThrottleInv, ThrottleState
  <2> QED
    BY <2>1, ClearThrottled
<1>4. ASSUME NEW r \in Requests, RefreshStep(r) PROVE ThrottleInv'
  <2>1. UNCHANGED throttle /\ req[r].at \in {"rotate", "rotated", "reuse", "revoking", "ended"}
    BY <1>4 DEF RefreshStep, rotateMark, rotateCommit, revokeBegin, revokeCommit,
                answerReused, At
  <2>2. \A q \in Requests \ {r} : req'[q] = req[q]
    BY <1>4 DEF RefreshStep, rotateMark, rotateCommit, revokeBegin, revokeCommit,
                answerReused, Finish, Typed
  <2> QED
    BY <1>1, <2>1, <2>2
<1>5. ASSUME NEW r \in Requests, LinkStep(r) PROVE ThrottleInv'
  <2>1. UNCHANGED throttle /\ req[r].at \in {"email_verification", "customer_invite",
                                             "password_reset", "resetting"}
    BY <1>5 DEF LinkStep, verifyEmail, acceptCustomerInvite, resetBegin, resetCommit, At
  <2>2. \A q \in Requests \ {r} : req'[q] = req[q]
    BY <1>5 DEF LinkStep, verifyEmail, acceptCustomerInvite, resetBegin, resetCommit,
                Finish, Typed
  <2> QED
    BY <1>1, <2>1, <2>2
<1>6. ASSUME NEW r \in Requests, InviteStep(r) PROVE ThrottleInv'
  <2>1. UNCHANGED throttle /\ req[r].at \in {"idle", "invite", "invite again"}
    BY <1>6 DEF InviteStep, inviteFind, inviteNew, inviteAgain, At
  <2>2. \A q \in Requests \ {r} : req'[q] = req[q]
    BY <1>6 DEF InviteStep, inviteFind, inviteNew, inviteAgain, Finish, Typed
  <2> QED
    BY <1>1, <2>1, <2>2
<1>7. ASSUME NEW r \in Requests, LoginStep(r) PROVE ThrottleInv'
  <2>1. ASSUME loginVerify(r) PROVE ThrottleInv'
    <3>1. UNCHANGED throttle /\ req[r].at = "idle"
          /\ \A q \in Requests \ {r} : req'[q] = req[q]
      BY <2>1 DEF loginVerify, At, Typed
    <3> QED
      BY <1>1, <3>1
  <2>2. ASSUME loginIssue(r) PROVE ThrottleInv'
    <3>1. throttle' = [throttle EXCEPT !.failures = 0, !.locked = FALSE, !.guesses = 0]
      BY <2>2 DEF loginIssue
    <3>2. throttle' \in ThrottleState /\ throttle'.guesses = 0
      BY <3>1 DEF ThrottleInv, ThrottleState
    <3> QED
      BY <3>2, ClearThrottled
  <2> QED
    BY <1>7, <2>1, <2>2, GuessThrottled, FailureThrottled DEF LoginStep
<1>8. ASSUME NEW r \in Requests, NEW t \in Tokens,
             linkFind(r, t) \/ refreshFind(r, t) \/ logout(r, t)
      PROVE  ThrottleInv'
  <2>1. UNCHANGED throttle /\ req[r].at = "idle"
    BY <1>8 DEF linkFind, refreshFind, logout, At
  <2>2. \A q \in Requests \ {r} : req'[q] = req[q]
    BY <1>8 DEF linkFind, refreshFind, logout, Typed
  <2> QED
    BY <1>1, <2>1, <2>2
<1>9. ASSUME NEW t \in Tokens, tokenExpires(t) \/ cleanupExpiredUserTokens(t)
      PROVE  ThrottleInv'
  BY <1>2, <1>9 DEF tokenExpires, cleanupExpiredUserTokens
<1>10. CASE register \/ forgotPassword \/ UNCHANGED vars
  BY <1>2, <1>10 DEF register, forgotPassword, vars
<1> QED
  BY <1>3, <1>4, <1>5, <1>6, <1>7, <1>8, <1>9, <1>10 DEF Next

(***************************************************************************)
(* Between two lockouts at most one wrong password per request in progress *)
(* slips past the threshold, whatever the threshold (auth/throttle.ts).    *)
(***************************************************************************)
THEOREM GuessesBoundedHolds == ASSUME AuthAssumption PROVE Spec => []GuessesBounded
<1>1. Init => AuthInv /\ ThrottleInv
  <2>1. ASSUME Init PROVE throttle \in ThrottleState /\ throttle.guesses = 0
    BY <2>1 DEF Init, ThrottleState
  <2>2. ASSUME Init PROVE ThrottleInv
    BY <2>1, <2>2, GuessingFinite DEF ThrottleInv, GuessesBounded, Counted, ThrottleState,
                                     AuthAssumption
  <2> QED
    BY <2>2, AuthInit
<1>2. (AuthInv /\ ThrottleInv) /\ [Next]_vars => (AuthInv /\ ThrottleInv)'
  BY AuthStep, ThrottleStep DEF AuthInv
<1>3. ThrottleInv => GuessesBounded
  BY DEF ThrottleInv
<1> QED
  BY <1>1, <1>2, <1>3, PTL DEF Spec
-----------------------------------------------------------------------------
(* One request at a time: sessions and invitations.                        *)

IsLive(t, type) == tokens[t].type = type /\ tokens[t].st = "live"

\* A session belongs to the password in force, of a verified account.
SessionsCurrent ==
  \A t \in Tokens : IsLive(t, "refresh") => tokens[t].pw = account.pw /\ account.st = "verified"

\* One invitation is open at most, to an account that has not accepted.
InvitesCurrent ==
  /\ \A t \in Tokens :
       IsLive(t, "customer_invite") => account.kind = "customer" /\ account.st = "new"
  /\ \A s, t \in Tokens : IsLive(s, "customer_invite") /\ IsLive(t, "customer_invite") => s = t

\* Only an admin verifies an address.
VerifiesAdmins == \A t \in Tokens : IsLive(t, "email_verification") => account.kind = "admin"

\* What a request in progress has read is still so.
UpToDate(x) ==
  /\ x.at = "login" => x.pw = account.pw /\ account.st = "verified"
  /\ x.at = "invite again" => account.kind = "customer" /\ account.st = "new"
  /\ x.at = "resetting" => \A t \in Tokens : IsLive(t, "refresh") => t \in x.set

RowsCurrent == SessionsCurrent /\ InvitesCurrent /\ VerifiesAdmins
AloneInv == RowsCurrent /\ \A r \in Requests : UpToDate(req[r])

\* A token that is live after a step was live before it, with the same content.
Kept(x, y) == y.st = "live" => x.st = "live" /\ y.type = x.type /\ y.pw = x.pw
NoneIssued == \A t \in Tokens : Kept(tokens[t], tokens'[t])

LEMMA RevokedKeeps ==
  ASSUME Typed, NEW S
  PROVE  \A t \in Tokens : Kept(tokens[t], Revoked(S)[t])
BY RevokedAges DEF Kept

LEMMA RevokeTokensLeaves ==
  ASSUME Typed, NEW type
  PROVE  LET tab == revokeTokens(tokens, type)
         IN  \A t \in Tokens : /\ Kept(tokens[t], tab[t])
                               /\ tab[t].st = "live" => tab[t].type # type
<1> DEFINE tab == revokeTokens(tokens, type)
<1> SUFFICES ASSUME NEW t \in Tokens
             PROVE  Kept(tokens[t], tab[t]) /\ (tab[t].st = "live" => tab[t].type # type)
  OBVIOUS
<1>1. tokens[t] \in TokenRow
  BY DEF Typed
<1>2. tab[t] = IF tokens[t].type = type /\ tokens[t].st = "live"
               THEN [tokens[t] EXCEPT !.st = "used"] ELSE tokens[t]
  BY DEF revokeTokens
<1>3. [tokens[t] EXCEPT !.st = "used"].st = "used"
  BY <1>1 DEF TokenRow
<1> QED
  BY <1>2, <1>3 DEF Kept

LEMMA IssuedOne ==
  ASSUME AuthAssumption, CanIssue, NEW tab \in [Tokens -> TokenRow], NEW type \in Types,
         NEW parent \in 0 .. MaxTokens, NEW pw \in Nat,
         tokens' = issueTokenRow(tab, type, parent, pw)
  PROVE  \E n \in Tokens : /\ tokens'[n].type = type /\ tokens'[n].pw = pw
                           /\ \A t \in Tokens \ {n} : tokens'[t] = tab[t]
<1> DEFINE n == NewToken
           row == [type |-> type, st |-> "live", exp |-> FALSE, parent |-> parent, pw |-> pw]
<1>1. n \in Tokens
  BY NewTokenIsFree DEF AuthAssumption
<1>2. tokens' = [tab EXCEPT ![n] = row]
  BY DEF issueTokenRow
<1>3. row.type = type /\ row.pw = pw
  OBVIOUS
<1> HIDE DEF n, row
<1>4. tokens'[n] = row /\ \A t \in Tokens \ {n} : tokens'[t] = tab[t]
  BY <1>1, <1>2
<1> QED
  BY <1>1, <1>3, <1>4

\* Steps that neither issue a token nor change the account.
LEMMA QuietAlone ==
  ASSUME RowsCurrent, NoneIssued, account' = account
  PROVE  RowsCurrent'
<1>1. \A t \in Tokens : \A type \in Types :
        IsLive(t, type)' => IsLive(t, type) /\ tokens'[t].pw = tokens[t].pw
  BY DEF NoneIssued, Kept, IsLive
<1>2. SessionsCurrent'
  BY <1>1 DEF RowsCurrent, SessionsCurrent, Types
<1>3. InvitesCurrent'
  BY <1>1 DEF RowsCurrent, InvitesCurrent, Types
<1>4. VerifiesAdmins'
  BY <1>1 DEF RowsCurrent, VerifiesAdmins, Types
<1> QED
  BY <1>2, <1>3, <1>4 DEF RowsCurrent

\* A request that is the only one, and goes on as x.
LEMMA OnlyOne ==
  ASSUME \A q, r \in Requests : q = r, NEW r \in Requests,
         RowsCurrent', UpToDate(req[r])'
  PROVE  AloneInv'
BY DEF AloneInv

LEMMA IdleAlone ==
  ASSUME AuthInv, NEW r \in Requests, NEW x \in Request, req' = [req EXCEPT ![r] = x],
         x.at \notin {"login", "invite again", "resetting"}
  PROVE  UpToDate(req[r])'
<1>1. req'[r] = x
  BY DEF AuthInv, Typed
<1> QED
  BY <1>1 DEF UpToDate

LEMMA FinishAlone ==
  ASSUME AuthAssumption, AuthInv, NEW r \in Requests, Finish(r)
  PROVE  UpToDate(req[r])'
<1>1. Idle \in Request /\ Idle.at = "idle"
  BY IdleRow DEF Idle
<1>2. req' = [req EXCEPT ![r] = Idle]
  BY DEF Finish
<1> QED
  BY <1>1, <1>2, IdleAlone

LEMMA StepAlone ==
  ASSUME \A q, r \in Requests : q = r, AloneInv, NEW r \in Requests,
         account' = account, NoneIssued, UpToDate(req[r])'
  PROVE  AloneInv'
BY QuietAlone, OnlyOne DEF AloneInv

\* What is live after a token was issued.
LEMMA LiveAfterIssue ==
  ASSUME AuthAssumption, CanIssue, NEW tab \in [Tokens -> TokenRow],
         \A t \in Tokens : Kept(tokens[t], tab[t]),
         NEW type \in Types, NEW parent \in 0 .. MaxTokens, NEW pw \in Nat,
         tokens' = issueTokenRow(tab, type, parent, pw)
  PROVE  \A t \in Tokens : \A other \in Types : IsLive(t, other)' =>
           \/ IsLive(t, other) /\ tokens'[t].pw = tokens[t].pw
           \/ other = type /\ tokens'[t].pw = pw
<1>1. PICK n \in Tokens : /\ tokens'[n].type = type /\ tokens'[n].pw = pw
                          /\ \A t \in Tokens \ {n} : tokens'[t] = tab[t]
  BY IssuedOne
<1> QED
  BY <1>1 DEF IsLive, Kept

\* A link or a session is issued for the account as it is.
LEMMA IssueAlone ==
  ASSUME RowsCurrent, account' = account, NEW type \in {"password_reset", "refresh"}, NEW pw,
         type = "refresh" => pw = account.pw /\ account.st = "verified",
         \A t \in Tokens : \A other \in Types : IsLive(t, other)' =>
           \/ IsLive(t, other) /\ tokens'[t].pw = tokens[t].pw
           \/ other = type /\ tokens'[t].pw = pw
  PROVE  RowsCurrent'
<1>1. SessionsCurrent'
  BY DEF RowsCurrent, SessionsCurrent, Types
<1>2. InvitesCurrent'
  BY DEF RowsCurrent, InvitesCurrent, Types
<1>3. VerifiesAdmins'
  BY DEF RowsCurrent, VerifiesAdmins, Types
<1> QED
  BY <1>1, <1>2, <1>3 DEF RowsCurrent

LEMMA RegisterAlone ==
  ASSUME AuthAssumption, AuthInv, AloneInv, register
  PROVE  AloneInv'
<1>1. account.st = "absent" /\ account.kind = "none" /\ account'.st = "new"
      /\ account'.kind = "admin" /\ UNCHANGED req
  BY DEF register, insertTenantAndAdmin, Absent
<1>2. \A t \in Tokens : \A other \in Types :
        IsLive(t, other)' => IsLive(t, other) \/ other = "email_verification"
  <2>1. tokens \in [Tokens -> TokenRow] /\ \A t \in Tokens : Kept(tokens[t], tokens[t])
    BY DEF AuthInv, Typed, Kept
  <2>2. CanIssue /\ tokens' = issueTokenRow(tokens, "email_verification", 0, 0)
    BY DEF register
  <2>3. "email_verification" \in Types /\ 0 \in 0 .. MaxTokens /\ 0 \in Nat
    BY DEF Types, AuthAssumption
  <2> QED
    BY <2>1, <2>2, <2>3, LiveAfterIssue
<1>3. \A t \in Tokens : ~IsLive(t, "refresh")' /\ ~IsLive(t, "customer_invite")'
  BY <1>1, <1>2 DEF AloneInv, RowsCurrent, SessionsCurrent, InvitesCurrent, Types
<1>4. RowsCurrent'
  BY <1>1, <1>3 DEF RowsCurrent, SessionsCurrent, InvitesCurrent, VerifiesAdmins
<1>5. \A q \in Requests : UpToDate(req[q])'
  BY <1>1, <1>3 DEF AloneInv, UpToDate
<1> QED
  BY <1>4, <1>5 DEF AloneInv

LEMMA ForgotPasswordAlone ==
  ASSUME AuthAssumption, AuthInv, AloneInv, forgotPassword
  PROVE  AloneInv'
<1> DEFINE tab == revokeTokens(tokens, "password_reset")
<1>1. CanIssue /\ tokens' = issueTokenRow(tab, "password_reset", 0, 0)
      /\ UNCHANGED <<account, req>>
  BY DEF forgotPassword
<1>2. tab \in [Tokens -> TokenRow] /\ \A t \in Tokens : Kept(tokens[t], tab[t])
  BY RevokeTokensAges, RevokeTokensLeaves DEF AuthInv
<1> HIDE DEF tab
<1>3. "password_reset" \in Types /\ 0 \in 0 .. MaxTokens /\ 0 \in Nat
  BY DEF Types, AuthAssumption
<1>4. \A t \in Tokens : \A other \in Types : IsLive(t, other)' =>
        \/ IsLive(t, other) /\ tokens'[t].pw = tokens[t].pw
        \/ other = "password_reset" /\ tokens'[t].pw = 0
  BY <1>1, <1>2, <1>3, LiveAfterIssue
<1>5. RowsCurrent'
  BY <1>1, <1>4, IssueAlone DEF AloneInv
<1>6. \A t \in Tokens : IsLive(t, "refresh")' => IsLive(t, "refresh")
  BY <1>4 DEF Types
<1>7. \A q \in Requests : UpToDate(req[q])'
  BY <1>1, <1>6 DEF AloneInv, UpToDate
<1> QED
  BY <1>5, <1>7 DEF AloneInv

LEMMA RefreshAlone ==
  ASSUME AuthAssumption, \A p, q \in Requests : p = q, AuthInv, AloneInv,
         NEW r \in Requests, RefreshStep(r)
  PROVE  AloneInv'
<1> USE DEF At
<1>1. CASE rotateCommit(r)
  <2> DEFINE t == req[r].tok
             made == issueTokenRow(tokens, "refresh", t, tokens[t].pw)
  <2>1. req[r].at = "rotated" /\ CanIssue /\ Finish(r) /\ UNCHANGED account
        /\ tokens' = [made EXCEPT ![t].st = "used"]
    BY <1>1 DEF rotateCommit
  <2>2. t \in Tokens /\ IsLive(t, "refresh")
    BY <2>1, HeldType DEF Holds, IsLive
  <2>3. tokens[t].pw = account.pw /\ account.st = "verified"
    BY <2>2 DEF AloneInv, RowsCurrent, SessionsCurrent
  <2>4. tokens \in [Tokens -> TokenRow] /\ account.pw \in Nat
    BY DEF AuthInv, Typed, Accounts
  <2>5. \A u \in Tokens : made[u] = IF u = NewToken
          THEN [type |-> "refresh", st |-> "live", exp |-> FALSE, parent |-> t, pw |-> tokens[t].pw]
          ELSE tokens[u]
    BY <2>4 DEF issueTokenRow
  <2>6. \A u \in Tokens : IF u = t THEN tokens'[u].st = "used" ELSE tokens'[u] = made[u]
    <3>1. made[t] = tokens[t]
      <4>1. NewToken # t
        BY <2>1, <2>2, NewTokenIsFree DEF AuthAssumption, IsLive
      <4> QED
        BY <2>2, <2>5, <4>1
    <3>2. DOMAIN made = Tokens
      BY <2>4 DEF issueTokenRow
    <3>3. [tokens[t] EXCEPT !.st = "used"].st = "used"
      BY <2>2, <2>4 DEF TokenRow
    <3> HIDE DEF made
    <3> QED
      BY <2>1, <3>1, <3>2, <3>3
  <2> HIDE DEF made
  <2>7. \A u \in Tokens : \A other \in Types : IsLive(u, other)' =>
          \/ IsLive(u, other) /\ tokens'[u].pw = tokens[u].pw
          \/ other = "refresh" /\ tokens'[u].pw = account.pw
    BY <2>3, <2>5, <2>6 DEF IsLive
  <2>8. RowsCurrent'
    BY <2>1, <2>3, <2>7, IssueAlone DEF AloneInv
  <2> QED
    BY <2>1, <2>8, FinishAlone, OnlyOne
<1>2. CASE revokeCommit(r)
  <2>1. account' = account /\ NoneIssued
    BY <1>2, RevokedKeeps DEF revokeCommit, AuthInv, NoneIssued
  <2>2. [Idle EXCEPT !.at = "ended"] \in Request /\ [Idle EXCEPT !.at = "ended"].at = "ended"
    BY RowAt DEF Places
  <2>3. UpToDate(req[r])'
    BY <1>2, <2>2, IdleAlone DEF revokeCommit
  <2> QED
    BY <2>1, <2>3, StepAlone
<1>3. CASE rotateMark(r) \/ revokeBegin(r) \/ answerReused(r)
  <2>1. account' = account /\ NoneIssued
    BY <1>3 DEF rotateMark, revokeBegin, answerReused, NoneIssued, Kept
  <2>2. req'[r].at \in {"rotated", "ended", "revoking", "idle"}
    <3>1. [Idle EXCEPT !.at = "ended"].at = "ended" /\ Idle.at = "idle"
      BY DEF Idle
    <3>2. req \in [Requests -> Request] /\ req[r] \in Request
      BY DEF AuthInv, Typed
    <3>3. [req[r] EXCEPT !.at = "rotated"].at = "rotated"
          /\ [req[r] EXCEPT !.at = "revoking", !.set = Live("refresh")].at = "revoking"
      BY <3>2 DEF Request
    <3> QED
      BY <1>3, <3>1, <3>2, <3>3 DEF rotateMark, revokeBegin, answerReused, Finish
  <2>3. UpToDate(req[r])'
    BY <2>2 DEF UpToDate
  <2> QED
    BY <2>1, <2>3, StepAlone
<1> QED
  BY <1>1, <1>2, <1>3 DEF RefreshStep

LEMMA VerifyEmailAlone ==
  ASSUME AuthAssumption, \A p, q \in Requests : p = q, AuthInv, AloneInv,
         NEW r \in Requests, verifyEmail(r)
  PROVE  AloneInv'
<1> DEFINE t == req[r].tok
<1>1. /\ req[r].at = "email_verification" /\ tokens' = Revoked({t}) /\ Finish(r)
      /\ account' = IF Unused(t) THEN [account EXCEPT !.st = "verified"] ELSE account
  BY DEF verifyEmail, At
<1>2. NoneIssued /\ UpToDate(req[r])'
  BY <1>1, RevokedKeeps, FinishAlone DEF AuthInv, NoneIssued
<1>3. CASE ~Unused(t)
  BY <1>1, <1>2, <1>3, StepAlone
<1>4. CASE Unused(t)
  <2>1. t \in Tokens /\ IsLive(t, "email_verification")
    BY <1>1, <1>4, CarriedLink DEF LinkTypes, Types, Unused, IsLive
  <2>2. account.kind = "admin"
    BY <2>1 DEF AloneInv, RowsCurrent, VerifiesAdmins
  <2>3. account'.kind = "admin" /\ account'.st = "verified" /\ account'.pw = account.pw
    BY <1>1, <1>4, <2>2 DEF AuthInv, Typed, Accounts
  <2>4. \A u \in Tokens : \A type \in Types :
          IsLive(u, type)' => IsLive(u, type) /\ tokens'[u].pw = tokens[u].pw
    BY <1>2 DEF NoneIssued, Kept, IsLive
  <2>5. SessionsCurrent' /\ VerifiesAdmins'
    BY <2>3, <2>4 DEF AloneInv, RowsCurrent, SessionsCurrent, VerifiesAdmins, Types
  <2>6. \A u \in Tokens : ~IsLive(u, "customer_invite")'
    BY <2>2, <2>4 DEF AloneInv, RowsCurrent, InvitesCurrent, Types
  <2>7. InvitesCurrent'
    BY <2>6 DEF InvitesCurrent
  <2> QED
    BY <1>2, <2>5, <2>7, OnlyOne DEF RowsCurrent
<1> QED
  BY <1>3, <1>4

\* The password changes only when no session is left that has the old one.
LEMMA PasswordAlone ==
  ASSUME RowsCurrent, NoneIssued, account'.kind = account.kind,
         account'.st \in {account.st, "verified"},
         \A t \in Tokens : ~IsLive(t, "refresh")',
         account'.st = account.st \/ \A t \in Tokens : ~IsLive(t, "customer_invite")'
  PROVE  RowsCurrent'
<1>1. \A t \in Tokens : \A type \in Types : IsLive(t, type)' => IsLive(t, type)
  BY DEF NoneIssued, Kept, IsLive
<1>2. SessionsCurrent'
  BY DEF SessionsCurrent
<1>3. InvitesCurrent'
  BY <1>1 DEF RowsCurrent, InvitesCurrent, Types
<1>4. VerifiesAdmins'
  BY <1>1 DEF RowsCurrent, VerifiesAdmins, Types
<1> QED
  BY <1>2, <1>3, <1>4 DEF RowsCurrent

LEMMA AcceptAlone ==
  ASSUME AuthAssumption, \A p, q \in Requests : p = q, AuthInv, AloneInv,
         NEW r \in Requests, acceptCustomerInvite(r)
  PROVE  AloneInv'
<1> DEFINE t == req[r].tok
<1>1. req[r].at = "customer_invite" /\ Finish(r)
      /\ IF Unused(t)
         THEN /\ tokens' = Revoked({t})
              /\ account' = [account EXCEPT !.st = "verified", !.pw = @ + 1]
         ELSE UNCHANGED <<tokens, account>>
  BY DEF acceptCustomerInvite, At
<1>2. NoneIssued /\ UpToDate(req[r])'
  BY <1>1, RevokedKeeps, FinishAlone DEF AuthInv, NoneIssued, Kept
<1>3. CASE ~Unused(t)
  BY <1>1, <1>2, <1>3, StepAlone
<1>4. CASE Unused(t)
  <2>1. t \in Tokens /\ IsLive(t, "customer_invite")
    BY <1>1, <1>4, CarriedLink DEF LinkTypes, Types, Unused, IsLive
  <2>2. account.st = "new" /\ \A u \in Tokens : IsLive(u, "customer_invite") => u = t
    BY <2>1 DEF AloneInv, RowsCurrent, InvitesCurrent
  <2>3. account'.kind = account.kind /\ account'.st = "verified"
    BY <1>1, <1>4 DEF AuthInv, Typed, Accounts
  <2>4. \A u \in Tokens : \A type \in Types : IsLive(u, type)' => IsLive(u, type)
    BY <1>2 DEF NoneIssued, Kept, IsLive
  <2>5. \A u \in Tokens : ~IsLive(u, "refresh")'
    BY <2>2, <2>4 DEF AloneInv, RowsCurrent, SessionsCurrent, Types
  <2>6. tokens'[t].st = "used"
    BY <1>1, <1>4, <2>1, RevokedAges DEF AuthInv, IsLive
  <2>7. \A u \in Tokens : ~IsLive(u, "customer_invite")'
    BY <2>2, <2>4, <2>6 DEF Types, IsLive
  <2>8. RowsCurrent'
    BY <1>2, <2>3, <2>5, <2>7, PasswordAlone DEF AloneInv
  <2> QED
    BY <1>2, <2>8, OnlyOne
<1> QED
  BY <1>3, <1>4

LEMMA ResetBeginAlone ==
  ASSUME AuthAssumption, \A p, q \in Requests : p = q, AuthInv, AloneInv,
         NEW r \in Requests, resetBegin(r)
  PROVE  AloneInv'
<1>1. account' = account /\ tokens' = tokens /\ NoneIssued
  BY DEF resetBegin, NoneIssued, Kept
<1>2. CASE ~Unused(req[r].tok)
  <2>1. Finish(r)
    BY <1>2 DEF resetBegin, Finish
  <2> QED
    BY <1>1, <2>1, FinishAlone, StepAlone
<1>3. CASE Unused(req[r].tok)
  <2>1. req[r] \in Request /\ req \in [Requests -> Request]
    BY DEF AuthInv, Typed
  <2>2. req' = [req EXCEPT ![r].at = "resetting", ![r].set = Live("refresh")]
    BY <1>3 DEF resetBegin
  <2>3. req'[r].at = "resetting" /\ req'[r].set = Live("refresh")
    BY <2>1, <2>2 DEF Request
  <2>4. UpToDate(req[r])'
    BY <1>1, <2>3 DEF UpToDate, IsLive, Live
  <2> QED
    BY <1>1, <2>4, StepAlone
<1> QED
  BY <1>2, <1>3

LEMMA ResetCommitAlone ==
  ASSUME AuthAssumption, \A p, q \in Requests : p = q, AuthInv, AloneInv,
         NEW r \in Requests, resetCommit(r)
  PROVE  AloneInv'
<1> DEFINE S == {req[r].tok} \cup req[r].set \cup Live("password_reset")
<1>1. req[r].at = "resetting" /\ Finish(r) /\ tokens' = Revoked(S)
      /\ account' = [account EXCEPT !.pw = @ + 1]
  BY DEF resetCommit, At
<1>2. \A t \in Tokens : IsLive(t, "refresh") => t \in S
  BY <1>1 DEF AloneInv, UpToDate
<1> HIDE DEF S
<1>3. NoneIssued /\ UpToDate(req[r])'
  BY <1>1, RevokedKeeps, FinishAlone DEF AuthInv, NoneIssued
<1>4. account'.kind = account.kind /\ account'.st = account.st
  BY <1>1 DEF AuthInv, Typed, Accounts
<1>5. \A t \in Tokens : ~IsLive(t, "refresh")'
  <2> SUFFICES ASSUME NEW t \in Tokens, IsLive(t, "refresh")' PROVE FALSE
    OBVIOUS
  <2>1. IsLive(t, "refresh")
    BY <1>3 DEF NoneIssued, Kept, IsLive
  <2>2. tokens'[t].st = "used"
    BY <1>1, <1>2, <2>1, RevokedAges DEF AuthInv, IsLive
  <2> QED
    BY <2>2 DEF IsLive
<1>6. RowsCurrent'
  BY <1>3, <1>4, <1>5, PasswordAlone DEF AloneInv
<1> QED
  BY <1>3, <1>6, OnlyOne

LEMMA InviteAlone ==
  ASSUME AuthAssumption, \A p, q \in Requests : p = q, AuthInv, AloneInv,
         NEW r \in Requests, InviteStep(r)
  PROVE  AloneInv'
<1>0. tokens \in [Tokens -> TokenRow] /\ req \in [Requests -> Request] /\ req[r] \in Request
      /\ "customer_invite" \in Types /\ 0 \in 0 .. MaxTokens /\ 0 \in Nat
      /\ \A t \in Tokens : Kept(tokens[t], tokens[t])
  BY DEF AuthInv, Typed, Types, AuthAssumption, Kept
<1>1. CASE inviteFind(r)
  <2>1. account' = account /\ NoneIssued
    BY <1>1 DEF inviteFind, NoneIssued, Kept
  <2>2. req'[r].at = IF account = Absent THEN "invite" ELSE "invite again"
    BY <1>0, <1>1 DEF inviteFind, Request
  <2>3. account # Absent => account.kind = "customer" /\ account.st = "new"
    BY <1>1 DEF inviteFind
  <2>4. UpToDate(req[r])'
    BY <2>1, <2>2, <2>3 DEF UpToDate
  <2> QED
    BY <2>1, <2>4, StepAlone
<1>2. CASE inviteNew(r) /\ ~(account = Absent /\ CanIssue)
  <2>1. account' = account /\ NoneIssued /\ Finish(r)
    BY <1>0, <1>2 DEF inviteNew, NoneIssued
  <2> QED
    BY <2>1, FinishAlone, StepAlone
<1>3. CASE inviteNew(r) /\ account = Absent /\ CanIssue
  <2>1. account' = [st |-> "new", kind |-> "customer", pw |-> 1] /\ Finish(r)
        /\ tokens' = issueTokenRow(tokens, "customer_invite", 0, 0)
    BY <1>3 DEF inviteNew, insertCustomerInviteUser
  <2>2. account.st = "absent" /\ account.kind = "none"
        /\ account'.st = "new" /\ account'.kind = "customer"
    BY <1>3, <2>1 DEF Absent
  <2>3. PICK n \in Tokens : \A t \in Tokens \ {n} : tokens'[t] = tokens[t]
    BY <1>0, <1>3, <2>1, IssuedOne
  <2>4. \A t \in Tokens : \A other \in Types : IsLive(t, other)' =>
          IsLive(t, other) \/ other = "customer_invite"
    BY <1>0, <1>3, <2>1, LiveAfterIssue
  <2>5. \A t \in Tokens : /\ ~IsLive(t, "refresh")' /\ ~IsLive(t, "email_verification")'
                          /\ ~IsLive(t, "customer_invite")
    BY <2>2, <2>4 DEF AloneInv, RowsCurrent, SessionsCurrent, InvitesCurrent, VerifiesAdmins,
                      Types
  <2>6. SessionsCurrent' /\ VerifiesAdmins'
    BY <2>5 DEF SessionsCurrent, VerifiesAdmins
  <2>7. \A t \in Tokens : IsLive(t, "customer_invite")' => t = n
    BY <2>3, <2>5 DEF IsLive
  <2>8. InvitesCurrent'
    BY <2>2, <2>7 DEF InvitesCurrent
  <2>9. UpToDate(req[r])'
    BY <2>1, FinishAlone
  <2> QED
    BY <2>6, <2>8, <2>9, OnlyOne DEF RowsCurrent
<1>4. CASE inviteAgain(r)
  <2> DEFINE tab == revokeTokens(tokens, "customer_invite")
  <2>1. account' = account /\ CanIssue /\ req[r].at = "invite again" /\ Finish(r)
        /\ tokens' = issueTokenRow(tab, "customer_invite", 0, 0)
    BY <1>4 DEF inviteAgain, At
  <2>2. tab \in [Tokens -> TokenRow]
        /\ \A t \in Tokens : /\ Kept(tokens[t], tab[t])
                             /\ tab[t].st = "live" => tab[t].type # "customer_invite"
    BY RevokeTokensAges, RevokeTokensLeaves DEF AuthInv
  <2> HIDE DEF tab
  <2>3. PICK n \in Tokens : \A t \in Tokens \ {n} : tokens'[t] = tab[t]
    <3>1. /\ CanIssue /\ tab \in [Tokens -> TokenRow]
          /\ tokens' = issueTokenRow(tab, "customer_invite", 0, 0)
          /\ "customer_invite" \in Types /\ 0 \in 0 .. MaxTokens /\ 0 \in Nat
      BY <1>0, <2>1, <2>2
    <3>2. \E n \in Tokens : /\ tokens'[n].type = "customer_invite" /\ tokens'[n].pw = 0
                            /\ \A t \in Tokens \ {n} : tokens'[t] = tab[t]
      BY <3>1, IssuedOne
    <3> QED
      BY <3>2
  <2>4. \A t \in Tokens : \A other \in Types : IsLive(t, other)' =>
          \/ IsLive(t, other) /\ tokens'[t].pw = tokens[t].pw
          \/ other = "customer_invite" /\ tokens'[t].pw = 0
    BY <1>0, <2>1, <2>2, LiveAfterIssue
  <2>5. SessionsCurrent' /\ VerifiesAdmins'
    BY <2>1, <2>4 DEF AloneInv, RowsCurrent, SessionsCurrent, VerifiesAdmins, Types
  <2>6. \A t \in Tokens : IsLive(t, "customer_invite")' => t = n
    BY <2>2, <2>3 DEF IsLive
  <2>7. account.kind = "customer" /\ account.st = "new"
    BY <2>1 DEF AloneInv, UpToDate
  <2>8. InvitesCurrent'
    BY <2>1, <2>6, <2>7 DEF InvitesCurrent
  <2>9. UpToDate(req[r])'
    BY <2>1, FinishAlone
  <2> QED
    BY <2>5, <2>8, <2>9, OnlyOne DEF RowsCurrent
<1> QED
  BY <1>1, <1>2, <1>3, <1>4 DEF InviteStep

LEMMA LoginAlone ==
  ASSUME AuthAssumption, \A p, q \in Requests : p = q, AuthInv, AloneInv,
         NEW r \in Requests, LoginStep(r)
  PROVE  AloneInv'
<1>0. tokens \in [Tokens -> TokenRow] /\ req \in [Requests -> Request] /\ req[r] \in Request
      /\ account.pw \in Nat /\ "refresh" \in Types /\ 0 \in 0 .. MaxTokens
      /\ \A t \in Tokens : Kept(tokens[t], tokens[t])
  BY DEF AuthInv, Typed, Accounts, Types, AuthAssumption, Kept
<1>1. CASE loginVerify(r)
  <2>1. account' = account /\ NoneIssued /\ account.st = "verified"
        /\ req' = [req EXCEPT ![r] = [Idle EXCEPT !.at = "login", !.pw = account.pw]]
    BY <1>0, <1>1 DEF loginVerify, NoneIssued
  <2>2. LET x == [Idle EXCEPT !.at = "login", !.pw = account.pw]
        IN  x.at = "login" /\ x.pw = account.pw
    BY DEF Idle
  <2>3. req'[r].at = "login" /\ req'[r].pw = account.pw
    BY <1>0, <2>1, <2>2
  <2>4. UpToDate(req[r])'
    BY <2>1, <2>3 DEF UpToDate
  <2> QED
    BY <2>1, <2>4, StepAlone
<1>2. CASE loginIssue(r)
  <2>1. CanIssue /\ account' = account /\ Finish(r) /\ req[r].at = "login"
        /\ tokens' = issueTokenRow(tokens, "refresh", 0, req[r].pw)
    BY <1>2 DEF loginIssue, At
  <2>2. req[r].pw = account.pw /\ account.st = "verified"
    BY <2>1 DEF AloneInv, UpToDate
  <2>3. \A t \in Tokens : \A other \in Types : IsLive(t, other)' =>
          \/ IsLive(t, other) /\ tokens'[t].pw = tokens[t].pw
          \/ other = "refresh" /\ tokens'[t].pw = account.pw
    BY <1>0, <2>1, <2>2, LiveAfterIssue
  <2>4. RowsCurrent'
    BY <2>1, <2>2, <2>3, IssueAlone DEF AloneInv
  <2> QED
    BY <2>1, <2>4, FinishAlone, OnlyOne
<1>3. CASE guess(r)
  <2>1. account' = account /\ NoneIssued
    BY <1>0, <1>3 DEF guess, NoneIssued
  <2>2. req'[r].at = "guess"
    BY <1>0, <1>3 DEF guess, Request
  <2>3. UpToDate(req[r])'
    BY <2>2 DEF UpToDate
  <2> QED
    BY <2>1, <2>3, StepAlone
<1>4. CASE recordLoginFailure(r)
  <2>1. account' = account /\ NoneIssued /\ Finish(r)
    BY <1>0, <1>4 DEF recordLoginFailure, NoneIssued
  <2> QED
    BY <2>1, FinishAlone, StepAlone
<1> QED
  BY <1>1, <1>2, <1>3, <1>4 DEF LoginStep

LEMMA ReadAlone ==
  ASSUME AuthAssumption, \A p, q \in Requests : p = q, AuthInv, AloneInv,
         NEW r \in Requests, NEW t \in Tokens,
         linkFind(r, t) \/ refreshFind(r, t) \/ logout(r, t)
  PROVE  AloneInv'
<1>1. CASE linkFind(r, t) \/ refreshFind(r, t)
  <2>1. account' = account /\ NoneIssued
    BY <1>1 DEF linkFind, refreshFind, NoneIssued, Kept
  <2>2. t \in 0 .. MaxTokens
    BY DEF Tokens, AuthAssumption
  <2>3. \A at \in Types \cup {"rotate"} :
          LET x == [Idle EXCEPT !.at = at, !.tok = t] IN x.at = at
    BY DEF Idle
  <2>4. [Idle EXCEPT !.at = "reuse"].at = "reuse"
    BY DEF Idle
  <2>5. req \in [Requests -> Request]
    BY DEF AuthInv, Typed
  <2>6. CASE linkFind(r, t)
    <3>1. tokens[t].type \in Types
          /\ req' = [req EXCEPT ![r] = [Idle EXCEPT !.at = tokens[t].type, !.tok = t]]
      BY <2>6 DEF linkFind
    <3>2. req'[r].at \in Types
      BY <2>3, <2>5, <3>1
    <3>3. UpToDate(req[r])'
      BY <3>2 DEF UpToDate, Types
    <3> QED
      BY <2>1, <3>3, StepAlone
  <2>7. CASE refreshFind(r, t)
    <3>1. req'[r].at \in {"reuse", "rotate"}
      BY <2>3, <2>4, <2>5, <2>7 DEF refreshFind
    <3>2. UpToDate(req[r])'
      BY <3>1 DEF UpToDate
    <3> QED
      BY <2>1, <3>2, StepAlone
  <2> QED
    BY <1>1, <2>6, <2>7
<1>2. CASE logout(r, t)
  <2>1. account' = account /\ req' = req /\ NoneIssued /\ req[r].at = "idle"
    BY <1>2, RevokedKeeps DEF logout, At, AuthInv, NoneIssued
  <2>2. UpToDate(req[r])'
    BY <2>1 DEF UpToDate
  <2> QED
    BY <2>1, <2>2, StepAlone
<1> QED
  BY <1>1, <1>2

LEMMA TimeAlone ==
  ASSUME AuthInv, AloneInv, UNCHANGED <<account, req>>, NoneIssued
  PROVE  AloneInv'
<1>1. RowsCurrent'
  BY QuietAlone DEF AloneInv
<1>2. \A t \in Tokens : IsLive(t, "refresh")' => IsLive(t, "refresh")
  BY DEF NoneIssued, Kept, IsLive
<1>3. \A q \in Requests : UpToDate(req[q])'
  BY <1>2 DEF AloneInv, UpToDate
<1> QED
  BY <1>1, <1>3 DEF AloneInv

LEMMA AgeAlone ==
  ASSUME AuthInv, AloneInv, NEW t \in Tokens, tokenExpires(t) \/ cleanupExpiredUserTokens(t)
  PROVE  AloneInv'
<1>1. UNCHANGED <<account, req>>
  BY DEF tokenExpires, cleanupExpiredUserTokens
<1>2. tokens \in [Tokens -> TokenRow] /\ tokens[t] \in TokenRow
  BY DEF AuthInv, Typed
<1>3. LET x == [tokens[t] EXCEPT !.exp = TRUE]
      IN  x.st = tokens[t].st /\ x.type = tokens[t].type /\ x.pw = tokens[t].pw
  BY <1>2 DEF TokenRow
<1>4. [tokens[t] EXCEPT !.st = "gone"].st = "gone"
  BY <1>2 DEF TokenRow
<1>5. NoneIssued
  BY <1>2, <1>3, <1>4 DEF tokenExpires, cleanupExpiredUserTokens, NoneIssued, Kept
<1> QED
  BY <1>1, <1>5, TimeAlone

LEMMA AloneStep ==
  ASSUME AuthAssumption, \A p, q \in Requests : p = q, AuthInv, AloneInv, [Next]_vars
  PROVE  AloneInv'
<1>1. CASE lockoutExpires \/ UNCHANGED vars
  <2>1. UNCHANGED <<account, req>> /\ NoneIssued
    BY <1>1 DEF lockoutExpires, vars, NoneIssued, Kept
  <2> QED
    BY <2>1, TimeAlone
<1>2. ASSUME NEW r \in Requests, LinkStep(r) PROVE AloneInv'
  BY <1>2, VerifyEmailAlone, AcceptAlone, ResetBeginAlone, ResetCommitAlone DEF LinkStep
<1> QED
  BY <1>1, <1>2, RegisterAlone, ForgotPasswordAlone, RefreshAlone, InviteAlone, LoginAlone,
     ReadAlone, AgeAlone DEF Next

(***************************************************************************)
(* Where requests come one at a time, a new password ends every session,   *)
(* and a customer who has accepted has no invitation left open             *)
(* (auth/services.ts, resetPassword and acceptCustomerInvite).  Requests   *)
(* side by side break both: what is being issued meanwhile survives.       *)
(***************************************************************************)
THEOREM NoWayBackInHolds ==
  ASSUME AuthAssumption, \A p, q \in Requests : p = q
  PROVE  Spec => [](ResetEndsSessions /\ InviteClosed)
<1>1. Init => AuthInv /\ AloneInv
  <2>1. Init => AuthInv
    BY AuthInit
  <2>2. ASSUME Init PROVE AloneInv
    <3>1. \A t \in Tokens : tokens[t].st = "free"
      BY <2>2 DEF Init, Free
    <3>2. \A r \in Requests : req[r].at = "idle"
      BY <2>2 DEF Init, Idle
    <3> QED
      BY <3>1, <3>2 DEF AloneInv, RowsCurrent, SessionsCurrent, InvitesCurrent,
                        VerifiesAdmins, UpToDate, IsLive
  <2> QED
    BY <2>1, <2>2
<1>2. (AuthInv /\ AloneInv) /\ [Next]_vars => (AuthInv /\ AloneInv)'
  BY AuthStep, AloneStep
<1>3. AloneInv => ResetEndsSessions /\ InviteClosed
  BY DEF AloneInv, RowsCurrent, SessionsCurrent, InvitesCurrent, IsLive, ResetEndsSessions,
         InviteClosed, Live
<1> QED
  BY <1>1, <1>2, <1>3, PTL DEF Spec

-----------------------------------------------------------------------------
(* BankID: types.                                                          *)

PageRow == [view : {"starting", "pending", "failed", "in", "no_company"},
            init : {"none", "expire", "order"}, order : Orders \cup {NULL}, timer : BOOLEAN]
PollRow == [pc : {"idle", "collect", "lookup", "status", "sync", "issue", "answered"},
            order : Orders \cup {NULL}, cancelled : BOOLEAN, matches : SUBSET Tenants,
            answer : {NULL, "pending", "failed", "complete", "no_company"}]

BankIdTyped ==
  /\ customers \subseteq Tenants /\ active \subseteq Tenants
  /\ orders \in [Orders -> {"none", "open", "signed", "cancelled", "completed", "gone"}]
  /\ pages \in [Pages -> PageRow]
  /\ polls \in [Pages -> [Polls -> PollRow]]
  /\ links \in Seq(Tenants)
  /\ collectFaults \in Nat

\* A page that is not waiting for a signature has no poll under way, and the
\* poll that is under way asks about the page's own order.
PollFits(g, p) ==
  LET page == pages[g]
      poll == polls[g][p]
  IN /\ page.view = "starting" => page.order = NULL
     /\ page.init # "none" => page.view = "starting"
     /\ page.view = "pending" => page.order # NULL
     /\ poll.pc # "idle" =>
          page.view = "pending" /\ poll.order = page.order /\ ~poll.cancelled

\* The result of an order is with the poll that collected it, on its way to the page.
ResultIsComing(g, p) ==
  pages[g].order # NULL /\ orders[pages[g].order] = "completed" =>
    \/ pages[g].view \in {"in", "no_company"}
    \/ polls[g][p].pc \in {"lookup", "status", "sync", "issue"}
    \/ polls[g][p].pc = "answered" /\ polls[g][p].answer \in {"complete", "no_company"}

\* When a session is about to be issued, the links are those of this login.
LinksAreFound(g, p) == polls[g][p].pc = "issue" => ToSet(links) \subseteq polls[g][p].matches

BankIdInv ==
  /\ BankIdTyped
  /\ \A g \in Pages, p \in Polls : PollFits(g, p) /\ ResultIsComing(g, p) /\ LinksAreFound(g, p)
  /\ OwnLookup

-----------------------------------------------------------------------------
(* BankID: every action.  One page, one poll at a time, and no call fails. *)

LinksTyped(s, found) == s \in Seq(Tenants) /\ ToSet(s) = found

\* However the rows of a set of companies are ordered, they are the rows of that set.
LEMMA OrderingsList ==
  ASSUME IsFiniteSet(Tenants), NEW found \in SUBSET Tenants, NEW s \in Orderings(found)
  PROVE  LinksTyped(s, found)
<1>1. Cardinality(found) \in Nat
  BY FS_Subset, FS_CardinalityType
<1>2. s \in [1..Cardinality(found) -> Tenants] /\ ToSet(s) = found
  BY DEF Orderings
<1> QED
  BY <1>1, <1>2 DEF LinksTyped

LEMMA LinksSet ==
  ASSUME BankIdTyped
  PROVE  ToSet(links) \in SUBSET Tenants /\ (links # <<>> => links[1] \in ToSet(links))
BY DEF BankIdTyped, ToSet

\* The steps of the world around, of Redis, and of a page that starts.
LEMMA BankIdOutside ==
  ASSUME BankIdInv,
         \/ \E t \in Tenants : billingChanges(t)
         \/ \E o \in Orders : signerActs(o) \/ orderExpires(o)
         \/ rateWindowEnds
  PROVE  BankIdInv'
<1>1. CASE \E t \in Tenants : billingChanges(t)
  BY <1>1 DEF billingChanges, BankIdInv, BankIdTyped, PollFits, ResultIsComing, LinksAreFound,
              OwnLookup
<1>2. ASSUME NEW o \in Orders, signerActs(o) PROVE BankIdInv'
  <2>1. /\ orders'\in [Orders -> {"none", "open", "signed", "cancelled", "completed", "gone"}]
        /\ \A q \in Orders : orders'[q] = "completed" => orders[q] = "completed"
    BY <1>2 DEF signerActs, BankIdInv, BankIdTyped
  <2> QED
    BY <1>2, <2>1 DEF signerActs, env, BankIdInv, BankIdTyped, PollFits, ResultIsComing,
                      LinksAreFound, OwnLookup, PageRow
<1>3. ASSUME NEW o \in Orders, orderExpires(o) PROVE BankIdInv'
  <2>1. /\ orders'\in [Orders -> {"none", "open", "signed", "cancelled", "completed", "gone"}]
        /\ \A q \in Orders : orders'[q] = "completed" => orders[q] = "completed"
    BY <1>3 DEF orderExpires, BankIdInv, BankIdTyped
  <2> QED
    BY <1>3, <2>1 DEF orderExpires, env, BankIdInv, BankIdTyped, PollFits, ResultIsComing,
                      LinksAreFound, OwnLookup, PageRow
<1>4. CASE rateWindowEnds
  BY <1>4 DEF rateWindowEnds, env, BankIdInv, BankIdTyped, PollFits, ResultIsComing,
              LinksAreFound, OwnLookup
<1> QED
  BY <1>1, <1>2, <1>3, <1>4

LEMMA BankIdStart ==
  ASSUME BankIdAssumption, BankIdInv, NEW g \in Pages, \A h \in Pages : h = g,
         InitStep(g) \/ initCrash(g) \/ startAgain(g)
  PROVE  BankIdInv'
<1> USE DEF BankIdInv, BankIdTyped
<1>1. CASE initIncr(g)
  <2>1. /\ pages' \in [Pages -> PageRow]
        /\ pages[g].view = "starting"
        /\ pages'[g].view \in {"starting", "failed"} /\ pages'[g].order = pages[g].order
        /\ pages'[g].view = "failed" => pages'[g].init = "none"
    BY <1>1 DEF initIncr, PageRow
  <2> QED
    BY <1>1, <2>1 DEF initIncr, env, PollFits, ResultIsComing, LinksAreFound, OwnLookup, PageRow
<1>2. CASE initExpire(g)
  <2>1. /\ pages' \in [Pages -> PageRow]
        /\ pages[g].init # "none"
        /\ pages'[g].view = pages[g].view /\ pages'[g].order = pages[g].order
    BY <1>2 DEF initExpire, PageRow
  <2> QED
    BY <1>2, <2>1 DEF initExpire, env, PollFits, ResultIsComing, LinksAreFound, OwnLookup, PageRow
<1>3. CASE initOrder(g)
  <2>1. PICK o \in Orders :
          /\ pages[g].init = "order" /\ orders[o] = "none"
          /\ orders' = [orders EXCEPT ![o] = "open"]
          /\ pages' = [pages EXCEPT ![g] =
               [view |-> "pending", init |-> "none", order |-> o, timer |-> TRUE]]
          /\ UNCHANGED <<env, rate, ttl, polls, links, sessions, collectFaults, crashes>>
    BY <1>3 DEF initOrder
  <2>2. o # NULL
    BY DEF BankIdAssumption, Orders
  <2>3. pages' \in [Pages -> PageRow] /\ pages'[g].view = "pending" /\ pages'[g].init = "none"
        /\ pages'[g].order = o
    BY <2>1 DEF PageRow
  <2>4. /\ orders'\in [Orders -> {"none", "open", "signed", "cancelled", "completed", "gone"}]
        /\ orders'[o] = "open"
    BY <2>1
  <2> QED
    BY <2>1, <2>2, <2>3, <2>4 DEF env, PollFits, ResultIsComing, LinksAreFound, OwnLookup, PageRow
<1>4. CASE initCrash(g)
  <2>1. /\ pages' \in [Pages -> PageRow]
        /\ pages[g].init # "none"
        /\ pages'[g].view = "failed" /\ pages'[g].order = pages[g].order
        /\ pages'[g].init = "none"
    BY <1>4 DEF initCrash, PageRow
  <2> QED
    BY <1>4, <2>1 DEF initCrash, env, PollFits, ResultIsComing, LinksAreFound, OwnLookup, PageRow
<1>5. CASE startAgain(g)
  <2>1. /\ pages' \in [Pages -> PageRow]
        /\ pages[g].view # "pending"
        /\ pages'[g].view = "starting" /\ pages'[g].order = NULL
        /\ pages'[g].init = "none"
    BY <1>5 DEF startAgain, PageRow
  <2> QED
    BY <1>5, <2>1 DEF startAgain, env, PollFits, ResultIsComing, LinksAreFound, OwnLookup, PageRow
<1> QED
  BY <1>1, <1>2, <1>3, <1>4, <1>5 DEF InitStep

\* What the person does next to the poll: changing company.
LEMMA BankIdSwitch ==
  ASSUME IsFiniteSet(Tenants), BankIdInv, NEW g \in Pages, \A h \in Pages : h = g,
         NEW t \in Tenants, switchCompany(g, t)
  PROVE  BankIdInv'
<1>1. LinksTyped(links', ToSet(links))
  BY LinksSet, OrderingsList DEF switchCompany, Touched, BankIdInv
<1>2. OwnLookup'
  BY DEF switchCompany, BankIdInv, OwnLookup
<1> QED
  BY <1>1, <1>2 DEF switchCompany, env, BankIdInv, BankIdTyped, LinksTyped, PollFits,
                    ResultIsComing, LinksAreFound

\* What a step does to the row of the one poll.
LEMMA PollChanges ==
  ASSUME BankIdTyped, NEW g \in Pages, NEW p \in Polls, NEW row \in PollRow,
         polls' = [polls EXCEPT ![g][p] = row]
  PROVE  polls' \in [Pages -> [Polls -> PollRow]] /\ polls'[g][p] = row
BY DEF BankIdTyped

\* A step in which only the one poll moves on keeps the invariant, if its new
\* row does.
LEMMA PollMoves ==
  ASSUME BankIdInv, NEW g \in Pages, \A h \in Pages : h = g,
         NEW p \in Polls, \A q \in Polls : q = p, NEW row \in PollRow,
         polls' = [polls EXCEPT ![g][p] = row],
         pages[g].view = "pending", row.order = pages[g].order, ~row.cancelled,
         orders' \in [Orders -> {"none", "open", "signed", "cancelled", "completed", "gone"}],
         orders'[pages[g].order] = "completed" =>
           \/ row.pc \in {"lookup", "status", "sync", "issue"}
           \/ row.pc = "answered" /\ row.answer \in {"complete", "no_company"},
         LinksTyped(links', ToSet(links')),
         row.pc = "issue" => ToSet(links') \subseteq row.matches,
         OwnLookup', UNCHANGED <<env, pages, collectFaults>>
  PROVE  BankIdInv'
<1>1. polls' \in [Pages -> [Polls -> PollRow]] /\ polls'[g][p] = row
  BY PollChanges DEF BankIdInv
<1>2. BankIdTyped'
  BY <1>1 DEF BankIdInv, BankIdTyped, LinksTyped, env
<1>3. PollFits(g, p)'
  BY <1>1 DEF BankIdInv, PollFits
<1>4. ResultIsComing(g, p)'
  BY <1>1 DEF ResultIsComing
<1>5. LinksAreFound(g, p)'
  BY <1>1 DEF LinksAreFound
<1> QED
  BY <1>2, <1>3, <1>4, <1>5 DEF BankIdInv

\* The row of a poll that is under way, and its page.
LEMMA PollUnderWay ==
  ASSUME BankIdInv, NEW g \in Pages, NEW p \in Polls, polls[g][p].pc # "idle"
  PROVE  /\ polls[g][p] \in PollRow /\ pages[g] \in PageRow
         /\ pages[g].view = "pending" /\ polls[g][p].order = pages[g].order
         /\ ~polls[g][p].cancelled /\ pages[g].order \in Orders
         /\ LinksTyped(links, ToSet(links))
BY DEF BankIdInv, BankIdTyped, PollFits, PageRow, LinksTyped

LEMMA BankIdSend ==
  ASSUME BankIdInv, NEW g \in Pages, \A h \in Pages : h = g,
         NEW p \in Polls, \A q \in Polls : q = p, sendPoll(g, p)
  PROVE  BankIdInv'
<1> DEFINE row == [NoPoll EXCEPT !.pc = "collect", !.order = pages[g].order]
<1>1. /\ row \in PollRow /\ row.pc = "collect" /\ row.order = pages[g].order /\ ~row.cancelled
      /\ polls' = [polls EXCEPT ![g][p] = row]
  BY DEF NoPoll, PollRow, PageRow, BankIdInv, BankIdTyped, sendPoll
<1> HIDE DEF row
<1>2. orders[pages[g].order] # "completed"
  BY DEF BankIdInv, PollFits, ResultIsComing, sendPoll
<1>3. LinksTyped(links, ToSet(links)) /\ OwnLookup
  BY DEF BankIdInv, BankIdTyped, LinksTyped
<1>4. UNCHANGED <<links, sessions, orders, env, pages, collectFaults>> /\ pages[g].view = "pending"
  BY DEF sendPoll
<1>5. LinksTyped(links', ToSet(links')) /\ OwnLookup'
  BY <1>3, <1>4 DEF OwnLookup
<1>6. orders' \in [Orders -> {"none", "open", "signed", "cancelled", "completed", "gone"}]
  BY <1>4 DEF BankIdInv, BankIdTyped
<1> QED
  BY <1>1, <1>2, <1>4, <1>5, <1>6, PollMoves

\* The provider's answers, and the one result.
LEMMA BankIdCollect ==
  ASSUME BankIdInv, NEW g \in Pages, \A h \in Pages : h = g,
         NEW p \in Polls, \A q \in Polls : q = p, providerCollect(g, p) \/ collectSigned(g, p)
  PROVE  BankIdInv'
<1> DEFINE o == polls[g][p].order
<1>0. polls[g][p].pc = "collect"
  BY DEF providerCollect, collectSigned
<1>1. /\ polls[g][p] \in PollRow /\ pages[g].view = "pending" /\ o = pages[g].order
      /\ ~polls[g][p].cancelled /\ o \in Orders /\ LinksTyped(links, ToSet(links))
  BY <1>0, PollUnderWay
<1>2. UNCHANGED <<links, sessions, env, pages, collectFaults>>
  BY DEF providerCollect, collectSigned
<1>3. LinksTyped(links', ToSet(links')) /\ OwnLookup'
  BY <1>1, <1>2 DEF OwnLookup, BankIdInv
<1>4. orders[o] # "completed"
  BY <1>0, <1>1 DEF BankIdInv, PollFits, ResultIsComing
<1>5. CASE providerCollect(g, p)
  <2> DEFINE row == [polls[g][p] EXCEPT !.pc = "answered", !.answer = providerStatus(o)]
  <2>1. polls' = [polls EXCEPT ![g][p] = row]
    BY <1>5 DEF providerCollect, Answered, BankIdInv, BankIdTyped
  <2>2. /\ row \in PollRow /\ row.pc = "answered" /\ row.order = pages[g].order
        /\ ~row.cancelled
    BY <1>1 DEF PollRow, providerStatus
  <2>3. /\ orders' \in [Orders -> {"none", "open", "signed", "cancelled", "completed", "gone"}]
        /\ orders'[o] # "completed"
    BY <1>1, <1>4, <1>5 DEF providerCollect, BankIdInv, BankIdTyped
  <2> HIDE DEF row
  <2> QED
    BY <1>1, <1>2, <1>3, <2>1, <2>2, <2>3, PollMoves
<1>6. CASE collectSigned(g, p)
  <2> DEFINE row == [polls[g][p] EXCEPT !.pc = "lookup"]
  <2>1. polls' = [polls EXCEPT ![g][p] = row]
    BY <1>6 DEF collectSigned, BankIdInv, BankIdTyped
  <2>2. /\ row \in PollRow /\ row.pc = "lookup" /\ row.order = pages[g].order
        /\ ~row.cancelled
    BY <1>1 DEF PollRow
  <2>3. orders' \in [Orders -> {"none", "open", "signed", "cancelled", "completed", "gone"}]
    BY <1>6 DEF collectSigned, BankIdInv, BankIdTyped
  <2> HIDE DEF row
  <2> QED
    BY <1>1, <1>2, <1>3, <2>1, <2>2, <2>3, PollMoves
<1> QED
  BY <1>5, <1>6

\* The lookup in billing and the tenants' status.
LEMMA BankIdLookup ==
  ASSUME BankIdInv, NEW g \in Pages, \A h \in Pages : h = g,
         NEW p \in Polls, \A q \in Polls : q = p,
         findCustomersByPnrHmac(g, p) \/ keepActive(g, p)
  PROVE  BankIdInv'
<1> DEFINE step(pc, matches) == [polls[g][p] EXCEPT !.pc = pc, !.matches = matches]
<1>0. polls[g][p].pc \in {"lookup", "status"}
  BY DEF findCustomersByPnrHmac, keepActive
<1>1. /\ polls[g][p] \in PollRow /\ pages[g].view = "pending"
      /\ polls[g][p].order = pages[g].order
      /\ ~polls[g][p].cancelled /\ LinksTyped(links, ToSet(links))
  BY <1>0, PollUnderWay
<1>2. UNCHANGED <<links, sessions, env, pages, orders, collectFaults>>
  BY DEF findCustomersByPnrHmac, keepActive
<1>3. LinksTyped(links', ToSet(links')) /\ OwnLookup'
  BY <1>1, <1>2 DEF OwnLookup, BankIdInv
<1>4. orders' \in [Orders -> {"none", "open", "signed", "cancelled", "completed", "gone"}]
  BY <1>2 DEF BankIdInv, BankIdTyped
<1>5. ASSUME NEW pc \in {"status", "sync"}, NEW matches \in SUBSET Tenants,
             polls' = [polls EXCEPT ![g][p] = step(pc, matches)]
      PROVE  BankIdInv'
  <2> DEFINE row == step(pc, matches)
  <2>1. /\ row \in PollRow /\ row.pc = pc /\ row.order = pages[g].order
        /\ ~row.cancelled
    BY <1>1 DEF PollRow
  <2>2. polls' = [polls EXCEPT ![g][p] = row]
    BY <1>5
  <2> HIDE DEF row
  <2> QED
    BY <1>1, <1>2, <1>3, <1>4, <2>1, <2>2, PollMoves
<1>6. CASE findCustomersByPnrHmac(g, p)
  <2>1. polls' = [polls EXCEPT ![g][p] = step("status", customers)]
    BY <1>6 DEF findCustomersByPnrHmac, BankIdInv, BankIdTyped
  <2>2. customers \in SUBSET Tenants
    BY DEF BankIdInv, BankIdTyped
  <2> HIDE DEF step
  <2> QED
    BY <1>5, <2>1, <2>2
<1>7. CASE keepActive(g, p)
  <2>1. polls' = [polls EXCEPT ![g][p] = step("sync", polls[g][p].matches \cap active)]
    BY <1>7 DEF keepActive, BankIdInv, BankIdTyped
  <2>2. polls[g][p].matches \cap active \in SUBSET Tenants
    BY DEF BankIdInv, BankIdTyped
  <2> HIDE DEF step
  <2> QED
    BY <1>5, <2>1, <2>2
<1> QED
  BY <1>6, <1>7

\* The links are rewritten to what this login found.
LEMMA BankIdSync ==
  ASSUME IsFiniteSet(Tenants), BankIdInv, NEW g \in Pages, \A h \in Pages : h = g,
         NEW p \in Polls, \A q \in Polls : q = p, syncCompanyLinks(g, p)
  PROVE  BankIdInv'
<1> DEFINE row == [polls[g][p] EXCEPT !.pc = "issue"]
<1>1. /\ polls[g][p] \in PollRow /\ pages[g].view = "pending"
      /\ polls[g][p].order = pages[g].order /\ ~polls[g][p].cancelled
  BY PollUnderWay DEF syncCompanyLinks
<1>2. polls' = [polls EXCEPT ![g][p] = row]
  BY DEF syncCompanyLinks, BankIdInv, BankIdTyped
<1>3. /\ row \in PollRow /\ row.pc = "issue" /\ row.order = pages[g].order
      /\ ~row.cancelled /\ row.matches = polls[g][p].matches
  BY <1>1 DEF PollRow
<1>4. polls[g][p].matches \in SUBSET Tenants
  BY <1>1 DEF PollRow
<1>5. LinksTyped(links', polls[g][p].matches)
  BY <1>4, OrderingsList DEF syncCompanyLinks, SyncedLinks, Upserted
<1>6. UNCHANGED <<sessions, env, pages, orders, collectFaults>>
  BY DEF syncCompanyLinks
<1>7. LinksTyped(links', ToSet(links')) /\ ToSet(links') \subseteq row.matches
  BY <1>3, <1>5 DEF LinksTyped
<1>8. OwnLookup'
  BY <1>6 DEF OwnLookup, BankIdInv
<1>9. orders' \in [Orders -> {"none", "open", "signed", "cancelled", "completed", "gone"}]
  BY <1>6 DEF BankIdInv, BankIdTyped
<1> HIDE DEF row
<1> QED
  BY <1>1, <1>2, <1>3, <1>6, <1>7, <1>8, <1>9, PollMoves

\* A session for a link of this login, or the answer that there is none.
LEMMA BankIdIssue ==
  ASSUME IsFiniteSet(Tenants), BankIdInv, NEW g \in Pages, \A h \in Pages : h = g,
         NEW p \in Polls, \A q \in Polls : q = p, issueSession(g, p) \/ noCompany(g, p)
  PROVE  BankIdInv'
<1> DEFINE row(answer) == [polls[g][p] EXCEPT !.pc = "answered", !.answer = answer]
<1>0. polls[g][p].pc = "issue"
  BY DEF issueSession, noCompany
<1>1. /\ polls[g][p] \in PollRow /\ pages[g].view = "pending"
      /\ polls[g][p].order = pages[g].order /\ ~polls[g][p].cancelled
      /\ LinksTyped(links, ToSet(links))
  BY <1>0, PollUnderWay
<1>2. ASSUME NEW answer \in {"complete", "no_company"}
      PROVE  /\ row(answer) \in PollRow /\ row(answer).pc = "answered"
             /\ row(answer).answer = answer
             /\ row(answer).order = pages[g].order /\ ~row(answer).cancelled
  BY <1>1 DEF PollRow
<1>3. orders' \in [Orders -> {"none", "open", "signed", "cancelled", "completed", "gone"}]
  BY DEF issueSession, noCompany, BankIdInv, BankIdTyped
<1>4. UNCHANGED <<env, pages, collectFaults>>
  BY DEF issueSession, noCompany
<1>5. CASE issueSession(g, p)
  <2>1. polls' = [polls EXCEPT ![g][p] = row("complete")]
    BY <1>5 DEF issueSession, Answered, BankIdInv, BankIdTyped
  <2>2. LinksTyped(links', ToSet(links'))
    BY <1>5, LinksSet, OrderingsList DEF issueSession, Touched, BankIdInv, LinksTyped
  <2>3. links[1] \in polls[g][p].matches
    BY <1>0, <1>5, LinksSet DEF issueSession, BankIdInv, LinksAreFound
  <2>4. OwnLookup'
    BY <1>5, <2>3 DEF issueSession, BankIdInv, OwnLookup
  <2> HIDE DEF row
  <2> QED
    BY <1>1, <1>2, <1>3, <1>4, <2>1, <2>2, <2>4, PollMoves
<1>6. CASE noCompany(g, p)
  <2>1. polls' = [polls EXCEPT ![g][p] = row("no_company")]
    BY <1>6 DEF noCompany, Answered, BankIdInv, BankIdTyped
  <2>2. LinksTyped(links', ToSet(links')) /\ OwnLookup'
    BY <1>1, <1>6 DEF noCompany, BankIdInv, OwnLookup
  <2> HIDE DEF row
  <2> QED
    BY <1>1, <1>2, <1>3, <1>4, <2>1, <2>2, PollMoves
<1> QED
  BY <1>5, <1>6

\* The page takes the answer.
LEMMA BankIdAnswer ==
  ASSUME BankIdInv, NEW g \in Pages, \A h \in Pages : h = g,
         NEW p \in Polls, \A q \in Polls : q = p, applyAnswer(g, p)
  PROVE  BankIdInv'
<1> DEFINE answer == polls[g][p].answer
<1>1. /\ polls[g][p] \in PollRow /\ pages[g] \in PageRow /\ pages[g].view = "pending"
      /\ polls[g][p].order = pages[g].order
  BY PollUnderWay DEF applyAnswer
<1>2. NoPoll \in PollRow /\ NoPoll.pc = "idle"
  BY DEF NoPoll, PollRow
<1>3. polls' \in [Pages -> [Polls -> PollRow]] /\ polls'[g][p].pc = "idle"
  BY <1>2 DEF applyAnswer, Cancelled, BankIdInv, BankIdTyped
<1>4. /\ pages' \in [Pages -> PageRow] /\ pages'[g].order = pages[g].order
      /\ pages'[g].init = pages[g].init
      /\ pages'[g].view \in {"in", "no_company", "failed", "pending"}
      /\ answer \in {"complete", "no_company"} => pages'[g].view \in {"in", "no_company"}
  BY <1>1 DEF applyAnswer, ViewAfter, PageRow, PollRow, BankIdInv, BankIdTyped
<1>5. pages[g].init = "none" /\ pages[g].order # NULL
  BY <1>1 DEF BankIdInv, PollFits
<1>6. orders[pages[g].order] = "completed" => answer \in {"complete", "no_company"}
  BY <1>1, <1>5 DEF applyAnswer, BankIdInv, ResultIsComing
<1>7. UNCHANGED <<env, rate, ttl, orders, links, sessions, collectFaults, crashes>>
  BY DEF applyAnswer
<1>8. BankIdTyped' /\ OwnLookup'
  BY <1>3, <1>4, <1>7 DEF BankIdInv, BankIdTyped, OwnLookup, env
<1>9. PollFits(g, p)' /\ ResultIsComing(g, p)' /\ LinksAreFound(g, p)'
  BY <1>3, <1>4, <1>5, <1>6, <1>7 DEF PollFits, ResultIsComing, LinksAreFound
<1> QED
  BY <1>8, <1>9 DEF BankIdInv

-----------------------------------------------------------------------------
LEMMA BankIdInitially == ASSUME BankIdInit PROVE BankIdInv
<1>1. BankIdTyped
  BY DEF BankIdInit, BankIdTyped, NoPoll, PageRow, PollRow
<1> QED
  BY <1>1 DEF BankIdInit, BankIdInv, PollFits, ResultIsComing, LinksAreFound, OwnLookup, NoPoll

LEMMA BankIdStep ==
  ASSUME BankIdAssumption, IsFiniteSet(Tenants), \A g, h \in Pages : g = h,
         \A p, q \in Polls : p = q, MaxCollectFaults = 0, BankIdInv, [BankIdNext]_bankIdVars
  PROVE  BankIdInv'
<1>1. CASE UNCHANGED bankIdVars
  BY <1>1 DEF bankIdVars, BankIdInv, BankIdTyped, PollFits, ResultIsComing, LinksAreFound,
              OwnLookup
<1>2. CASE \/ \E t \in Tenants : billingChanges(t)
           \/ \E o \in Orders : signerActs(o) \/ orderExpires(o)
           \/ rateWindowEnds
  BY <1>2, BankIdOutside
<1>3. ASSUME NEW g \in Pages, InitStep(g) \/ initCrash(g) \/ startAgain(g) PROVE BankIdInv'
  BY <1>3, BankIdStart
<1>4. ASSUME NEW g \in Pages, NEW t \in Tenants, switchCompany(g, t) PROVE BankIdInv'
  BY <1>4, BankIdSwitch
<1>5. ASSUME NEW g \in Pages, NEW p \in Polls, PollStep(g, p) PROVE BankIdInv'
  <2>1. ~ignoreAnswer(g, p)
    BY DEF ignoreAnswer, BankIdInv, PollFits
  <2> QED
    BY <1>5, <2>1, BankIdSend, BankIdCollect, BankIdLookup, BankIdSync, BankIdIssue, BankIdAnswer
    DEF PollStep
<1>6. ASSUME NEW g \in Pages, NEW p \in Polls PROVE ~collectFails(g, p)
  BY DEF collectFails, BankIdInv, BankIdTyped
<1> QED
  BY <1>1, <1>2, <1>3, <1>4, <1>5, <1>6 DEF BankIdNext

\* As long as no call fails, a page whose polls do not overlap never shows a
\* failure to a person whose signature was collected, and no session is issued
\* for a company that its own login's lookup did not find (bankid/services.ts
\* collect, BankIdLoginPage.tsx), whatever billing, the provider and the clock do
\* between two awaits.
THEOREM SignedInRightHolds ==
  ASSUME BankIdAssumption, IsFiniteSet(Tenants), \E g : Pages = {g}, \E p : Polls = {p},
         MaxCollectFaults = 0
  PROVE  BankIdSpec => []SignedInRight
<1>0. (\A g, h \in Pages : g = h) /\ (\A p, q \in Polls : p = q) /\ Polls # {}
  OBVIOUS
<1>1. BankIdInit => BankIdInv
  BY BankIdInitially
<1>2. BankIdInv /\ [BankIdNext]_bankIdVars => BankIdInv'
  BY <1>0, BankIdStep
<1>3. BankIdInv => SignedInRight
  BY <1>0 DEF BankIdInv, BankIdTyped, PageRow, ResultIsComing, PollFits, SignedInRight, SignedIsIn
<1> QED
  BY <1>1, <1>2, <1>3, PTL DEF BankIdSpec

-----------------------------------------------------------------------------
(* The browser: one tab, whose answers all arrive.                         *)

CallStates == {"idle", "accepted", "denied", "awaiting"}
RefreshRow == [tab : Tabs, kind : {"load", "shared"}, by : Calls \cup {"page"},
               token : RefreshTokens, answer : {"pending", "ok", "401", "retrying"},
               next : RefreshTokens \cup {NoToken}]

BrowserTyped ==
  /\ issued \in 0..MaxRefreshTokens /\ used \subseteq 1..issued
  /\ store \in RefreshTokens \cup {NoToken}
  /\ status \in [Tabs -> {"loading", "authenticated", "unauthenticated"}]
  /\ calls \in [Tabs -> [Calls -> CallStates]]
  /\ refreshing \subseteq RefreshRow
  /\ answersLost \in Nat /\ races \in Nat

\* What a request to /auth/refresh carries is the stored token, still live; what
\* it is answered is the next one. Only a token that has expired is refused.
RefreshFits(m) ==
  /\ m.answer = "pending" => m.token = store /\ LiveToken(store)
  /\ m.answer = "ok" => LiveToken(m.next)
  /\ m.answer = "401" => LiveToken(store) /\ issued = MaxRefreshTokens
  /\ m.answer = "retrying" => m.kind = "load" /\ issued = MaxRefreshTokens
  /\ m.kind = "load" => status[m.tab] = "loading"

\* There is one at a time, but for a page load that waits for a second refresh.
OneRefresh ==
  \A m, n \in refreshing :
    \/ m = n
    \/ m.kind # n.kind /\ (m.answer = "retrying" \/ n.answer = "retrying")
       /\ m.answer # "ok" /\ n.answer # "ok"

\* The tab's status says whether there is a token, and a loading page calls nothing.
StatusFits(t) ==
  /\ status[t] = "loading" => \A c \in Calls : calls[t][c] = "idle"
  /\ status[t] = "unauthenticated" => store = NoToken /\ refreshing = {}
  /\ status[t] # "unauthenticated" => store # NoToken

BrowserInv ==
  /\ BrowserTyped
  /\ \A m \in refreshing : RefreshFits(m)
  /\ OneRefresh
  /\ \A t \in Tabs : StatusFits(t)
  /\ refreshing = {} => store = NoToken \/ LiveToken(store)
  /\ NeverReused

-----------------------------------------------------------------------------
\* A request that has not been told to wait is alone, unless a page load waits.
LEMMA AloneInFlight ==
  ASSUME BrowserInv, NEW m \in refreshing,
         \/ m.answer = "ok"
         \/ m.answer = "pending" /\ issued < MaxRefreshTokens
         \/ m.kind = "load" /\ m.answer # "retrying"
  PROVE  refreshing = {m}
<1> SUFFICES ASSUME NEW n \in refreshing, n # m PROVE FALSE
  OBVIOUS
<1>1. RefreshFits(m) /\ RefreshFits(n)
  BY DEF BrowserInv
<1>2. m.kind # n.kind /\ (m.answer = "retrying" \/ n.answer = "retrying") /\ m.answer # "ok"
  BY DEF BrowserInv, OneRefresh
<1>3. issued \in Nat
  BY DEF BrowserInv, BrowserTyped
<1> QED
  BY <1>1, <1>2, <1>3 DEF RefreshFits

\* The state with nothing under way.
LEMMA NothingInFlight ==
  ASSUME BrowserTyped, refreshing = {}, \A t \in Tabs : StatusFits(t),
         store = NoToken \/ LiveToken(store), NeverReused
  PROVE  BrowserInv
BY DEF BrowserInv, OneRefresh

\* The server's answers.
LEMMA BrowserServer ==
  ASSUME BrowserAssumption, BrowserInv, NEW m \in refreshing,
         serverRotates(m) \/ serverRefuses(m) \/ serverExpired(m)
  PROVE  BrowserInv'
<1> USE DEF BrowserInv, BrowserTyped
<1>0. /\ m \in RefreshRow /\ m.answer = "pending" /\ m.token = store /\ LiveToken(store)
      /\ status[m.tab] # "unauthenticated" /\ MaxRefreshTokens \in Nat
  BY DEF serverRotates, serverRefuses, serverExpired, RefreshFits, StatusFits, RefreshRow,
         BrowserAssumption
<1>1. CASE serverRotates(m)
  <2>0. PICK r : r = [m EXCEPT !.answer = "ok", !.next = issued + 1]
    OBVIOUS
  <2>1. refreshing = {m}
    BY <1>0, <1>1, AloneInFlight DEF serverRotates
  <2>2. refreshing' = {r}
    BY <1>0, <1>1, <2>0, <2>1 DEF serverRotates, Reply, RefreshRow
  <2>3. issued' = issued + 1 /\ issued' \in 1..MaxRefreshTokens /\ used' = used \cup {store}
    BY <1>0, <1>1 DEF serverRotates
  <2>4. /\ r \in RefreshRow /\ r.answer = "ok" /\ r.next = issued' /\ r.kind = m.kind
        /\ r.tab = m.tab
    BY <1>0, <2>0, <2>3 DEF RefreshRow, RefreshTokens
  <2>5. used' \subseteq 1..issued' /\ issued' \notin used' /\ issued' # NoToken
    BY <1>0, <2>3 DEF LiveToken, BrowserAssumption, RefreshTokens
  <2>6. UNCHANGED <<alarms, store, access, status, calls, loggedOut, answersLost, races>>
    BY <1>1 DEF serverRotates
  <2>7. BrowserTyped'
    BY <2>2, <2>3, <2>4, <2>5, <2>6
  <2>8. RefreshFits(r)'
    <3>1. m.kind = "load" => status[m.tab] = "loading"
      BY DEF RefreshFits
    <3> QED
      BY <2>3, <2>4, <2>5, <2>6, <3>1 DEF RefreshFits, LiveToken
  <2>9. \A t \in Tabs : StatusFits(t)'
    BY <1>0, <2>1, <2>2, <2>6 DEF StatusFits
  <2> QED
    BY <2>2, <2>6, <2>7, <2>8, <2>9 DEF OneRefresh, NeverReused
<1>2. CASE serverExpired(m)
  <2> DEFINE r == [m EXCEPT !.answer = "401", !.next = NoToken]
  <2>1. refreshing' = (refreshing \ {m}) \cup {r} /\ issued = MaxRefreshTokens
    BY <1>0, <1>2 DEF serverExpired, Reply, RefreshRow
  <2>2. r \in RefreshRow /\ r.answer = "401" /\ r.kind = m.kind /\ r.tab = m.tab
    BY <1>0 DEF RefreshRow
  <2>3. UNCHANGED <<server, store, access, status, calls, loggedOut, answersLost, races>>
    BY <1>2 DEF serverExpired
  <2> HIDE DEF r
  <2>4. BrowserTyped'
    BY <2>1, <2>2, <2>3 DEF server
  <2>5. \A n \in refreshing' : RefreshFits(n)'
    BY <1>0, <2>1, <2>2, <2>3 DEF RefreshFits, LiveToken, server
  <2>6. OneRefresh'
    BY <1>0, <2>1, <2>2 DEF OneRefresh
  <2>7. \A t \in Tabs : StatusFits(t)'
    BY <2>1, <2>3 DEF StatusFits
  <2> QED
    BY <2>1, <2>3, <2>4, <2>5, <2>6, <2>7 DEF NeverReused, server
<1>3. ~serverRefuses(m)
  BY <1>0 DEF serverRefuses, LiveToken
<1> QED
  BY <1>1, <1>2, <1>3

\* An answer that brings a new pair.
LEMMA BrowserStores ==
  ASSUME BrowserInv, NEW m \in refreshing, loadAnswered(m) \/ refreshAnswered(m)
  PROVE  BrowserInv'
<1>1. refreshing = {m}
  <2>1. m.answer = "ok"
    BY DEF loadAnswered, refreshAnswered
  <2> QED
    BY <2>1, AloneInFlight
<1> USE DEF BrowserInv, BrowserTyped
<1>0. m \in RefreshRow /\ m.answer = "ok" /\ LiveToken(m.next) /\ m.tab \in Tabs
  BY DEF loadAnswered, refreshAnswered, RefreshFits, RefreshRow
<1>2. /\ store' = m.next /\ UNCHANGED <<server, loggedOut, answersLost, races>>
      /\ m.next \in RefreshTokens /\ m.next # NoToken
  BY <1>0 DEF loadAnswered, refreshAnswered, StoredAfter, RefreshRow, LiveToken
<1>3. LiveToken(store)'
  BY <1>0, <1>2 DEF LiveToken, server
<1>4. status[m.tab] # "unauthenticated"
  BY <1>0 DEF StatusFits
<1>5. CASE loadAnswered(m)
  <2>1. /\ refreshing' = {} /\ UNCHANGED calls
        /\ status' = [status EXCEPT ![m.tab] = "authenticated"]
    BY <1>1, <1>5 DEF loadAnswered
  <2>2. BrowserTyped'
    BY <1>2, <2>1 DEF server
  <2>3. \A t \in Tabs : StatusFits(t)'
    BY <1>0, <1>1, <1>2, <2>1 DEF StatusFits
  <2> QED
    BY <1>2, <1>3, <2>1, <2>2, <2>3 DEF OneRefresh, NeverReused, server
<1>6. CASE refreshAnswered(m)
  <2>1. refreshing' = {} /\ UNCHANGED status
    BY <1>0, <1>1, <1>6 DEF refreshAnswered, OfTab
  <2>2. /\ calls' \in [Tabs -> [Calls -> CallStates]]
        /\ \A t \in Tabs, c \in Calls : calls[t][c] = "idle" => calls'[t][c] = "idle"
    BY <1>0, <1>6 DEF refreshAnswered, Waiting, CallStates
  <2>3. BrowserTyped'
    BY <1>2, <2>1, <2>2 DEF server
  <2>4. \A t \in Tabs : StatusFits(t)'
    BY <1>0, <1>1, <1>2, <2>1, <2>2 DEF StatusFits
  <2> QED
    BY <1>2, <1>3, <2>1, <2>3, <2>4 DEF OneRefresh, NeverReused, server
<1> QED
  BY <1>5, <1>6

\* A refusal: a page load tries once more, a refresh of the tab ends its session.
LEMMA BrowserRefused ==
  ASSUME BrowserInv, NEW m \in refreshing, \A s, t \in Tabs : s = t,
         loadRefused(m) \/ loadGivesUp(m) \/ refreshRefused(m)
  PROVE  BrowserInv'
<1> USE DEF BrowserInv, BrowserTyped
<1>0. /\ m \in RefreshRow /\ m.answer = "401" /\ LiveToken(store) /\ m.tab \in Tabs
      /\ issued = MaxRefreshTokens /\ store # NoToken
  BY DEF loadRefused, loadGivesUp, refreshRefused, RefreshFits, RefreshRow, LiveToken
<1>1. CASE loadRefused(m)
  <2>1. PICK r, s : /\ r = [m EXCEPT !.answer = "retrying"]
                    /\ s = RefreshRequest(m.tab, "shared", "page", store)
    OBVIOUS
  <2>2. refreshing = {m}
    BY <1>0, <1>1, AloneInFlight DEF loadRefused
  <2>3. refreshing' = {r, s}
    BY <1>1, <2>1, <2>2 DEF loadRefused
  <2>4. /\ r \in RefreshRow /\ r.answer = "retrying" /\ r.kind = "load" /\ r.tab = m.tab
        /\ s \in RefreshRow /\ s.answer = "pending" /\ s.kind = "shared" /\ s.token = store
    BY <1>0, <1>1, <2>1 DEF RefreshRow, RefreshRequest, loadRefused
  <2>5. UNCHANGED <<server, store, access, status, calls, loggedOut, answersLost, races>>
    BY <1>1 DEF loadRefused
  <2>6. status[m.tab] = "loading"
    BY <1>1 DEF loadRefused, RefreshFits
  <2>7. BrowserTyped' /\ LiveToken(store)'
    BY <1>0, <2>3, <2>4, <2>5 DEF server, LiveToken
  <2>8. RefreshFits(r)' /\ RefreshFits(s)'
    BY <1>0, <2>4, <2>5, <2>6, <2>7 DEF RefreshFits, server
  <2>9. OneRefresh' /\ \A t \in Tabs : StatusFits(t)'
    BY <1>0, <2>2, <2>3, <2>4, <2>5 DEF OneRefresh, StatusFits
  <2> QED
    BY <2>3, <2>5, <2>7, <2>8, <2>9 DEF NeverReused, server
<1>2. ~loadGivesUp(m)
  BY <1>0 DEF loadGivesUp
<1>3. CASE refreshRefused(m)
  <2>1. refreshing' = {}
    <3>1. ASSUME NEW n \in refreshing, n # m PROVE n \in OfTab(m.tab, "load")
      <4>1. n.answer = "retrying"
        BY <1>0, <3>1 DEF OneRefresh
      <4>2. n.kind = "load" /\ n.tab = m.tab
        BY <1>0, <4>1 DEF RefreshFits, RefreshRow
      <4> QED
        BY <4>2 DEF OfTab
    <3> QED
      BY <1>3, <3>1 DEF refreshRefused
  <2>2. /\ store' = NoToken /\ status' = [status EXCEPT ![m.tab] = "unauthenticated"]
        /\ UNCHANGED <<server, loggedOut, answersLost, races>>
    BY <1>3 DEF refreshRefused, sessionExpired
  <2>3. calls' \in [Tabs -> [Calls -> CallStates]]
    BY <1>0, <1>3 DEF refreshRefused, sessionExpired, CallStates
  <2>4. BrowserTyped'
    BY <2>1, <2>2, <2>3 DEF server
  <2>5. \A t \in Tabs : StatusFits(t)'
    BY <1>0, <2>1, <2>2 DEF StatusFits
  <2> QED
    BY <2>1, <2>2, <2>4, <2>5 DEF OneRefresh, NeverReused, server
<1> QED
  BY <1>1, <1>2, <1>3

\* Login, page load and logout.
LEMMA BrowserPages ==
  ASSUME BrowserAssumption, MaxAnswersLost = 0, MaxRaces = 0, BrowserInv,
         NEW t \in Tabs, \A u \in Tabs : u = t, login(t) \/ loadPage(t) \/ logoutTab(t)
  PROVE  BrowserInv'
<1> USE DEF BrowserInv, BrowserTyped
<1>0. refreshing = {}
  <2>1. \A m \in refreshing : m.tab = t
    BY DEF RefreshRow
  <2>2. CASE login(t)
    BY <2>2 DEF login, StatusFits
  <2>3. CASE loadPage(t)
    BY <2>1, <2>3 DEF loadPage
  <2>4. CASE logoutTab(t)
    BY <2>4 DEF logoutTab
  <2> QED
    BY <2>2, <2>3, <2>4
<1>1. CASE login(t)
  <2>1. /\ issued' = issued + 1 /\ store' = issued' /\ issued' \in 1..MaxRefreshTokens
        /\ issued' \in RefreshTokens /\ issued' # NoToken /\ issued' \notin used
    BY <1>1 DEF login, RefreshTokens, BrowserAssumption
  <2>2. /\ status' = [status EXCEPT ![t] = "authenticated"]
        /\ UNCHANGED <<used, alarms, calls, refreshing, answersLost, races>>
    BY <1>1 DEF login
  <2>3. BrowserTyped' /\ (\A u \in Tabs : StatusFits(u)') /\ LiveToken(store)'
    BY <1>0, <2>1, <2>2 DEF StatusFits, LiveToken
  <2> QED
    BY <1>0, <2>2, <2>3 DEF OneRefresh, NeverReused
<1>2. CASE loadPage(t)
  <2>1. /\ refreshing' = LoadRequest(t) /\ UNCHANGED <<server, store, loggedOut, races, answersLost>>
        /\ status' = [status EXCEPT ![t] =
                        IF store = NoToken THEN "unauthenticated" ELSE "loading"]
    BY <1>0, <1>2 DEF loadPage
  <2>2. /\ calls' \in [Tabs -> [Calls -> CallStates]]
        /\ \A c \in Calls : calls'[t][c] = "idle"
    BY <1>2 DEF loadPage, CallStates
  <2>3. CASE store = NoToken
    <3>1. refreshing' = {} /\ status' = [status EXCEPT ![t] = "unauthenticated"]
      BY <2>1, <2>3 DEF LoadRequest
    <3>2. BrowserTyped'
      BY <2>1, <2>2, <2>3, <3>1 DEF server
    <3>3. StatusFits(t)'
      BY <2>1, <2>2, <2>3, <3>1 DEF StatusFits
    <3> QED
      BY <2>1, <2>3, <3>1, <3>2, <3>3 DEF OneRefresh, NeverReused, server
  <2>4. CASE store # NoToken
    <3>1. PICK r : r = RefreshRequest(t, "load", "page", store)
      OBVIOUS
    <3>2. refreshing' = {r} /\ status' = [status EXCEPT ![t] = "loading"]
      BY <2>1, <2>4, <3>1 DEF LoadRequest
    <3>3. /\ r \in RefreshRow /\ r.answer = "pending" /\ r.kind = "load" /\ r.token = store
          /\ r.tab = t
      BY <2>4, <3>1 DEF RefreshRow, RefreshRequest
    <3>4. BrowserTyped' /\ StatusFits(t)'
      <4>1. BrowserTyped'
        BY <2>1, <2>2, <2>4, <3>2, <3>3 DEF server
      <4>2. status'[t] = "loading"
        BY <3>2
      <4>3. StatusFits(t)'
        BY <2>1, <2>2, <2>4, <4>2 DEF StatusFits
      <4> QED
        BY <4>1, <4>3
    <3>5. LiveToken(store)' /\ status'[t] = "loading"
      BY <1>0, <2>1, <2>4, <3>2 DEF LiveToken, server
    <3>6. RefreshFits(r)'
      BY <2>1, <3>3, <3>5 DEF RefreshFits
    <3> QED
      BY <2>1, <3>2, <3>4, <3>5, <3>6 DEF OneRefresh, NeverReused, server
  <2> QED
    BY <2>3, <2>4
<1>3. CASE logoutTab(t)
  <2>1. /\ store' = NoToken /\ status' = [status EXCEPT ![t] = "unauthenticated"]
        /\ UNCHANGED <<issued, alarms, calls, refreshing, answersLost, races>>
    BY <1>0, <1>3 DEF logoutTab
  <2>2. used' \subseteq 1..issued
    BY <1>0, <1>3 DEF logoutTab, LiveToken, RefreshTokens
  <2>3. BrowserTyped' /\ \A u \in Tabs : StatusFits(u)'
    BY <1>0, <2>1, <2>2 DEF StatusFits
  <2> QED
    BY <1>0, <2>1, <2>3 DEF OneRefresh, NeverReused
<1> QED
  BY <1>1, <1>2, <1>3

\* The calls of a tab.
LEMMA BrowserCalls ==
  ASSUME BrowserInv, NEW t \in Tabs, NEW c \in Calls,
         sendCall(t, c) \/ callDone(t, c) \/ callExpires(t, c)
  PROVE  BrowserInv'
<1> USE DEF BrowserInv, BrowserTyped
<1>1. /\ calls' \in [Tabs -> [Calls -> CallStates]]
      /\ \A u \in Tabs : status[u] = "loading" =>
           \A d \in Calls : calls'[u][d] = calls[u][d] \/ calls'[u][d] = "idle"
  BY DEF sendCall, callDone, callExpires, sessionExpired, CallStates
<1>2. UNCHANGED <<server, store, status, refreshing, answersLost, races>>
  <2>1. CASE callExpires(t, c)
    <3>1. status[t] = "unauthenticated"
      BY <2>1 DEF callExpires, StatusFits
    <3>2. status' = [status EXCEPT ![t] = "unauthenticated"]
      BY <2>1 DEF callExpires, sessionExpired
    <3>3. status' = status
      BY <3>1, <3>2
    <3> QED
      BY <2>1, <3>3 DEF callExpires, sessionExpired
  <2> QED
    BY <2>1 DEF sendCall, callDone
<1>3. BrowserTyped' /\ \A u \in Tabs : StatusFits(u)'
  BY <1>1, <1>2 DEF StatusFits, server
<1>4. (\A m \in refreshing' : RefreshFits(m)') /\ OneRefresh'
  BY <1>2 DEF RefreshFits, OneRefresh, LiveToken, server
<1> QED
  BY <1>2, <1>3, <1>4 DEF LiveToken, NeverReused, server

\* The first call that meets a 401 starts the refresh, the others await it.
LEMMA BrowserTries ==
  ASSUME BrowserInv, NEW t \in Tabs, \A u \in Tabs : u = t, NEW c \in Calls, tryRefresh(t, c)
  PROVE  BrowserInv'
<1> USE DEF BrowserInv, BrowserTyped
<1>1. /\ calls' \in [Tabs -> [Calls -> CallStates]]
      /\ UNCHANGED <<server, store, status, answersLost, races>> /\ store # NoToken
      /\ status[t] # "loading"
  BY DEF tryRefresh, CallStates, StatusFits
<1>2. CASE Joins(t)
  <2>1. UNCHANGED refreshing
    BY <1>2 DEF tryRefresh
  <2>2. BrowserTyped' /\ \A u \in Tabs : StatusFits(u)'
    BY <1>1, <2>1 DEF StatusFits, server
  <2>3. (\A m \in refreshing' : RefreshFits(m)') /\ OneRefresh'
    BY <1>1, <2>1 DEF RefreshFits, OneRefresh, LiveToken, server
  <2> QED
    BY <1>1, <2>1, <2>2, <2>3 DEF LiveToken, NeverReused, server
<1>3. CASE ~Joins(t)
  <2>1. refreshing = {}
    BY <1>1, <1>3 DEF Joins, OfTab, RefreshFits, RefreshRow
  <2>2. PICK r : r = RefreshRequest(t, "shared", c, store)
    OBVIOUS
  <2>3. refreshing' = {r}
    BY <1>3, <2>1, <2>2 DEF tryRefresh
  <2>4. r \in RefreshRow /\ r.answer = "pending" /\ r.kind = "shared" /\ r.token = store
    BY <1>1, <2>2 DEF RefreshRow, RefreshRequest
  <2>5. BrowserTyped' /\ \A u \in Tabs : StatusFits(u)'
    BY <1>1, <2>1, <2>3, <2>4 DEF StatusFits, server
  <2>6. LiveToken(store)'
    BY <1>1, <2>1 DEF LiveToken, server
  <2>7. RefreshFits(r)'
    BY <1>1, <2>4, <2>6 DEF RefreshFits
  <2> QED
    BY <1>1, <2>3, <2>5, <2>6, <2>7 DEF OneRefresh, NeverReused, server
<1> QED
  BY <1>2, <1>3

-----------------------------------------------------------------------------
LEMMA BrowserInitially == ASSUME BrowserAssumption, BrowserInit PROVE BrowserInv
<1>1. BrowserTyped /\ \A t \in Tabs : StatusFits(t)
  BY DEF BrowserAssumption, BrowserInit, BrowserTyped, StatusFits, CallStates
<1> QED
  BY <1>1 DEF BrowserInit, BrowserInv, OneRefresh, NeverReused

LEMMA BrowserStep ==
  ASSUME BrowserAssumption, \A s, t \in Tabs : s = t, MaxAnswersLost = 0, MaxRaces = 0,
         BrowserInv, [BrowserNext]_browserVars
  PROVE  BrowserInv'
<1>0. answersLost \in Nat
  BY DEF BrowserInv, BrowserTyped
<1>1. CASE UNCHANGED <<issued, used, alarms, store, status, calls, refreshing, answersLost, races>>
  BY <1>1 DEF BrowserInv, BrowserTyped, RefreshFits, OneRefresh, StatusFits, LiveToken,
              NeverReused
<1>2. ASSUME NEW m \in refreshing, AnswerStep(m) PROVE BrowserInv'
  BY <1>2, BrowserServer, BrowserStores, BrowserRefused DEF AnswerStep
<1>3. ASSUME NEW m \in refreshing PROVE ~answerLost(m) /\ ~loadLost(m)
  BY <1>0 DEF answerLost, loadLost
<1>4. ASSUME NEW t \in Tabs, login(t) \/ loadPage(t) \/ logoutTab(t) PROVE BrowserInv'
  BY <1>4, BrowserPages
<1>5. ASSUME NEW t \in Tabs, accessExpires(t) PROVE BrowserInv'
  BY <1>1, <1>5 DEF accessExpires, server
<1>6. ASSUME NEW t \in Tabs, NEW c \in Calls,
             sendCall(t, c) \/ callDone(t, c) \/ tryRefresh(t, c) \/ callExpires(t, c)
      PROVE  BrowserInv'
  BY <1>6, BrowserCalls, BrowserTries
<1> QED
  BY <1>1, <1>2, <1>3, <1>4, <1>5, <1>6 DEF BrowserNext, browserVars

\* A tab that is alone in its browser, whose answers arrive and who does not log
\* out while a refresh is under way, never presents a used refresh token however
\* many of its calls meet a 401 together (client.ts refreshPromise), so its
\* sessions are never ended as stolen; and signed in with no refresh under way it
\* holds a live token (client.ts doRefresh, AuthContext.tsx).
THEOREM SessionKeptHolds ==
  ASSUME BrowserAssumption, \E tab : Tabs = {tab}, MaxAnswersLost = 0, MaxRaces = 0
  PROVE  BrowserSpec => []SessionKept
<1>0. \A s, t \in Tabs : s = t
  OBVIOUS
<1>1. BrowserInit => BrowserInv
  BY BrowserInitially
<1>2. BrowserInv /\ [BrowserNext]_browserVars => BrowserInv'
  BY <1>0, BrowserStep
<1>3. BrowserInv => SessionKept
  BY DEF BrowserInv, SessionKept, CanRenew, StatusFits
<1> QED
  BY <1>1, <1>2, <1>3, PTL DEF BrowserSpec
=============================================================================
