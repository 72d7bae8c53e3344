----------------------------- MODULE MCServices -----------------------------
(***************************************************************************)
(* What the services must never do: AuthSessions with requests that race,  *)
(* one request at a time, and guessing; BankIdLogin with one page whose    *)
(* customers change while it signs; BrowserSession with one tab and        *)
(* parallel calls; DocumentDelivery with two invoices and a crash;         *)
(* DatabaseLocks.  A behaviour plays one scenario, that is one component   *)
(* or a further instance of AuthSessions; the other components stay at     *)
(* their initial states, and an instance's variables at NoValue.           *)
(***************************************************************************)
EXTENDS AuthSessions, BankIdLogin, BrowserSession, DocumentDelivery, DatabaseLocks, TLC

CONSTANTS NoValue,
          x1, x2, x3,                     \* requests of the auth service, invoices mailed
          y1, y2, y3,                     \* API calls of a tab, documents made
          i1, i2, i3, t1, c1, c2,         \* rows of billing
          night, admin, consumer          \* who locks them

VARIABLES scenario, fewTokens, fewSets

guessVars == <<fewTokens, fewSets>>
suiteVars == <<scenario, vars, guessVars, bankIdVars, browserVars, mailVars, lockVars>>

-----------------------------------------------------------------------------
(* Accounts: one request at a time, and guesses.                           *)
Alone == INSTANCE AuthSessions WITH
    Requests <- {x3}, MaxTokens <- 4, MaxPasswords <- 3, Threshold <- 2, MaxGuesses <- 1

Guessing == INSTANCE AuthSessions WITH
    Requests <- {x1, x2}, MaxTokens <- 2, MaxPasswords <- 2, Threshold <- 2, MaxGuesses <- 7,
    tokens <- fewTokens, sets <- fewSets

(* Mail: what the provider may report.                                     *)
reports == {<<"delivered", "none">>, <<"bounced", "hard">>}

(* Locks: i1 and i2 were generated from template t1 of customer c1, i3 is  *)
(* an invoice of customer c2.                                              *)
ownerOf == i1 :> c1 @@ i2 :> c1 @@ i3 :> c2 @@ t1 :> c1
parentOf == i1 :> t1 @@ i2 :> t1 @@ i3 :> "none"

tasksOf(op, S) == {[op |-> op, on |-> x] : x \in S}

\* The ledger's operations without the two removals, beside a run and a consumer.
ledgerTasks ==
    night :> (tasksOf("overdue", {{i1, i2}, {i1, i2, i3}}) \cup tasksOf("remind", {i1, i3})
                \cup tasksOf("generate", {t1}))
    @@ admin :> (tasksOf("edit", {i1}) \cup tasksOf("send", {i1, i2, i3})
                \cup tasksOf("credit", {i1, i2, i3}) \cup tasksOf("settings", {settings})
                \cup tasksOf("updateTemplate", {t1}) \cup tasksOf("updateCustomer", {c1})
                \cup tasksOf("createTemplate", {c1}) \cup tasksOf("create", {c1}))
    @@ consumer :> (tasksOf("payment", {i1, i3}) \cup tasksOf("delivery", {i1, i2})
                \cup tasksOf("publish", {settings}))

\* With what the theorems about these components take for granted: calls that do
\* not fail or overlap, one tab, one e-mail worker, no removals.
ASSUME InstancesAssumption ==
    /\ AuthAssumption /\ Alone!AuthAssumption /\ Guessing!AuthAssumption
    /\ BankIdAssumption /\ Cardinality(Polls) = 1 /\ MaxCollectFaults = 0
    /\ BrowserAssumption /\ Cardinality(Tabs) = 1 /\ MaxAnswersLost = 0 /\ MaxRaces = 0
    /\ MailAssumption /\ Cardinality(Workers) = 1
    /\ LocksAssumption /\ LedgerTasks

-----------------------------------------------------------------------------
NoGuess == fewTokens = NoValue /\ fewSets = NoValue

SuiteInit ==
    /\ \/ scenario = "alone" /\ Alone!Init /\ NoGuess
       \/ scenario = "guessing" /\ Init /\ Guessing!Init
       \/ /\ scenario \in {"racing", "signing", "one tab", "mailing", "locking"}
          /\ Init /\ NoGuess
    /\ BankIdInit /\ BrowserInit /\ MailInit /\ LocksInit
    /\ scenario # "signing" => customers = {}

SuiteNext ==
    \/ /\ \/ scenario = "racing" /\ Next
          \/ scenario = "alone" /\ Alone!Next
       /\ UNCHANGED <<scenario, guessVars, bankIdVars, browserVars, mailVars, lockVars>>
    \/ /\ scenario = "guessing" /\ Guessing!Next
       /\ UNCHANGED <<scenario, tokens, sets, bankIdVars, browserVars, mailVars, lockVars>>
    \/ /\ scenario = "signing" /\ BankIdNext
       /\ UNCHANGED <<scenario, vars, guessVars, browserVars, mailVars, lockVars>>
    \/ /\ scenario = "one tab" /\ BrowserNext
       /\ UNCHANGED <<scenario, vars, guessVars, bankIdVars, mailVars, lockVars>>
    \/ /\ scenario = "mailing" /\ MailNext
       /\ UNCHANGED <<scenario, vars, guessVars, bankIdVars, browserVars, lockVars>>
    \/ /\ scenario = "locking" /\ LocksNext
       /\ UNCHANGED <<scenario, vars, guessVars, bankIdVars, browserVars, mailVars>>
    \* People need not act; requests that wait for a lock are no rest.
    \/ scenario # "locking" /\ UNCHANGED suiteVars

Suite == SuiteInit /\ [][SuiteNext]_suiteVars

\* Members of these sets are interchangeable in every scenario.
Symmetry == Permutations(Requests) \cup Permutations({y1, y2})

-----------------------------------------------------------------------------
(* The types of the components, and the property of an instance; the other *)
(* properties stand in the components.                                     *)

SuiteTypes ==
    /\ scenario = "racing" => TypeOK
    /\ scenario = "signing" => BankIdTypeOK
    /\ scenario = "one tab" => BrowserTypeOK
    /\ scenario = "mailing" => MailTypeOK
    /\ scenario = "locking" => LocksTypeOK

\* Requests one at a time: no session outlives the password it was opened with,
\* and no invitation stays open once one was accepted (auth/services.ts).
NoWayBackIn == scenario = "alone" => Alone!ResetEndsSessions /\ Alone!InviteClosed
=============================================================================
