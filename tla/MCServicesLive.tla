--------------------------- MODULE MCServicesLive ---------------------------
(***************************************************************************)
(* What the services must do in the end: an instance of IdempotencyKeys,   *)
(* and beside it instances of BankIdLogin, BrowserSession, DocumentDelivery *)
(* and DatabaseLocks, small enough for liveness.  A behaviour plays one    *)
(* scenario, that is one of the instances; IdempotencyKeys does not leave  *)
(* its initial state in the others, and the variables of the other         *)
(* components stay at NoValue.                                             *)
(***************************************************************************)
EXTENDS IdempotencyKeys, TLC

CONSTANTS Scenarios,                      \* the scenarios this run plays
          NoValue,
          x1, y1,                         \* an invoice mailed, an API call or a document made
          i1, i2, i3, t1, c1, c2,         \* rows of billing
          night, admin, other, consumer   \* who locks them

VARIABLES scenario,
    customers, active, rate, ttl, orders, pages, polls, links, sessions, changes,
    collectFaults, crashes,
    issued, used, alarms, store, access, status, calls, refreshing, loggedOut,
    answersLost, races,
    customer, snapshot, delivery, handling, documents, mail, worker, sent, mailFaults,
    seen, unknown, events,
    task, phase, todo, held, result

bankIdVars == <<customers, active, rate, ttl, orders, pages, polls, links, sessions,
                changes, collectFaults, crashes>>
browserVars == <<issued, used, alarms, store, access, status, calls, refreshing,
                 loggedOut, answersLost, races>>
mailVars == <<customer, snapshot, delivery, handling, documents, mail, worker, sent,
              mailFaults, seen, unknown, events>>
lockVars == <<task, phase, todo, held, result>>
suiteVars == <<scenario, vars, bankIdVars, browserVars, mailVars, lockVars>>

-----------------------------------------------------------------------------
(* BankID: overlapping polls with faults; two pages at the limit.          *)
Polling == INSTANCE BankIdLogin WITH
    Pages <- {"g1"}, Polls <- {"p1", "p2"}, Tenants <- {"t1"}, InitMax <- 1, MaxOrders <- 1,
    MaxChanges <- 0, MaxCollectFaults <- 1, MaxCrashes <- 0, NULL <- NoValue

Limited == INSTANCE BankIdLogin WITH
    Pages <- {"g1", "g2"}, Polls <- {"p1"}, Tenants <- {"t1", "t2"}, InitMax <- 1, MaxOrders <- 2,
    MaxChanges <- 0, MaxCollectFaults <- 0, MaxCrashes <- 0, NULL <- NoValue

(* The browser: two tabs and a lost answer.                                *)
TwoTabs == INSTANCE BrowserSession WITH
    Tabs <- {"tab", "tab2"}, Calls <- {y1}, MaxRefreshTokens <- 3, MaxAnswersLost <- 1,
    MaxRaces <- 0, NoToken <- NoValue

(* Mail: one invoice with all that can be reported.                        *)
Delivered == <<"delivered", "none">>
Hard == <<"bounced", "hard">>

Reported == INSTANCE DocumentDelivery WITH
    Invoices <- {x1}, Tasks <- {y1}, Workers <- {"w1"}, MaxAttempts <- 2,
    Reports <- {Delivered, Hard, <<"failed", "none">>, <<"bounced", "soft">>},
    MaxMailFaults <- 1, MaxAddress <- 1

(* Locks: i1 and i2 were generated from template t1 of customer c1, i3 is  *)
(* an invoice of customer c2.                                              *)
ownerOf == i1 :> c1 @@ i2 :> c1 @@ i3 :> c2 @@ t1 :> c1
parentOf == i1 :> t1 @@ i2 :> t1 @@ i3 :> "none"

tasksOf(op, S) == {[op |-> op, on |-> x] : x \in S}
settings == "company_settings"

\* With the removals, whose cycles Postgres breaks, and one request that reads
\* on the pool.
removalTasks ==
    night :> (tasksOf("overdue", {{i1, i2}}) \cup tasksOf("remind", {i3}))
    @@ admin :> (tasksOf("removeTemplate", {t1}) \cup tasksOf("removeCustomer", {c1, c2})
                \cup tasksOf("credit", {i1, i3}) \cup tasksOf("create", {c1}))
    @@ consumer :> (tasksOf("delivery", {i1}) \cup tasksOf("payment", {i3})
                \cup tasksOf("publish", {settings}))

Removing == INSTANCE DatabaseLocks WITH
    Request <- {night, admin, consumer}, Task <- removalTasks, Invoice <- {i1, i2, i3},
    Template <- {t1}, Customer <- {c1, c2}, EventId <- {"e1", "e2"},
    Owner <- ownerOf, Parent <- parentOf, PoolMax <- 2

\* As many drafts at once as the pool has connections.
Creating == INSTANCE DatabaseLocks WITH
    Request <- {admin, other}, Task <- admin :> tasksOf("create", {c1}) @@ other :> tasksOf("create", {c2}),
    Invoice <- {i1, i2, i3}, Template <- {t1}, Customer <- {c1, c2}, EventId <- {"e1", "e2"},
    Owner <- ownerOf, Parent <- parentOf, PoolMax <- 2

ASSUME InstancesAssumption ==
    /\ KeysAssumption /\ Polling!BankIdAssumption /\ Limited!BankIdAssumption
    /\ TwoTabs!BrowserAssumption /\ Reported!MailAssumption
    /\ Removing!LocksAssumption /\ Creating!LocksAssumption

-----------------------------------------------------------------------------
NoBankId == /\ customers = NoValue /\ active = NoValue /\ rate = NoValue /\ ttl = NoValue /\ orders = NoValue
            /\ pages = NoValue /\ polls = NoValue /\ links = NoValue /\ sessions = NoValue
            /\ changes = NoValue /\ collectFaults = NoValue /\ crashes = NoValue
NoBrowser == /\ issued = NoValue /\ used = NoValue /\ alarms = NoValue /\ store = NoValue /\ access = NoValue
             /\ status = NoValue /\ calls = NoValue /\ refreshing = NoValue /\ loggedOut = NoValue
             /\ answersLost = NoValue /\ races = NoValue
NoMail == /\ customer = NoValue /\ snapshot = NoValue /\ delivery = NoValue /\ handling = NoValue
          /\ documents = NoValue /\ mail = NoValue /\ worker = NoValue /\ sent = NoValue
          /\ mailFaults = NoValue /\ seen = NoValue /\ unknown = NoValue /\ events = NoValue
NoLocks == /\ task = NoValue /\ phase = NoValue /\ todo = NoValue /\ held = NoValue /\ result = NoValue

SuiteInit ==
    /\ scenario \in Scenarios
    /\ Init
    /\ \/ /\ scenario = "keys"
          /\ NoBankId /\ NoBrowser /\ NoMail /\ NoLocks
       \/ /\ \/ scenario = "polling" /\ Polling!BankIdInit
             \/ scenario = "limited" /\ Limited!BankIdInit
          /\ NoBrowser /\ NoMail /\ NoLocks
       \/ /\ scenario = "two tabs" /\ TwoTabs!BrowserInit
          /\ NoBankId /\ NoMail /\ NoLocks
       \/ /\ scenario = "reported" /\ Reported!MailInit
          /\ NoBankId /\ NoBrowser /\ NoLocks
       \/ /\ \/ scenario = "removing" /\ Removing!LocksInit
             \/ scenario = "creating" /\ Creating!LocksInit
          /\ NoBankId /\ NoBrowser /\ NoMail

Keyed(A) == scenario = "keys" /\ A /\ UNCHANGED <<scenario, bankIdVars, browserVars, mailVars, lockVars>>

SuiteNext ==
    \/ Keyed(Next)
    \/ /\ \/ scenario = "polling" /\ Polling!BankIdNext
          \/ scenario = "limited" /\ Limited!BankIdNext
       /\ UNCHANGED <<scenario, vars, browserVars, mailVars, lockVars>>
    \/ /\ scenario = "two tabs" /\ TwoTabs!BrowserNext
       /\ UNCHANGED <<scenario, vars, bankIdVars, mailVars, lockVars>>
    \/ /\ scenario = "reported" /\ Reported!MailNext
       /\ UNCHANGED <<scenario, vars, bankIdVars, browserVars, lockVars>>
    \/ /\ \/ scenario = "removing" /\ Removing!LocksNext
          \/ scenario = "creating" /\ Creating!LocksNext
       /\ UNCHANGED <<scenario, vars, bankIdVars, browserVars, mailVars>>
    \* People need not act; requests that wait for a lock or a connection are no rest.
    \/ scenario # "removing" /\ UNCHANGED suiteVars

-----------------------------------------------------------------------------
(***************************************************************************)
(* The steps the components' own FairSpec take to be fair, numbered within *)
(* each scenario: as a behaviour plays one scenario, fairness to the steps *)
(* of a number is fairness to each of them.                                *)
(***************************************************************************)
Step(n) ==
    \/ /\ scenario = "polling"
       /\ \/ n = 1 /\ Polling!InitStep("g1")
          \/ n = 2 /\ Polling!PollStep("g1", "p1")
          \/ n = 3 /\ Polling!PollStep("g1", "p2")
          \/ n - 3 \in Polling!Orders /\ Polling!orderExpires(n - 3)
          \/ n = 6 /\ Polling!rateWindowEnds
       /\ UNCHANGED <<scenario, vars, browserVars, mailVars, lockVars>>
    \/ /\ scenario = "limited"
       /\ \/ n = 1 /\ Limited!InitStep("g1")
          \/ n = 2 /\ Limited!PollStep("g1", "p1")
          \/ n = 3 /\ Limited!PollStep("g2", "p1")
          \/ n - 3 \in Limited!Orders /\ Limited!orderExpires(n - 3)
          \/ n = 6 /\ Limited!rateWindowEnds
          \/ n = 7 /\ Limited!InitStep("g2")
       /\ UNCHANGED <<scenario, vars, browserVars, mailVars, lockVars>>
    \/ /\ scenario = "two tabs"
       /\ \E m \in refreshing : /\ \/ n = 1 /\ m.tab = "tab"
                                   \/ n = 2 /\ m.tab = "tab2"
                                /\ TwoTabs!AnswerStep(m)
       /\ UNCHANGED <<scenario, vars, bankIdVars, mailVars, lockVars>>
    \/ /\ scenario = "reported"
       /\ \/ n = 1 /\ Reported!TaskStep(y1)
          \/ n = 2 /\ Reported!WorkerStep("w1")
          \/ n = 3 /\ Reported!leaseExpires(x1)
          \/ n = 4 /\ \E e \in events : Reported!applyStatus(e)
       /\ UNCHANGED <<scenario, vars, bankIdVars, browserVars, lockVars>>

\* Row locks and connections are granted in turn.
LockStep(r) ==
    /\ \/ scenario = "removing" /\ Removing!advance(r)
       \/ scenario = "creating" /\ r # consumer /\ Creating!advance(IF r = night THEN other ELSE r)
    /\ UNCHANGED <<scenario, vars, bankIdVars, browserVars, mailVars>>

FairSuite ==
    /\ SuiteInit /\ [][SuiteNext]_suiteVars
    /\ \A r \in Requests : WF_suiteVars(Keyed(RequestStep(r)))
    /\ \A k \in Keys : /\ WF_suiteVars(Keyed(claimGoesStale(k)))
                       /\ SF_suiteVars(Keyed(cleanupExpiredIdempotencyKeys(k)))
    /\ \A n \in 1..7 : WF_suiteVars(Step(n))
    /\ \A r \in {night, admin, consumer} : SF_suiteVars(LockStep(r))

-----------------------------------------------------------------------------
(* Properties of the instances; those of IdempotencyKeys stand there.      *)

\* A page that waits for a signature stops waiting, who is refused for too many
\* BankID attempts is let in again, and no page stays at its loading screen
\* whatever other tabs do (BankIdLoginPage.tsx, throttle.ts, AuthContext.tsx).
WaitingEnds ==
    /\ (scenario = "polling" /\ pages["g1"].view = "pending")
        ~> (scenario = "polling" /\ pages["g1"].view # "pending")
    /\ (scenario = "limited" /\ rate > 1) ~> (scenario = "limited" /\ rate = 0)
    /\ \A t \in {"tab", "tab2"} :
          (scenario = "two tabs" /\ status[t] = "loading")
            ~> (scenario = "two tabs" /\ status[t] # "loading")

\* Every sent invoice gets a delivery outcome in billing.
DeliverySettles ==
    (scenario = "reported" /\ snapshot[x1] # Reported!NotSent)
        ~> (scenario = "reported" /\ delivery[x1] \notin {"none", "queued"})

\* Every request of billing gets its connection and its locks, and ends.
EveryRequestEnds ==
    LET Is(r, p) == \/ scenario = "removing" /\ phase[r] = p
                    \/ scenario = "creating" /\ r # consumer
                         /\ phase[IF r = night THEN other ELSE r] = p
    IN  \A r \in {night, admin, consumer} : Is(r, "queued") ~> Is(r, "ended")
=============================================================================
