---------------------------- MODULE BankIdLogin ----------------------------
(***************************************************************************)
(* Signing in to the customer portal with BankID (services/auth/src/bankid *)
(* and apps/portal/src/pages/BankIdLoginPage.tsx).                         *)
(*                                                                         *)
(* The page starts an order (rate-limited in Redis) and polls collect on a *)
(* timer that does not wait for the previous answer. An order gives its    *)
(* result once. The collect that gets it looks the person up in billing,   *)
(* rewrites the person's company links, and issues a session for the link  *)
(* used last. One person, who may sign in from several pages; each await   *)
(* is a step boundary.                                                     *)
(***************************************************************************)
EXTENDS Naturals, Sequences, FiniteSets, SequencesExt

CONSTANTS Pages,            \* pages on which the person signs in
          Polls,            \* collect requests of a page in flight together
          Tenants,          \* companies the person may be a customer of
          InitMax,          \* INIT_MAX_PER_WINDOW
          MaxOrders,        \* bound: orders started
          MaxChanges,       \* bound: changes in billing and of tenants' status
          MaxCollectFaults, \* bound: calls of collect that fail
          MaxCrashes,       \* bound: process ends between INCR and EXPIRE
          NULL

\* What is assumed of the constants; asserted where they get their values.
BankIdAssumption ==
  /\ {InitMax, MaxOrders, MaxChanges, MaxCollectFaults, MaxCrashes} \subseteq Nat
  /\ NULL \notin Tenants /\ NULL \notin Nat

VARIABLES
  customers,  \* billing: tenants with a customer of this personal number
  active,     \* tenants whose status is active
  rate,       \* Redis: the counter of assertInitRate
  ttl,        \* Redis: whether that key has an expiry
  orders,     \* provider: state of every order
  pages,      \* the view of each page, its order, and its timer
  polls,      \* collect requests
  links,      \* user_company_links in the order of listCompanyLinks
  sessions,   \* sessions issued, with the lookup of the login behind each
  changes, collectFaults, crashes

bankIdVars == <<customers, active, rate, ttl, orders, pages, polls, links, sessions, changes,
                collectFaults, crashes>>

env == <<customers, active, changes>>

Orders == 1..MaxOrders

NoPoll == [pc |-> "idle", order |-> NULL, cancelled |-> FALSE, matches |-> {}, answer |-> NULL]

BankIdInit ==
  /\ customers \in SUBSET Tenants
  /\ active = Tenants
  /\ rate = 0
  /\ ttl = FALSE
  /\ orders = [o \in Orders |-> "none"]
  /\ pages = [g \in Pages |-> [view |-> "starting", init |-> "none", order |-> NULL, timer |-> FALSE]]
  /\ polls = [g \in Pages |-> [p \in Polls |-> NoPoll]]
  /\ links = <<>>
  /\ sessions = {}
  /\ changes = 0
  /\ collectFaults = 0
  /\ crashes = 0

-----------------------------------------------------------------------------
\* The world around: billing's customers, tenants' status, the signer, time.

billingChanges(t) ==
  /\ changes < MaxChanges
  /\ changes' = changes + 1
  /\ \/ customers' = (customers \cup {t}) \ (customers \cap {t}) /\ UNCHANGED active
     \/ active' = (active \cup {t}) \ (active \cap {t}) /\ UNCHANGED customers
  /\ UNCHANGED <<rate, ttl, orders, pages, polls, links, sessions, collectFaults, crashes>>

signerActs(o) ==
  /\ orders[o] = "open"
  /\ \E result \in {"signed", "cancelled"} : orders' = [orders EXCEPT ![o] = result]
  /\ UNCHANGED <<env, rate, ttl, pages, polls, links, sessions, collectFaults, crashes>>

\* ORDER_TTL_SECONDS, at BankID as well as in the mock.
orderExpires(o) ==
  /\ orders[o] \in {"open", "signed", "cancelled"}
  /\ orders' = [orders EXCEPT ![o] = "gone"]
  /\ UNCHANGED <<env, rate, ttl, pages, polls, links, sessions, collectFaults, crashes>>

-----------------------------------------------------------------------------
\* Starting an order.

\* assertInitRate: INCR, and EXPIRE when the key is new.
initIncr(g) ==
  LET n == rate + 1
  IN /\ pages[g].view = "starting" /\ pages[g].init = "none"
     /\ rate' = IF n > InitMax + 1 THEN rate ELSE n
     /\ pages' = IF n > InitMax
                 THEN [pages EXCEPT ![g].view = "failed"]
                 ELSE [pages EXCEPT ![g].init = IF n = 1 THEN "expire" ELSE "order"]
     /\ UNCHANGED <<env, ttl, orders, polls, links, sessions, collectFaults, crashes>>

\* Mutant of initExpire: the expiry is never set.
NoExpire(g) ==
  /\ pages[g].init = "expire"
  /\ pages' = [pages EXCEPT ![g].init = "order"]
  /\ UNCHANGED <<env, rate, ttl, orders, polls, links, sessions, collectFaults, crashes>>

initExpire(g) ==
  /\ pages[g].init = "expire"
  /\ ttl' = TRUE
  /\ pages' = [pages EXCEPT ![g].init = "order"]
  /\ UNCHANGED <<env, rate, orders, polls, links, sessions, collectFaults, crashes>>

initCrash(g) ==
  /\ pages[g].init = "expire"
  /\ crashes < MaxCrashes
  /\ crashes' = crashes + 1
  /\ pages' = [pages EXCEPT ![g].view = "failed", ![g].init = "none"]
  /\ UNCHANGED <<env, rate, ttl, orders, polls, links, sessions, collectFaults>>

rateWindowEnds ==
  /\ ttl
  /\ ttl' = FALSE
  /\ rate' = 0
  /\ UNCHANGED <<env, orders, pages, polls, links, sessions, collectFaults, crashes>>

initOrder(g) ==
  \E o \in Orders :
    /\ pages[g].init = "order"
    /\ orders[o] = "none"
    /\ orders' = [orders EXCEPT ![o] = "open"]
    /\ pages' = [pages EXCEPT ![g] = [view |-> "pending", init |-> "none", order |-> o, timer |-> TRUE]]
    /\ UNCHANGED <<env, rate, ttl, polls, links, sessions, collectFaults, crashes>>

\* The page's button after a failure, or a later visit to it.
startAgain(g) ==
  /\ pages[g].view \in {"failed", "in", "no_company"}
  /\ pages' = [pages EXCEPT ![g] = [view |-> "starting", init |-> "none", order |-> NULL, timer |-> FALSE]]
  /\ UNCHANGED <<env, rate, ttl, orders, polls, links, sessions, collectFaults, crashes>>

-----------------------------------------------------------------------------
\* collect at the auth service.

sendPoll(g, p) ==
  /\ pages[g].view = "pending" /\ pages[g].timer
  /\ polls[g][p].pc = "idle"
  /\ polls' = [polls EXCEPT ![g][p] = [NoPoll EXCEPT !.pc = "collect", !.order = pages[g].order]]
  /\ UNCHANGED <<env, rate, ttl, orders, pages, links, sessions, collectFaults, crashes>>

Answered(g, p, result) == [polls EXCEPT ![g][p].pc = "answered", ![g][p].answer = result]

\* Mutant of providerStatus: an order that is gone is reported as pending.
GoneIsPending(o) ==
  IF orders[o] \in {"open", "gone"} THEN "pending" ELSE "failed"

\* What the provider says of an order that is not signed.
providerStatus(o) ==
  IF orders[o] = "open" THEN "pending" ELSE "failed"

providerCollect(g, p) ==
  LET o == polls[g][p].order
  IN /\ polls[g][p].pc = "collect"
     /\ orders[o] # "signed"
     /\ polls' = Answered(g, p, providerStatus(o))
     /\ orders' = IF orders[o] = "cancelled" THEN [orders EXCEPT ![o] = "gone"] ELSE orders
     /\ UNCHANGED <<env, rate, ttl, pages, links, sessions, collectFaults, crashes>>

\* A signed order gives its result to one collect.
collectSigned(g, p) ==
  LET o == polls[g][p].order
  IN /\ polls[g][p].pc = "collect"
     /\ orders[o] = "signed"
     /\ orders' = [orders EXCEPT ![o] = "completed"]
     /\ polls' = [polls EXCEPT ![g][p].pc = "lookup"]
     /\ UNCHANGED <<env, rate, ttl, pages, links, sessions, collectFaults, crashes>>

findCustomersByPnrHmac(g, p) ==
  /\ polls[g][p].pc = "lookup"
  /\ polls' = [polls EXCEPT ![g][p].pc = "status", ![g][p].matches = customers]
  /\ UNCHANGED <<env, rate, ttl, orders, pages, links, sessions, collectFaults, crashes>>

\* The loop over getTenantStatus.
keepActive(g, p) ==
  /\ polls[g][p].pc = "status"
  /\ polls' = [polls EXCEPT ![g][p].pc = "sync", ![g][p].matches = @ \cap active]
  /\ UNCHANGED <<env, rate, ttl, orders, pages, links, sessions, collectFaults, crashes>>

\* The rows of a set of companies in an order listCompanyLinks may return them in.
Orderings(found) == {s \in [1..Cardinality(found) -> found] : ToSet(s) = found}

Before(s, t, u) == \E i, j \in DOMAIN s : i < j /\ s[i] = t /\ s[j] = u

\* A row that was there keeps its place, and a new one comes after it.
Upserted(found) ==
  {s \in Orderings(found) :
     \A t \in ToSet(links) \cap found, u \in found :
       Before(links, t, u) \/ u \notin ToSet(links) => Before(s, t, u)}

\* Mutant of SyncedLinks: links that are no longer found stay.
NeverUnlinked(found) == Upserted(found \cup ToSet(links))

\* Upsert of what was found, and DELETE of every other link.
SyncedLinks(found) == Upserted(found)

syncCompanyLinks(g, p) ==
  /\ polls[g][p].pc = "sync"
  /\ links' \in SyncedLinks(polls[g][p].matches)
  /\ polls' = [polls EXCEPT ![g][p].pc = "issue"]
  /\ UNCHANGED <<env, rate, ttl, orders, pages, sessions, collectFaults, crashes>>

\* The touched link moves to the front.
Touched(t) ==
  {s \in Orderings(ToSet(links)) :
     /\ s[1] = t
     /\ \A u, v \in ToSet(links) \ {t} : Before(links, u, v) => Before(s, u, v)}

\* listCompanyLinks, touchLink, and a session for the first link.
issueSession(g, p) ==
  /\ polls[g][p].pc = "issue"
  /\ links # <<>>
  /\ links' \in Touched(links[1])
  /\ sessions' = sessions \cup {[tenant |-> links[1], found |-> polls[g][p].matches]}
  /\ polls' = Answered(g, p, "complete")
  /\ UNCHANGED <<env, rate, ttl, orders, pages, collectFaults, crashes>>

noCompany(g, p) ==
  /\ polls[g][p].pc = "issue"
  /\ links = <<>>
  /\ polls' = Answered(g, p, "no_company")
  /\ UNCHANGED <<env, rate, ttl, orders, pages, links, sessions, collectFaults, crashes>>

collectFails(g, p) ==
  /\ polls[g][p].pc \in {"collect", "lookup", "status", "sync", "issue"}
  /\ collectFaults < MaxCollectFaults
  /\ collectFaults' = collectFaults + 1
  /\ polls' = Answered(g, p, "failed")
  /\ UNCHANGED <<env, rate, ttl, orders, pages, links, sessions, crashes>>

\* Changing company: checked against the links and the tenant's status.
switchCompany(g, t) ==
  /\ pages[g].view = "in"
  /\ t \in ToSet(links) \cap active
  /\ links' \in Touched(t)
  /\ sessions' = sessions \cup {[tenant |-> t, found |-> ToSet(links)]}
  /\ UNCHANGED <<env, rate, ttl, orders, pages, polls, collectFaults, crashes>>

-----------------------------------------------------------------------------
\* The page gets an answer.

\* A new view runs the effect again: its cleanup cancels what is in flight.
Cancelled(g, p) ==
  [polls EXCEPT ![g] = [q \in Polls |-> IF q = p THEN NoPoll
                                        ELSE [polls[g][q] EXCEPT !.cancelled = TRUE]]]

ignoreAnswer(g, p) ==
  /\ polls[g][p].pc = "answered" /\ polls[g][p].cancelled
  /\ polls' = [polls EXCEPT ![g][p] = NoPoll]
  /\ UNCHANGED <<env, rate, ttl, orders, pages, links, sessions, collectFaults, crashes>>

\* Mutant of ViewAfter: only a login with a company is a success.
NoCompanyFails(g, result) ==
  CASE result = "complete" -> [pages[g] EXCEPT !.view = "in", !.timer = FALSE]
    [] result = "pending"  -> pages[g]
    [] OTHER               -> [pages[g] EXCEPT !.view = "failed", !.timer = FALSE]

\* The timer is stopped before loginWithBankId and navigate.
ViewAfter(g, result) ==
  CASE result = "complete"   -> [pages[g] EXCEPT !.view = "in", !.timer = FALSE]
    [] result = "no_company" -> [pages[g] EXCEPT !.view = "no_company", !.timer = FALSE]
    [] result = "failed"     -> [pages[g] EXCEPT !.view = "failed", !.timer = FALSE]
    [] OTHER                 -> pages[g]

applyAnswer(g, p) ==
  /\ polls[g][p].pc = "answered" /\ ~polls[g][p].cancelled
  /\ pages' = [pages EXCEPT ![g] = ViewAfter(g, polls[g][p].answer)]
  /\ polls' = Cancelled(g, p)
  /\ UNCHANGED <<env, rate, ttl, orders, links, sessions, collectFaults, crashes>>

PollStep(g, p) ==
  \/ sendPoll(g, p) \/ providerCollect(g, p) \/ collectSigned(g, p)
  \/ findCustomersByPnrHmac(g, p) \/ keepActive(g, p) \/ syncCompanyLinks(g, p)
  \/ issueSession(g, p) \/ noCompany(g, p)
  \/ ignoreAnswer(g, p) \/ applyAnswer(g, p)

InitStep(g) == initIncr(g) \/ initExpire(g) \/ initOrder(g)

BankIdNext ==
  \/ \E t \in Tenants : billingChanges(t)
  \/ \E o \in Orders : signerActs(o) \/ orderExpires(o)
  \/ rateWindowEnds
  \/ \E g \in Pages :
       \/ InitStep(g) \/ initCrash(g) \/ startAgain(g)
       \/ \E t \in Tenants : switchCompany(g, t)
       \/ \E p \in Polls : PollStep(g, p) \/ collectFails(g, p)

BankIdSpec == BankIdInit /\ [][BankIdNext]_bankIdVars

\* The page's timer runs and its requests are served; orders and Redis keys
\* reach their expiry. Nobody has to sign or to press the button.
BankIdFairSpec ==
  /\ BankIdSpec
  /\ \A g \in Pages : WF_bankIdVars(InitStep(g)) /\ \A p \in Polls : WF_bankIdVars(PollStep(g, p))
  /\ \A o \in Orders : WF_bankIdVars(orderExpires(o))
  /\ WF_bankIdVars(rateWindowEnds)

-----------------------------------------------------------------------------
\* Properties.

BankIdTypeOK ==
  /\ customers \subseteq Tenants /\ active \subseteq Tenants
  /\ rate \in 0..(InitMax + 1) /\ ttl \in BOOLEAN
  /\ orders \in [Orders -> {"none", "open", "signed", "cancelled", "completed", "gone"}]
  /\ \A g \in Pages :
       /\ pages[g].view \in {"starting", "pending", "failed", "in", "no_company"}
       /\ pages[g].init \in {"none", "expire", "order"}
       /\ pages[g].order \in Orders \cup {NULL} /\ pages[g].timer \in BOOLEAN
       /\ \A p \in Polls :
            /\ polls[g][p].pc \in {"idle", "collect", "lookup", "status", "sync", "issue", "answered"}
            /\ polls[g][p].answer \in {NULL, "pending", "failed", "complete", "no_company"}
            /\ polls[g][p].matches \subseteq Tenants
  /\ IsInjective(links) /\ ToSet(links) \subseteq Tenants
  /\ changes \in 0..MaxChanges /\ collectFaults \in 0..MaxCollectFaults /\ crashes \in 0..MaxCrashes

\* A person whose signature was collected is not shown a failure
\* (BankIdLoginPage.tsx:64-67: running the polling effect anew is harmless).
SignedIsIn ==
  \A g \in Pages : pages[g].view = "failed" =>
    (pages[g].order # NULL => orders[pages[g].order] # "completed")

\* A session is only issued for a company that the lookup of this very login
\* found (syncCompanyLinks, repository.ts:50: billing is the truth for THIS login).
OwnLookup == \A s \in sessions : s.tenant \in s.found

\* A person whose signature was collected is not shown a failure, and a session
\* is issued only for a company that its own login's lookup found
\* (bankid/services.ts, BankIdLoginPage.tsx). Asked of a page whose polls do not
\* overlap and whose calls do not fail.
SignedInRight == SignedIsIn /\ OwnLookup

\* A page that waits for a signature stops waiting: the order ends
\* (ORDER_TTL_SECONDS) and the poll after that says so.
WaitingEnds == \A g \in Pages : (pages[g].view = "pending") ~> (pages[g].view # "pending")

\* Who is refused for too many attempts is let in again after the window
\* (throttle.ts:47-55: try again in a while).
RefusalEnds == (rate > InitMax) ~> (rate = 0)
=============================================================================
