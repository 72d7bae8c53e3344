--------------------------- MODULE StripeCheckout ---------------------------
(***************************************************************************)
(* Portal payments through Stripe (services/payments/src/stripe).          *)
(*                                                                         *)
(* A customer's pay request is resolved against billing, answered with a   *)
(* pending checkout session when one is found, and otherwise with a new    *)
(* one: created at Stripe, then stored in stripe_payments, then handed     *)
(* out. Stripe tells of a completed session by a webhook that it repeats   *)
(* until it is answered with 200; the handler marks the row paid and       *)
(* writes the payment event in one transaction, and billing books it.      *)
(*                                                                         *)
(* One invoice (1) and the reminder (2) that may supersede it. Billing is  *)
(* kept to what resolveInvoiceById shows of it. Each await of the code is  *)
(* a step boundary.                                                        *)
(***************************************************************************)
EXTENDS Naturals, Sequences, FiniteSets

CONSTANTS Requests,     \* pay requests served at the same time
          Sessions,     \* ids Stripe gives its checkout sessions
          Hooks,        \* webhook deliveries handled at the same time
          Total,        \* total_incl_vat_ore of invoice 1
          Fee,          \* reminder_fee_ore
          MaxBank,      \* bound: payments of 1 that reach billing by bank
          MaxReminders, \* bound: 0 leaves the reminder out
          MaxFaults,    \* bound: failed calls and dead processes
          MaxRepeats,   \* bound: deliveries repeated after a 200
          NULL

\* What is assumed of the constants; asserted where they get their values.
StripeAssumption ==
  /\ Total \in Nat \ {0} /\ Fee \in Nat
  /\ {MaxBank, MaxReminders, MaxFaults, MaxRepeats} \subseteq Nat
  /\ NULL \notin Sessions

Invoices == {1, 2}

PAYABLE_STATUSES == {"sent"}

VARIABLES
  invoices,   \* billing: status and total of the invoice and its reminder
  bank,       \* billing: what other payments have booked on each
  booked,     \* billing: Stripe payments booked, as <<invoice, session>>
  stripe,     \* Stripe: state and amount of every session
  rows,       \* stripe_payments, in the order of created_at
  handed,     \* sessions whose checkout url a customer has been given
  reqs,       \* the pay requests being served
  hooks,      \* the webhook deliveries being handled
  due,        \* sessions Stripe still has to tell about
  events,     \* payment events written by the webhook handler
  consumed,   \* those of them billing has consumed
  faults, repeats

vars == <<invoices, bank, booked, stripe, rows, handed, reqs, hooks, due,
          events, consumed, faults, repeats>>

billing == <<invoices, bank, booked, consumed>>

-----------------------------------------------------------------------------
\* What billing knows.

Amount(s) == stripe[s].amount

\* The sum of what some sessions charge: their units of money, counted.
Charged(S) == Cardinality(UNION {{s} \X (1..Amount(s)) : s \in S})

paidOre(i) == bank[i] + Charged({s \in Sessions : <<i, s>> \in booked})

remainingOre(i) == IF invoices[i].total > paidOre(i) THEN invoices[i].total - paidOre(i) ELSE 0

\* The end of the chain of superseded_by_invoice_id from invoice 1.
Current == IF invoices[1].status = "superseded" THEN 2 ELSE 1

-----------------------------------------------------------------------------
\* The rows of stripe_payments.

Row(s) == CHOOSE k \in DOMAIN rows : rows[k].session = s

HasRow(s) == \E k \in DOMAIN rows : rows[k].session = s

\* Mutant of activePending: a pending session is never found.
NoActivePending(i) == {}

activePending(i) ==
  {k \in DOMAIN rows : rows[k].invoice = i /\ ~rows[k].paid /\ stripe[rows[k].session].state # "expired"}

-----------------------------------------------------------------------------
NoReq == [pc |-> "idle", invoice |-> NULL, amount |-> 0, session |-> NULL]

NoHook == [pc |-> "idle", session |-> NULL, invoice |-> NULL]

Init ==
  /\ invoices = [i \in Invoices |-> IF i = 1 THEN [status |-> "sent", total |-> Total]
                                             ELSE [status |-> "none", total |-> 0]]
  /\ bank = [i \in Invoices |-> 0]
  /\ booked = {}
  /\ stripe = [s \in Sessions |-> [state |-> "none", amount |-> 0]]
  /\ rows = <<>>
  /\ handed = {}
  /\ reqs = [r \in Requests |-> NoReq]
  /\ hooks = [h \in Hooks |-> NoHook]
  /\ due = {}
  /\ events = <<>>
  /\ consumed = {}
  /\ faults = 0
  /\ repeats = 0

-----------------------------------------------------------------------------
\* Serving a pay request.

\* Billing's portal has checked that the invoice is the customer's; payments
\* reads its current state. A refusal (409) changes nothing.
resolveInvoice(r) ==
  /\ reqs[r].pc \in {"idle", "answered"}
  /\ invoices[Current].status \in PAYABLE_STATUSES
  /\ remainingOre(Current) > 0
  /\ reqs' = [reqs EXCEPT ![r] = [pc |-> "resolved", invoice |-> Current,
                                  amount |-> remainingOre(Current), session |-> NULL]]
  /\ UNCHANGED <<billing, stripe, rows, handed, hooks, due, events, faults, repeats>>

\* The newest pending session of the invoice is handed out again.
reusePending(r) ==
  LET found == activePending(reqs[r].invoice)
  IN /\ reqs[r].pc = "resolved"
     /\ \E k \in found :
          /\ \A l \in found : l <= k
          /\ reqs' = [reqs EXCEPT ![r].pc = "answered", ![r].session = rows[k].session]
          /\ handed' = handed \cup {rows[k].session}
     /\ UNCHANGED <<billing, stripe, rows, hooks, due, events, faults, repeats>>

noPending(r) ==
  /\ reqs[r].pc = "resolved"
  /\ activePending(reqs[r].invoice) = {}
  /\ reqs' = [reqs EXCEPT ![r].pc = "create"]
  /\ UNCHANGED <<billing, stripe, rows, handed, hooks, due, events, faults, repeats>>

\* provider.createCheckoutSession.
\* Mutant of createSession: the url is sent before the row is stored.
CreateAndAnswer(r) ==
  \E s \in Sessions :
    /\ reqs[r].pc = "create"
    /\ stripe[s].state = "none"
    /\ stripe' = [stripe EXCEPT ![s] = [state |-> "open", amount |-> reqs[r].amount]]
    /\ reqs' = [reqs EXCEPT ![r].pc = "insert", ![r].session = s]
    /\ handed' = handed \cup {s}
    /\ UNCHANGED <<billing, rows, hooks, due, events, faults, repeats>>

createSession(r) ==
  \E s \in Sessions :
    /\ reqs[r].pc = "create"
    /\ stripe[s].state = "none"
    /\ stripe' = [stripe EXCEPT ![s] = [state |-> "open", amount |-> reqs[r].amount]]
    /\ reqs' = [reqs EXCEPT ![r].pc = "insert", ![r].session = s]
    /\ UNCHANGED <<billing, rows, handed, hooks, due, events, faults, repeats>>

\* Mutant of insertPending: the row gets what is left to pay by now.
InsertRemaining(r) ==
  /\ reqs[r].pc = "insert"
  /\ rows' = Append(rows, [session |-> reqs[r].session, invoice |-> reqs[r].invoice,
                           amount |-> remainingOre(reqs[r].invoice), paid |-> FALSE])
  /\ handed' = handed \cup {reqs[r].session}
  /\ reqs' = [reqs EXCEPT ![r].pc = "answered"]
  /\ UNCHANGED <<billing, stripe, hooks, due, events, faults, repeats>>

insertPending(r) ==
  /\ reqs[r].pc = "insert"
  /\ rows' = Append(rows, [session |-> reqs[r].session, invoice |-> reqs[r].invoice,
                           amount |-> reqs[r].amount, paid |-> FALSE])
  /\ handed' = handed \cup {reqs[r].session}
  /\ reqs' = [reqs EXCEPT ![r].pc = "answered"]
  /\ UNCHANGED <<billing, stripe, hooks, due, events, faults, repeats>>

\* A call of the request fails, the process dies, or Stripe's answer is lost:
\* the customer gets an error and no url. A session already made stays open.
requestFails(r) ==
  /\ reqs[r].pc \in {"resolved", "create", "insert"}
  /\ faults < MaxFaults
  /\ faults' = faults + 1
  /\ reqs' = [reqs EXCEPT ![r] = NoReq]
  /\ UNCHANGED <<billing, stripe, rows, handed, hooks, due, events, repeats>>

RequestStep(r) ==
  \/ resolveInvoice(r) \/ reusePending(r) \/ noPending(r)
  \/ createSession(r) \/ insertPending(r) \/ requestFails(r)

-----------------------------------------------------------------------------
\* Stripe and the customer.

\* A session is paid on Stripe's page by someone who has its url.
completeSession(s) ==
  /\ s \in handed
  /\ stripe[s].state = "open"
  /\ stripe' = [stripe EXCEPT ![s].state = "complete"]
  /\ due' = due \cup {s}
  /\ UNCHANGED <<billing, rows, handed, reqs, hooks, events, faults, repeats>>

\* expires_at passes, for Stripe and for the row alike.
expireSession(s) ==
  /\ stripe[s].state = "open"
  /\ stripe' = [stripe EXCEPT ![s].state = "expired"]
  /\ UNCHANGED <<billing, rows, handed, reqs, hooks, due, events, faults, repeats>>

\* Stripe may deliver an event again although it was answered.
repeatDelivery(s) ==
  /\ stripe[s].state = "complete"
  /\ s \notin due
  /\ repeats < MaxRepeats
  /\ repeats' = repeats + 1
  /\ due' = due \cup {s}
  /\ UNCHANGED <<billing, stripe, rows, handed, reqs, hooks, events, faults>>

-----------------------------------------------------------------------------
\* Handling a webhook delivery.

Answer200(h) ==
  /\ due' = due \ {hooks[h].session}
  /\ hooks' = [hooks EXCEPT ![h] = NoHook]

\* The branch for a session without a row (alarm and 200) is never taken for a
\* session made here: PaidHasRow.
findBySessionId(h, s) ==
  /\ hooks[h].pc = "idle"
  /\ s \in due
  /\ HasRow(s)
  /\ hooks' = [hooks EXCEPT ![h] = [pc |-> "found", session |-> s, invoice |-> NULL]]
  /\ UNCHANGED <<billing, stripe, rows, handed, reqs, due, events, faults, repeats>>

resolveForBooking(h) ==
  /\ hooks[h].pc = "found"
  /\ hooks' = [hooks EXCEPT ![h].pc = "deciding", ![h].invoice = Current]
  /\ UNCHANGED <<billing, stripe, rows, handed, reqs, due, events, faults, repeats>>

\* The amount is the row's own, never the payload's.
PaymentOf(h) ==
  [session |-> hooks[h].session, invoice |-> hooks[h].invoice,
   amount |-> rows[Row(hooks[h].session)].amount]

\* UPDATE ... WHERE paid_at IS NULL.
\* Mutant of markable: paid rows are found as well.
AnyRow(k) == TRUE

markable(k) == ~rows[k].paid

\* One transaction: markPaidIfPending and writeEvent.
markPaid(h) ==
  LET k == Row(hooks[h].session)
  IN /\ hooks[h].pc = "deciding"
     /\ markable(k)
     /\ rows' = [rows EXCEPT ![k].paid = TRUE]
     /\ events' = Append(events, PaymentOf(h))
     /\ Answer200(h)
     /\ UNCHANGED <<billing, stripe, handed, reqs, faults, repeats>>

alreadyPaid(h) ==
  /\ hooks[h].pc = "deciding"
  /\ ~markable(Row(hooks[h].session))
  /\ Answer200(h)
  /\ UNCHANGED <<billing, stripe, rows, handed, reqs, events, faults, repeats>>

\* Mutant of hookFails: the failure is swallowed and answered with 200.
HookSwallows(h) ==
  /\ hooks[h].pc \in {"found", "deciding"}
  /\ faults < MaxFaults
  /\ faults' = faults + 1
  /\ Answer200(h)
  /\ UNCHANGED <<billing, stripe, rows, handed, reqs, events, repeats>>

\* billing or the database fails, or the process dies: 500, or no answer.
hookFails(h) ==
  /\ hooks[h].pc \in {"found", "deciding"}
  /\ faults < MaxFaults
  /\ faults' = faults + 1
  /\ hooks' = [hooks EXCEPT ![h] = NoHook]
  /\ UNCHANGED <<billing, stripe, rows, handed, reqs, due, events, repeats>>

HookStep(h) ==
  \/ \E s \in Sessions : findBySessionId(h, s)
  \/ resolveForBooking(h) \/ markPaid(h) \/ alreadyPaid(h) \/ hookFails(h)

-----------------------------------------------------------------------------
\* Billing.

SetPaidIfCovered(i, paid) ==
  IF invoices[i].status = "sent" /\ paid >= invoices[i].total
  THEN [invoices EXCEPT ![i].status = "paid"] ELSE invoices

\* The payment consumer; payment_id makes a booking unique.
bookEvent(k) ==
  LET e == events[k]
  IN /\ k \notin consumed
     /\ consumed' = consumed \cup {k}
     /\ booked' = booked \cup {<<e.invoice, e.session>>}
     /\ invoices' = SetPaidIfCovered(e.invoice, paidOre(e.invoice) + e.amount)
     /\ UNCHANGED <<bank, stripe, rows, handed, reqs, hooks, due, events, faults, repeats>>

\* A bank payment of 1 is booked.
bankPayment ==
  /\ invoices[Current].status = "sent"
  /\ bank[1] + bank[2] < MaxBank
  /\ bank' = [bank EXCEPT ![Current] = @ + 1]
  /\ invoices' = SetPaidIfCovered(Current, paidOre(Current) + 1)
  /\ UNCHANGED <<booked, consumed, stripe, rows, handed, reqs, hooks, due, events, faults, repeats>>

createReminder ==
  /\ MaxReminders > 0
  /\ invoices[1].status = "sent"
  /\ remainingOre(1) > 0
  /\ invoices' = [invoices EXCEPT ![1].status = "superseded",
                                  ![2] = [status |-> "sent", total |-> remainingOre(1) + Fee]]
  /\ UNCHANGED <<bank, booked, consumed, stripe, rows, handed, reqs, hooks, due, events, faults, repeats>>

BillingStep == \E k \in DOMAIN events : bookEvent(k)

Next ==
  \/ \E r \in Requests : RequestStep(r)
  \/ \E s \in Sessions : completeSession(s) \/ expireSession(s) \/ repeatDelivery(s)
  \/ \E h \in Hooks : HookStep(h)
  \/ BillingStep \/ bankPayment \/ createReminder

Spec == Init /\ [][Next]_vars

\* Stripe repeats a delivery until it is answered, the handler ends, and
\* billing's consumer runs. Faults are bounded, so some delivery is handled.
Fairness ==
  /\ \A h \in Hooks : WF_vars(HookStep(h))
  /\ WF_vars(BillingStep)

FairSpec == Spec /\ Fairness

-----------------------------------------------------------------------------
\* Properties.

TypeOK ==
  /\ invoices \in [Invoices -> [status : {"none", "sent", "paid", "superseded"}, total : Nat]]
  /\ bank \in [Invoices -> 0..MaxBank]
  /\ booked \subseteq Invoices \X Sessions
  /\ stripe \in [Sessions -> [state : {"none", "open", "complete", "expired"}, amount : Nat]]
  /\ \A k \in DOMAIN rows :
       rows[k] \in [session : Sessions, invoice : Invoices, amount : Nat \ {0}, paid : BOOLEAN]
  /\ handed \subseteq Sessions /\ due \subseteq Sessions
  /\ reqs \in [Requests -> [pc : {"idle", "resolved", "create", "insert", "answered"},
                            invoice : Invoices \cup {NULL}, amount : Nat,
                            session : Sessions \cup {NULL}]]
  /\ hooks \in [Hooks -> [pc : {"idle", "found", "deciding"}, session : Sessions \cup {NULL},
                          invoice : Invoices \cup {NULL}]]
  /\ consumed \subseteq DOMAIN events
  /\ faults \in 0..MaxFaults /\ repeats \in 0..MaxRepeats

\* A session somebody has paid has its row in stripe_payments, so that the
\* webhook finds it, whatever failed while it was made (service.ts:143-148:
\* a webhook for an unknown session puts no money at risk).
PaidHasRow ==
  \A s \in Sessions : stripe[s].state = "complete" => HasRow(s)

\* Redelivered and simultaneous webhooks write at most one payment event for a
\* session, and it says exactly what Stripe collected (markPaidIfPending,
\* handleCheckoutCompleted).
OneTrueEvent ==
  \A s \in Sessions :
    LET of == {k \in DOMAIN events : events[k].session = s}
    IN /\ Cardinality(of) <= 1
       /\ \A k \in of : stripe[s].state = "complete" /\ events[k].amount = stripe[s].amount

\* What the customer is charged is on record once, and truly.
PaidOnRecord == PaidHasRow /\ OneTrueEvent

\* Of one invoice at most one session can be paid at any time: pay requests
\* that come one after another reuse the pending one (findActivePendingByInvoice).
OnePayable ==
  \A i \in Invoices :
    Cardinality({k \in DOMAIN rows : /\ rows[k].invoice = i
                                     /\ stripe[rows[k].session].state = "open"}) <= 1

\* Money collected by Stripe is eventually booked in billing, whatever calls
\* fail on the way (the webhook answers 200 only after its transaction).
PaidIsBooked ==
  \A s \in Sessions : (stripe[s].state = "complete") ~> (\E i \in Invoices : <<i, s>> \in booked)

-----------------------------------------------------------------------------
(* What the code does not keep, though its documents say so: see the README. *)

\* The url a pay request is answered with charges the remainingOre that this
\* request read (service.ts:60).
AnswerIsLive ==
  \A r \in Requests :
    reqs[r].pc = "answered" => stripe[reqs[r].session].amount = reqs[r].amount

\* The customer is never charged more than the invoice, as long as nobody else
\* pays it and requests come one at a time (e2e/stripe.test.ts:248).
NotChargedTwice == Charged({s \in Sessions : stripe[s].state = "complete"}) <= Total
=============================================================================
