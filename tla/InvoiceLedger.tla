--------------------------- MODULE InvoiceLedger ---------------------------
(***************************************************************************)
(* The tables one tenant's invoices live in, and the database transactions *)
(* of services/billing (invoices, company-settings, payments) and of       *)
(* services/payments (matching, admin) that change them.  One operator is  *)
(* one transaction: the row locks of the code (invoice row first, then the *)
(* company_settings row) are what makes a transaction one step here.       *)
(*                                                                         *)
(* Left out: customers, lines and VAT (an invoice has one total), OCR      *)
(* digits (an OCR is the invoice its number was given to), audit rows,     *)
(* delivery status, currency.  Dates are days counted from 0.              *)
(***************************************************************************)
EXTENDS Integers, FiniteSets

CONSTANTS
  MaxOriginals,  \* bound: drafts and generated invoices ever created
  MaxTemplates,  \* bound: invoice templates ever created
  MaxDay,        \* bound: last day of the calendar
  PaymentId,     \* bank transactions the tenant may receive
  Amount,        \* totals a draft's lines may come to (0 is legal)
  PayAmount,     \* amounts a bank transaction may carry
  Fee,           \* reminder fees an admin may set
  Terms          \* payment terms in days

ASSUME BoundsAssumption ==
  MaxOriginals \in Nat /\ MaxTemplates \in Nat /\ MaxDay \in Nat

ASSUME MoneyAssumption ==
  /\ Amount \subseteq Nat /\ Fee \subseteq Nat /\ Terms \subseteq Nat
  /\ PayAmount \subseteq Nat \ {0}

ASSUME PaymentIdAssumption == IsFiniteSet(PaymentId)

VARIABLES
  today,      \* todayInStockholm()
  settings,   \* the company_settings row
  invoices,   \* the invoices table, a row per id
  snapshots,  \* the invoice_snapshots table
  events,     \* document events written to event_outbox
  payments,   \* the invoice_payments table
  bank,       \* the bank_transactions table, a row per external id
  matched,    \* payment.matched / payment.partial events published
  processed   \* processed_events rows of consumer 'billing'

ledgerVars == <<settings, invoices, snapshots, events, payments, bank, matched, processed>>

Day == 0..MaxDay
TemplateId == 1..MaxTemplates

\* Every original gets at most one successor, a credit note or a reminder
\* (OneSuccessor), so twice as many ids are never used up.
InvoiceId == 1..(2 * MaxOriginals)

\* SQL NULL in a column that refers to an invoice or a template, and a field
\* the body of a PUT leaves out.
NULL == 0
Keep == -1

InvoiceType == {"invoice", "credit_note", "reminder"}

\* "none": no row has this id yet; "deleted": the draft was removed, and an
\* IDENTITY column never hands out the id again.
Status == {"none", "deleted", "draft", "sent", "overdue", "paid", "credited",
           "superseded", "settled"}

InvoiceRow ==
  [type: InvoiceType, status: Status, number: Nat, total: Int, issued: Nat, due: Nat,
   credits: InvoiceId \cup {NULL}, reminds: InvoiceId \cup {NULL},
   supersededBy: InvoiceId \cup {NULL}, template: TemplateId \cup {NULL}]

NoRow ==
  [type |-> "invoice", status |-> "none", number |-> 0, total |-> 0, issued |-> 0, due |-> 0,
   credits |-> NULL, reminds |-> NULL, supersededBy |-> NULL, template |-> NULL]

CREDITABLE == {"sent", "overdue", "paid"}
REMINDABLE == {"sent", "overdue"}
BOOKABLE == {"sent", "overdue"}

Row(i) == invoices[i].status \notin {"none", "deleted"}
Numbered(i) == invoices[i].number # 0

\* SELECT SUM(amount_ore): the size of a set with one element for each unit
\* of money in each of the invoice's rows.
PaidIn(rows, i) ==
  Cardinality(UNION {{row} \X (1..row.amount) : row \in {r \in rows : r.invoice = i}})

PaidOre(i) == PaidIn(payments, i)

RemainingOre(i) == invoices[i].total - PaidOre(i)

\* The end of the chain of superseded_by_invoice_id that starts at i.
resolveCurrent(i) ==
  LET next(j) == IF invoices[j].supersededBy = NULL THEN j ELSE invoices[j].supersededBy
      at[n \in 0..(2 * MaxOriginals)] == IF n = 0 THEN i ELSE next(at[n - 1])
  IN  at[2 * MaxOriginals]

----------------------------------------------------------------------------
(* Rows, numbers and documents *)

\* The id the IDENTITY column hands out next.
Fresh(i) ==
  /\ invoices[i].status = "none"
  /\ \A j \in InvoiceId : j < i => invoices[j].status # "none"

Originals == {i \in InvoiceId : invoices[i].status # "none" /\ invoices[i].type = "invoice"}
RoomForOriginal == Cardinality(Originals) < MaxOriginals

\* Mutant of allocateNumber: the counter is read but not moved.
allocateNumberWithoutBump ==
  /\ settings.complete
  /\ UNCHANGED settings

\* The locked company_settings row must name the sender; the number is taken
\* and the counter moved in the same transaction.
allocateNumber ==
  /\ settings.complete
  /\ settings' = [settings EXCEPT !.nextNumber = @ + 1]

\* insertSnapshot and writeEvent of the document i, whose row is r.
issueDocument(i, r, type) ==
  /\ snapshots' = snapshots \cup
       {[invoice |-> i, number |-> r.number, total |-> r.total,
         issued |-> r.issued, due |-> r.due, reminds |-> r.reminds]}
  /\ events' = events \cup {[type |-> type, invoice |-> i]}

----------------------------------------------------------------------------
(* Admin operations *)

\* PUT /admin/company-settings.  The schema admits no empty string, so the
\* sender's particulars once filled in are changed but never blanked.
UpdateSettings(complete, fee) ==
  /\ settings.complete => complete
  /\ settings' = [settings EXCEPT !.complete = complete, !.fee = fee]
  /\ UNCHANGED <<invoices, snapshots, events, payments, bank, matched, processed>>

\* POST /admin/invoices: a draft has neither number nor OCR.  The due date is
\* the given one or the issue date plus the terms.
CreateInvoice(i, issued, due, total) ==
  /\ Fresh(i) /\ RoomForOriginal
  /\ issued <= today /\ issued <= due
  /\ invoices' = [invoices EXCEPT ![i] =
       [NoRow EXCEPT !.status = "draft", !.issued = issued, !.due = due, !.total = total]]
  /\ UNCHANGED <<settings, snapshots, events, payments, bank, matched, processed>>

\* assertDates in update.  A date the request gives is a string, one read from
\* the row is a JS Date: a comparison of the two kinds is always false, so
\* due < issued is noticed only when both dates have the same origin.
assertDatesOfUpdate(givenIssued, givenDue, issued, due) ==
  /\ givenIssued # Keep => issued <= today
  /\ (givenIssued = Keep <=> givenDue = Keep) => issued <= due

\* Mutant of UpdateInvoice: fields the request leaves out are written too.
UpdateInvoiceWritingBlanks(i, givenIssued, givenDue, givenTotal) ==
  /\ invoices[i].status = "draft"
  /\ givenIssued # Keep => givenIssued <= today
  /\ invoices' = [invoices EXCEPT ![i] =
       [@ EXCEPT !.issued = givenIssued, !.due = givenDue, !.total = givenTotal]]
  /\ UNCHANGED <<settings, snapshots, events, payments, bank, matched, processed>>

\* Mutant of UpdateInvoice: a sent invoice may be edited like a draft.
UpdateInvoiceAlsoSent(i, givenIssued, givenDue, givenTotal) ==
  /\ invoices[i].status \in {"draft", "sent"}
  /\ givenDue # Keep
  /\ invoices' = [invoices EXCEPT ![i].due = givenDue]
  /\ UNCHANGED <<settings, snapshots, events, payments, bank, matched, processed>>

\* PUT /admin/invoices/:id; Keep stands for a field the request leaves out.
UpdateInvoice(i, givenIssued, givenDue, givenTotal) ==
  LET old == invoices[i]
      issued == IF givenIssued = Keep THEN old.issued ELSE givenIssued
      due == IF givenDue = Keep THEN old.due ELSE givenDue
      total == IF givenTotal = Keep THEN old.total ELSE givenTotal
  IN  /\ old.status = "draft"
      /\ assertDatesOfUpdate(givenIssued, givenDue, issued, due)
      /\ invoices' = [invoices EXCEPT ![i] =
           [old EXCEPT !.issued = issued, !.due = due, !.total = total]]
      /\ UNCHANGED <<settings, snapshots, events, payments, bank, matched, processed>>

\* DELETE /admin/invoices/:id: only a draft, so no number is lost.
RemoveInvoice(i) ==
  /\ invoices[i].status = "draft"
  /\ invoices' = [invoices EXCEPT ![i] = [NoRow EXCEPT !.status = "deleted"]]
  /\ UNCHANGED <<settings, snapshots, events, payments, bank, matched, processed>>

\* The draft with its number, as markSent leaves it.
sentRow(i) == [invoices[i] EXCEPT !.status = "sent", !.number = settings.nextNumber]

\* POST /admin/invoices/:id/send
SendInvoice(i) ==
  /\ invoices[i].status = "draft"
  /\ allocateNumber
  /\ invoices' = [invoices EXCEPT ![i] = sentRow(i)]
  /\ issueDocument(i, sentRow(i), "invoice.sent")
  /\ UNCHANGED <<payments, bank, matched, processed>>

\* The credit note cancels the whole of i, whatever has been paid.
creditNote(i) ==
  [NoRow EXCEPT !.type = "credit_note", !.status = "settled", !.number = settings.nextNumber,
     !.total = -invoices[i].total, !.issued = today, !.due = today, !.credits = i]

\* POST /admin/invoices/:id/credit
CreditInvoice(i, c) ==
  /\ invoices[i].type = "invoice"
  /\ invoices[i].status \in CREDITABLE
  /\ Fresh(c)
  /\ allocateNumber
  /\ invoices' = [invoices EXCEPT ![c] = creditNote(i), ![i].status = "credited"]
  /\ issueDocument(c, creditNote(i), "invoice.credited")
  /\ UNCHANGED <<payments, bank, matched, processed>>

----------------------------------------------------------------------------
(* Operations of the nightly run *)

\* UPDATE invoices SET status = 'overdue' of a run that took `day` for today.
MarkOverdue(day) ==
  /\ invoices' = [i \in InvoiceId |->
       IF invoices[i].status = "sent" /\ invoices[i].due < day
       THEN [invoices[i] EXCEPT !.status = "overdue"]
       ELSE invoices[i]]
  /\ UNCHANGED <<settings, snapshots, events, payments, bank, matched, processed>>

\* Mutant of ReminderCandidates: the due date itself counts as passed.
ReminderCandidatesOnDueDay(day) ==
  {i \in InvoiceId :
     /\ invoices[i].due <= day
     /\ invoices[i].status \in REMINDABLE
     /\ invoices[i].type = "invoice"}

\* Mutant of ReminderCandidates: invoices already marked overdue are not listed.
ReminderCandidatesOnlySent(day) ==
  {i \in InvoiceId :
     /\ invoices[i].due < day
     /\ invoices[i].status = "sent"
     /\ invoices[i].type = "invoice"}

\* findReminderCandidates: read without a lock.
ReminderCandidates(day) ==
  {i \in InvoiceId :
     /\ invoices[i].due < day
     /\ invoices[i].status \in REMINDABLE
     /\ invoices[i].type = "invoice"
     /\ invoices[i].reminds = NULL
     /\ ~ \E j \in InvoiceId : Row(j) /\ invoices[j].reminds = i}

\* Mutant of StillRemindable: the candidate list is trusted, only the debt is
\* looked at again under the lock.
StillRemindableByDebt(i) ==
  /\ invoices[i].type = "invoice"
  /\ RemainingOre(i) > 0

\* What createReminderInTx looks at again under the row lock.  The due date is
\* not among it.
StillRemindable(i) ==
  /\ invoices[i].type = "invoice"
  /\ invoices[i].status \in REMINDABLE
  /\ invoices[i].reminds = NULL
  /\ invoices[i].supersededBy = NULL
  /\ RemainingOre(i) > 0

\* The reminder takes over what remains of i, plus the fee.
reminderRow(i, day, terms) ==
  [NoRow EXCEPT !.type = "reminder", !.status = "sent", !.number = settings.nextNumber,
     !.total = RemainingOre(i) + settings.fee, !.issued = day, !.due = day + terms, !.reminds = i]

\* createReminderInTx
CreateReminder(i, c, day, terms) ==
  /\ StillRemindable(i)
  /\ Fresh(c)
  /\ allocateNumber
  /\ invoices' = [invoices EXCEPT ![c] = reminderRow(i, day, terms),
                    ![i].status = "superseded", ![i].supersededBy = c]
  /\ issueDocument(c, reminderRow(i, day, terms), "invoice.reminder_sent")
  /\ UNCHANGED <<payments, bank, matched, processed>>

\* A generated invoice is issued on the day its template was scheduled for.
generatedRow(t, scheduled, total, terms) ==
  [NoRow EXCEPT !.status = "sent", !.number = settings.nextNumber, !.total = total,
     !.issued = scheduled, !.due = scheduled + terms, !.template = t]

\* The ledger's part of generateFromTemplateInTx: an invoice sent at once.
GenerateInvoice(c, t, scheduled, total, terms) ==
  /\ Fresh(c) /\ RoomForOriginal
  /\ allocateNumber
  /\ invoices' = [invoices EXCEPT ![c] = generatedRow(t, scheduled, total, terms)]
  /\ issueDocument(c, generatedRow(t, scheduled, total, terms), "invoice.sent")
  /\ UNCHANGED <<payments, bank, matched, processed>>

\* parent_template_id REFERENCES invoice_templates ON DELETE SET NULL
ForgetTemplate(t) ==
  /\ invoices' = [i \in InvoiceId |->
       IF invoices[i].template = t THEN [invoices[i] EXCEPT !.template = NULL]
       ELSE invoices[i]]
  /\ UNCHANGED <<settings, snapshots, events, payments, bank, matched, processed>>

----------------------------------------------------------------------------
(* Bank transactions and their bookings *)

NoTransaction == [status |-> "none", amount |-> 0, invoice |-> NULL]

\* resolvePending or markMatched, and the event, in one transaction.  The paymentId
\* of the event is "<source>:<externalId>" when the match was automatic and
\* "manual:<id>" when an admin made it.
publishMatch(p, amount, invoice, manual) ==
  /\ bank' = [bank EXCEPT ![p] =
       [status |-> "matched", amount |-> amount, invoice |-> invoice]]
  /\ matched' = matched \cup
       {[payment |-> p, manual |-> manual, invoice |-> invoice, amount |-> amount]}

\* match and decideMatch for a bank transaction whose bankgiro the tenant owns
\* and whose OCR was given to invoice i: booked on the end of i's chain if that
\* is unpaid and owes at least the amount, else left to an admin.
MatchPayment(p, i, amount) ==
  /\ bank[p].status = "none"
  /\ Numbered(i)
  /\ \E current \in InvoiceId :
       /\ current = resolveCurrent(i)
       /\ IF invoices[current].status \in BOOKABLE /\ amount <= RemainingOre(current)
          THEN publishMatch(p, amount, current, FALSE)
          ELSE /\ bank' = [bank EXCEPT ![p] =
                    [status |-> "manual_review", amount |-> amount, invoice |-> NULL]]
               /\ UNCHANGED matched
  /\ UNCHANGED <<settings, invoices, snapshots, events, payments, processed>>

\* The same for an OCR no invoice has ("manual_review") and for a bankgiro no
\* tenant has ("unmatched").
MatchUnknown(p, amount, status) ==
  /\ bank[p].status = "none"
  /\ status \in {"manual_review", "unmatched"}
  /\ bank' = [bank EXCEPT ![p] = [status |-> status, amount |-> amount, invoice |-> NULL]]
  /\ UNCHANGED <<settings, invoices, snapshots, events, payments, matched, processed>>

\* Mutant of MatchManually: a transaction already decided is matched again.
MatchManuallyAgain(p, i, acceptOverpayment) ==
  /\ bank[p].status \in {"manual_review", "matched"}
  /\ Row(i)
  /\ \E current \in InvoiceId :
       /\ current = resolveCurrent(i)
       /\ invoices[current].status \in BOOKABLE
       /\ bank[p].amount <= RemainingOre(current) \/ acceptOverpayment
       /\ publishMatch(p, bank[p].amount, current, TRUE)
  /\ UNCHANGED <<settings, invoices, snapshots, events, payments, processed>>

\* POST /admin/payments/:id/match
MatchManually(p, i, acceptOverpayment) ==
  /\ bank[p].status = "manual_review"
  /\ Row(i)
  /\ \E current \in InvoiceId :
       /\ current = resolveCurrent(i)
       /\ invoices[current].status \in BOOKABLE
       /\ bank[p].amount <= RemainingOre(current) \/ acceptOverpayment
       /\ publishMatch(p, bank[p].amount, current, TRUE)
  /\ UNCHANGED <<settings, invoices, snapshots, events, payments, processed>>

\* POST /admin/payments/:id/ignore
IgnorePayment(p) ==
  /\ bank[p].status = "manual_review"
  /\ bank' = [bank EXCEPT ![p].status = "ignored"]
  /\ UNCHANGED <<settings, invoices, snapshots, events, payments, matched, processed>>

\* UNIQUE (tenant_id, payment_id), ON CONFLICT DO NOTHING
insertPayment(m) ==
  IF \E row \in payments : row.payment = m.payment /\ row.manual = m.manual
  THEN payments
  ELSE payments \cup {[id |-> Cardinality(payments) + 1, payment |-> m.payment,
                       manual |-> m.manual, invoice |-> m.invoice, amount |-> m.amount]}

\* Mutant of ApplyPayment: the sum is taken before the row is inserted.
ApplyPaymentStaleSum(m) ==
  /\ m \in matched \ processed
  /\ Row(m.invoice)
  /\ processed' = processed \cup {m}
  /\ payments' = insertPayment(m)
  /\ invoices' = [invoices EXCEPT ![m.invoice].status =
       IF @ \in BOOKABLE /\ PaidOre(m.invoice) >= invoices[m.invoice].total THEN "paid" ELSE @]
  /\ UNCHANGED <<settings, snapshots, events, bank, matched>>

\* Mutant of ApplyPayment: a covered invoice becomes paid whatever its status.
ApplyPaymentAnyStatus(m) ==
  /\ m \in matched \ processed
  /\ Row(m.invoice)
  /\ processed' = processed \cup {m}
  /\ payments' = insertPayment(m)
  /\ invoices' = [invoices EXCEPT ![m.invoice].status =
       IF PaidIn(insertPayment(m), m.invoice) >= invoices[m.invoice].total THEN "paid" ELSE @]
  /\ UNCHANGED <<settings, snapshots, events, bank, matched>>

\* Mutant of ApplyPayment: money for an invoice no longer unpaid is refused.
ApplyPaymentOnlyBookable(m) ==
  /\ m \in matched \ processed
  /\ invoices[m.invoice].status \in BOOKABLE
  /\ processed' = processed \cup {m}
  /\ payments' = insertPayment(m)
  /\ invoices' = [invoices EXCEPT ![m.invoice].status =
       IF PaidIn(insertPayment(m), m.invoice) >= invoices[m.invoice].total THEN "paid" ELSE @]
  /\ UNCHANGED <<settings, snapshots, events, bank, matched>>

\* apply, the consumer's transaction for one delivery of the event m.  A second
\* delivery finds the event processed and changes nothing.  The money is booked
\* on the invoice the event names in whatever status that is by now; only an
\* unpaid one becomes paid, and only when the fresh sum covers it.
ApplyPayment(m) ==
  /\ m \in matched \ processed
  /\ Row(m.invoice)
  /\ processed' = processed \cup {m}
  /\ payments' = insertPayment(m)
  /\ invoices' = [invoices EXCEPT ![m.invoice].status =
       IF @ \in BOOKABLE /\ PaidIn(insertPayment(m), m.invoice) >= invoices[m.invoice].total THEN "paid" ELSE @]
  /\ UNCHANGED <<settings, snapshots, events, bank, matched>>

----------------------------------------------------------------------------
LedgerInit ==
  /\ today = 0
  /\ \E fee \in Fee : settings = [complete |-> FALSE, nextNumber |-> 1, fee |-> fee]
  /\ invoices = [i \in InvoiceId |-> NoRow]
  /\ snapshots = {} /\ events = {}
  /\ payments = {} /\ bank = [p \in PaymentId |-> NoTransaction]
  /\ matched = {} /\ processed = {}
=============================================================================
