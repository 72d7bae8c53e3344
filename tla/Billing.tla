------------------------------ MODULE Billing ------------------------------
(***************************************************************************)
(* One tenant's billing: the transactions of InvoiceLedger composed with   *)
(* the processes that call them.  The nightly runs of automation/ act on   *)
(* lists they read earlier and on the day they started, two of them may    *)
(* overlap once the Redis lock has expired, and each step of a run may     *)
(* fail or be its last.  Admins edit templates in a read and a later       *)
(* write.  The payment consumer applies events at any later time, once or  *)
(* more.                                                                   *)
(***************************************************************************)
EXTENDS InvoiceLedger

CONSTANTS
  Run,         \* executions of runOnce, one per process that calls it
  Editor,      \* admin requests that are in the middle of updateTemplate
  EditDate,    \* dates such a request may give
  TemplateAmount, \* totals a template's lines may come to
  Interval,    \* lengths of a billing interval in days
  MaxCatchup,  \* MAX_CATCHUP_PER_TEMPLATE
  RunMayFail   \* whether steps of a run may fail and runs may crash

ASSUME AutomationAssumption ==
  /\ Interval \subseteq Nat \ {0} /\ TemplateAmount \subseteq Nat
  /\ EditDate \subseteq Nat
  /\ MaxCatchup \in Nat \ {0}
  /\ RunMayFail \in BOOLEAN

VARIABLES
  templates,  \* the invoice_templates table, a row per id
  edits,      \* for each editor, the row it read and has not yet written back
  runs,       \* for each run, where it is and what it has read
  lockHeld    \* whether the Redis key of the run lock exists

vars == <<today, ledgerVars, templates, edits, runs, lockHeld>>

automationVars == <<templates, edits, runs, lockHeld>>

NoTemplate == [status |-> "none", next |-> 0, active |-> FALSE, interval |-> 0, total |-> 0]
NoEdit == [template |-> NULL, row |-> NoTemplate]
Idle == [phase |-> "idle", day |-> 0, reminders |-> {}, due |-> {}, generated |-> 0]

Live(t) == templates[t].status = "live"

\* Mutant of Due: a template is due only on the very day.
DueOnTheDay(t, day) == Live(t) /\ templates[t].active /\ templates[t].next = day

\* Due: the row lock, is_active and next_generation_date <= today.
Due(t, day) == Live(t) /\ templates[t].active /\ templates[t].next <= day

\* The run is done with template t.
passTemplate(r, t) == [runs[r] EXCEPT !.due = @ \ {t}, !.generated = 0]

\* ORDER BY id
First(x, S) == x \in S /\ \A y \in S : x <= y

----------------------------------------------------------------------------
(* Templates *)

\* POST /admin/invoice-templates: never in the past.
CreateTemplate(t, next, interval, total) ==
  /\ templates[t].status = "none"
  /\ \A u \in TemplateId : u < t => templates[u].status # "none"
  /\ next >= today
  /\ templates' = [templates EXCEPT ![t] =
       [status |-> "live", next |-> next, active |-> TRUE, interval |-> interval, total |-> total]]
  /\ UNCHANGED <<today, ledgerVars, edits, runs, lockHeld>>

\* updateTemplate begins: findTemplateById, which takes no lock.
ReadTemplate(e, t) ==
  /\ edits[e] = NoEdit
  /\ Live(t)
  /\ edits' = [edits EXCEPT ![e] = [template |-> t, row |-> templates[t]]]
  /\ UNCHANGED <<today, ledgerVars, templates, runs, lockHeld>>

\* updateTemplate ends: UPDATE of every column, the ones the request leaves out
\* with the values that were read.  It finds no row if the template is gone.
WriteTemplate(e, next, active, interval, total) ==
  LET t == edits[e].template
      read == edits[e].row
  IN  /\ edits[e] # NoEdit
      /\ next # read.next => next >= today
      /\ templates' = IF ~Live(t) THEN templates ELSE [templates EXCEPT ![t] =
           [@ EXCEPT !.next = next, !.active = active, !.interval = interval, !.total = total]]
      /\ edits' = [edits EXCEPT ![e] = NoEdit]
      /\ UNCHANGED <<today, ledgerVars, runs, lockHeld>>

\* DELETE /admin/invoice-templates/:id
RemoveTemplate(t) ==
  /\ Live(t)
  /\ templates' = [templates EXCEPT ![t] = [NoTemplate EXCEPT !.status = "deleted"]]
  /\ ForgetTemplate(t)
  /\ UNCHANGED <<today, edits, runs, lockHeld>>

----------------------------------------------------------------------------
(* The nightly run: runner.ts and automation/service.ts *)

\* runOnce: SET NX EX, then runDaily fixes the day for the whole run.
StartRun(r) ==
  /\ runs[r].phase = "idle"
  /\ ~lockHeld
  /\ lockHeld' = TRUE
  /\ runs' = [runs EXCEPT ![r] = [Idle EXCEPT !.phase = "overdue", !.day = today]]
  /\ UNCHANGED <<today, ledgerVars, templates, edits>>

\* The lock's hour has passed, whether or not its run has ended.
LockExpires ==
  /\ lockHeld
  /\ lockHeld' = FALSE
  /\ UNCHANGED <<today, ledgerVars, templates, edits, runs>>

RunOverdue(r) ==
  /\ runs[r].phase = "overdue"
  /\ MarkOverdue(runs[r].day)
  /\ runs' = [runs EXCEPT ![r].phase = "select"]
  /\ UNCHANGED <<today, templates, edits, lockHeld>>

RunSelect(r) ==
  /\ runs[r].phase = "select"
  /\ runs' = [runs EXCEPT ![r].phase = "remind",
                          ![r].reminders = ReminderCandidates(runs[r].day)]
  /\ UNCHANGED <<today, ledgerVars, templates, edits, lockHeld>>

\* One candidate, in its own transaction.
RunRemind(r, i, c, terms) ==
  /\ runs[r].phase = "remind"
  /\ First(i, runs[r].reminders)
  /\ CreateReminder(i, c, runs[r].day, terms)
  /\ runs' = [runs EXCEPT ![r].reminders = @ \ {i}]
  /\ UNCHANGED <<today, templates, edits, lockHeld>>

\* A candidate that is none any more, or a sender without particulars (422,
\* caught and counted).
RunSkipReminder(r, i) ==
  /\ runs[r].phase = "remind"
  /\ First(i, runs[r].reminders)
  /\ ~StillRemindable(i) \/ ~settings.complete
  /\ runs' = [runs EXCEPT ![r].reminders = @ \ {i}]
  /\ UNCHANGED <<today, ledgerVars, templates, edits, lockHeld>>

RunListTemplates(r) ==
  /\ runs[r].phase = "remind"
  /\ runs[r].reminders = {}
  /\ runs' = [runs EXCEPT ![r].phase = "generate",
                          ![r].due = {t \in TemplateId : Due(t, runs[r].day)}]
  /\ UNCHANGED <<today, ledgerVars, templates, edits, lockHeld>>

\* Mutant of RunGenerate: what the run's list says is not checked again under
\* the template's lock.
RunGenerateUnchecked(r, t, c, terms) ==
  /\ runs[r].phase = "generate"
  /\ First(t, runs[r].due)
  /\ Live(t)
  /\ GenerateInvoice(c, t, templates[t].next, templates[t].total, terms)
  /\ templates' = [templates EXCEPT ![t].next = @ + templates[t].interval]
  /\ runs' = [runs EXCEPT ![r].due = @ \ {t}]
  /\ UNCHANGED <<today, edits, lockHeld>>

\* Mutant of RunGenerate: the template's date is not moved.
RunGenerateSameDate(r, t, c, terms) ==
  /\ runs[r].phase = "generate"
  /\ First(t, runs[r].due)
  /\ Due(t, runs[r].day)
  /\ GenerateInvoice(c, t, templates[t].next, templates[t].total, terms)
  /\ runs' = [runs EXCEPT ![r].due = @ \ {t}]
  /\ UNCHANGED <<today, templates, edits, lockHeld>>

\* One period of one template, in its own transaction: the invoice and the
\* template's next date.  The template stays on the list until it is no longer
\* due or has been billed MaxCatchup times in this run.
RunGenerate(r, t, c, terms) ==
  /\ runs[r].phase = "generate"
  /\ First(t, runs[r].due)
  /\ Due(t, runs[r].day)
  /\ GenerateInvoice(c, t, templates[t].next, templates[t].total, terms)
  /\ templates' = [templates EXCEPT ![t].next = @ + templates[t].interval]
  /\ runs' = [runs EXCEPT ![r] =
       IF runs[r].generated + 1 = MaxCatchup
       THEN passTemplate(r, t)
       ELSE [runs[r] EXCEPT !.generated = @ + 1]]
  /\ UNCHANGED <<today, edits, lockHeld>>

RunSkipTemplate(r, t) ==
  /\ runs[r].phase = "generate"
  /\ First(t, runs[r].due)
  /\ ~Due(t, runs[r].day) \/ ~settings.complete
  /\ runs' = [runs EXCEPT ![r] = passTemplate(r, t)]
  /\ UNCHANGED <<today, ledgerVars, templates, edits, lockHeld>>

\* finally: DEL of the key, whoever holds it by now.
FinishRun(r) ==
  /\ runs[r].phase = "generate"
  /\ runs[r].due = {}
  /\ runs' = [runs EXCEPT ![r] = Idle]
  /\ lockHeld' = FALSE
  /\ UNCHANGED <<today, ledgerVars, templates, edits>>

\* A statement of the run fails: the step is logged, counted and passed over.
RunStepFails(r) ==
  /\ RunMayFail
  /\ \/ /\ runs[r].phase = "overdue"
        /\ runs' = [runs EXCEPT ![r].phase = "select"]
     \/ /\ runs[r].phase = "select"
        /\ runs' = [runs EXCEPT ![r].phase = "remind"]
     \/ /\ runs[r].phase = "remind" /\ runs[r].reminders # {}
        /\ \E i \in InvoiceId : /\ First(i, runs[r].reminders)
                                /\ runs' = [runs EXCEPT ![r].reminders = @ \ {i}]
     \/ /\ runs[r].phase = "remind" /\ runs[r].reminders = {}
        /\ runs' = [runs EXCEPT ![r].phase = "generate"]
     \/ /\ runs[r].phase = "generate"
        /\ \E t \in TemplateId : /\ First(t, runs[r].due)
                                 /\ runs' = [runs EXCEPT ![r] = passTemplate(r, t)]
  /\ UNCHANGED <<today, ledgerVars, templates, edits, lockHeld>>

\* The process dies; the key stays until it expires.
RunCrashes(r) ==
  /\ RunMayFail
  /\ runs[r].phase # "idle"
  /\ runs' = [runs EXCEPT ![r] = Idle]
  /\ UNCHANGED <<today, ledgerVars, templates, edits, lockHeld>>

----------------------------------------------------------------------------
NextDay ==
  /\ today < MaxDay
  /\ today' = today + 1
  /\ UNCHANGED <<ledgerVars, automationVars>>

Init ==
  /\ LedgerInit
  /\ templates = [t \in TemplateId |-> NoTemplate]
  /\ edits = [e \in Editor |-> NoEdit]
  /\ runs = [r \in Run |-> Idle]
  /\ lockHeld = FALSE

\* Requests of an admin to the invoice and settings endpoints.
AdminStep ==
  /\ \/ \E complete \in BOOLEAN, fee \in Fee : UpdateSettings(complete, fee)
     \/ \E i \in InvoiceId, issued \in Day, terms \in Terms, total \in Amount :
          CreateInvoice(i, issued, issued + terms, total)
     \/ \E i \in InvoiceId, issued, due \in Day \cup {Keep}, total \in Amount \cup {Keep} :
          UpdateInvoice(i, issued, due, total)
     \/ \E i \in InvoiceId : RemoveInvoice(i)
     \/ \E i \in InvoiceId : SendInvoice(i)
     \/ \E i, c \in InvoiceId : CreditInvoice(i, c)
  /\ UNCHANGED <<today, automationVars>>

\* Bank transactions arrive, are matched and reviewed.
PaymentStep ==
  /\ \/ \E p \in PaymentId, i \in InvoiceId, amount \in PayAmount : MatchPayment(p, i, amount)
     \/ \E p \in PaymentId, amount \in PayAmount, status \in {"manual_review", "unmatched"} :
          MatchUnknown(p, amount, status)
     \/ \E p \in PaymentId, i \in InvoiceId, accept \in BOOLEAN : MatchManually(p, i, accept)
     \/ \E p \in PaymentId : IgnorePayment(p)
  /\ UNCHANGED <<today, automationVars>>

\* The payment consumer gets one delivery of an event.
ConsumeStep ==
  /\ \E m \in matched : ApplyPayment(m)
  /\ UNCHANGED <<today, automationVars>>

TemplateStep ==
  \/ \E t \in TemplateId, next \in Day, interval \in Interval, total \in TemplateAmount :
       CreateTemplate(t, next, interval, total)
  \/ \E e \in Editor, t \in TemplateId : ReadTemplate(e, t)
  \/ \E e \in Editor, active \in BOOLEAN, interval \in Interval, total \in TemplateAmount :
       \E next \in EditDate \cup {edits[e].row.next} :
         WriteTemplate(e, next, active, interval, total)
  \/ \E t \in TemplateId : RemoveTemplate(t)

RunStep(r) ==
  \/ RunOverdue(r)
  \/ RunSelect(r)
  \/ \E i, c \in InvoiceId, terms \in Terms : RunRemind(r, i, c, terms)
  \/ \E i \in InvoiceId : RunSkipReminder(r, i)
  \/ RunListTemplates(r)
  \/ \E t \in TemplateId, c \in InvoiceId, terms \in Terms : RunGenerate(r, t, c, terms)
  \/ \E t \in TemplateId : RunSkipTemplate(r, t)
  \/ FinishRun(r)

RunFault(r) == RunStepFails(r) \/ RunCrashes(r)

Next ==
  \/ AdminStep
  \/ PaymentStep
  \/ ConsumeStep
  \/ TemplateStep
  \/ \E r \in Run : StartRun(r) \/ RunStep(r) \/ RunFault(r)
  \/ LockExpires
  \/ NextDay

Spec == Init /\ [][Next]_vars

\* The scheduler starts a run whenever none is going on, a run goes on, Redis
\* expires the lock, and the broker delivers what it holds until it is acked.
Fairness ==
  /\ WF_vars(ConsumeStep)
  /\ WF_vars(LockExpires)
  /\ \A r \in Run : WF_vars(StartRun(r)) /\ WF_vars(RunStep(r))

FairSpec == Spec /\ Fairness

----------------------------------------------------------------------------
(* Type invariant *)

Phase == {"idle", "overdue", "select", "remind", "generate"}

TransactionStatus == {"none", "manual_review", "unmatched", "matched", "ignored"}

PaymentRow ==
  [id: Nat, payment: PaymentId, manual: BOOLEAN, invoice: InvoiceId, amount: Nat]

PaymentEvent == [payment: PaymentId, manual: BOOLEAN, invoice: InvoiceId, amount: Nat]

TemplateRow ==
  [status: {"none", "live", "deleted"}, next: Nat, active: BOOLEAN, interval: Nat, total: Nat]

\* Every variable holds what its table, message or process may hold.
TypeOK ==
  /\ today \in Nat
  /\ settings \in [complete: BOOLEAN, nextNumber: Nat, fee: Nat]
  /\ invoices \in [InvoiceId -> InvoiceRow]
  /\ snapshots \subseteq [invoice: InvoiceId, number: Nat, total: Int, issued: Nat, due: Nat,
                         reminds: InvoiceId \cup {NULL}]
  /\ events \subseteq [type: {"invoice.sent", "invoice.credited", "invoice.reminder_sent"},
                      invoice: InvoiceId]
  /\ payments \subseteq PaymentRow
  /\ IsFiniteSet(payments)
  /\ bank \in [PaymentId -> [status: TransactionStatus, amount: Nat,
                            invoice: InvoiceId \cup {NULL}]]
  /\ matched \subseteq PaymentEvent
  /\ processed \subseteq matched
  /\ templates \in [TemplateId -> TemplateRow]
  /\ edits \in [Editor -> [template: TemplateId \cup {NULL}, row: TemplateRow]]
  /\ runs \in [Run -> [phase: Phase, day: Nat, reminders: SUBSET InvoiceId,
                      due: SUBSET TemplateId, generated: Nat]]
  /\ lockHeld \in BOOLEAN

----------------------------------------------------------------------------
(* Safety *)

\* Invoice numbers are the unbroken series 1 .. next_invoice_number - 1: no
\* number is given twice or lost, whichever of send, credit, reminder and
\* recurring generation takes it and however they interleave, and exactly the
\* rows that are no drafts have one (allocateNumber under the settings lock).
NumbersGapless ==
  /\ {invoices[i].number : i \in {j \in InvoiceId : Numbered(j)}} = 1..(settings.nextNumber - 1)
  /\ \A i, j \in InvoiceId : Numbered(i) /\ invoices[i].number = invoices[j].number => i = j
  /\ \A i \in InvoiceId : Numbered(i) <=> Row(i) /\ invoices[i].status # "draft"

\* j was made to replace i: it credits it or reminds of it.
Succeeds(j, i) == Row(j) /\ (invoices[j].credits = i \/ invoices[j].reminds = i)

\* A debt is claimed by one document at a time.  No invoice is both credited and
\* reminded of, or either of them twice, by overlapping runs and admins; the
\* replaced invoice has left sent/overdue; a credit note cancels the original's
\* total, and a superseded invoice points to its reminder, which is itself
\* neither credited nor reminded of (createReminderInTx, creditInTx).
OneSuccessor ==
  \A i \in InvoiceId :
    /\ \A j, k \in InvoiceId : Succeeds(j, i) /\ Succeeds(k, i) => j = k
    /\ \A j \in InvoiceId : Succeeds(j, i) =>
         /\ invoices[i].type = "invoice"
         /\ \/ /\ invoices[j].credits = i /\ invoices[j].type = "credit_note"
               /\ invoices[i].status = "credited"
               /\ invoices[j].total = -invoices[i].total
            \/ /\ invoices[j].reminds = i /\ invoices[j].type = "reminder"
               /\ invoices[i].status = "superseded"
               /\ invoices[i].supersededBy = j
    /\ invoices[i].status \in {"credited", "superseded"} =>
         \E j \in InvoiceId : Succeeds(j, i)

\* Nobody is dunned early: an overdue invoice is past its due date, and a
\* reminder is issued after the due date of its original, although the run
\* checks the due date only when it lists its candidates, without a lock.
DunningAfterDue ==
  \A i \in InvoiceId :
    /\ invoices[i].status = "overdue" => invoices[i].due < today
    /\ \A j \in InvoiceId : Row(j) /\ invoices[j].reminds = i => invoices[i].due < invoices[j].issued

\* The status tells what the money says: a paid invoice is covered by its
\* payment rows, and no invoice that still counts as unpaid is covered by them,
\* whatever was booked, credited or reminded in between (setPaidIfCovered).
PaidIffCovered ==
  \A i \in InvoiceId :
    /\ invoices[i].status = "paid" => PaidOre(i) >= invoices[i].total
    /\ invoices[i].status \in BOOKABLE /\ (\E row \in payments : row.invoice = i) =>
         PaidOre(i) < invoices[i].total

\* Money that arrived once is booked at most once, with its amount and on the
\* invoice its bank transaction was matched to, although the paymentIds of an
\* automatic and of a manual match of one transaction differ and the UNIQUE key
\* cannot tell; and an event that was processed has been booked: redelivery
\* neither doubles nor loses it (apply, lockForDecision).
BookedOnce ==
  /\ \A row \in payments :
       /\ bank[row.payment].status = "matched"
       /\ bank[row.payment].invoice = row.invoice
       /\ bank[row.payment].amount = row.amount
       /\ \A other \in payments : other.payment = row.payment => other = row
  /\ \A m \in processed : \E row \in payments : row.payment = m.payment

DocumentEvent(i) ==
  CASE invoices[i].type = "invoice" -> "invoice.sent"
    [] invoices[i].type = "credit_note" -> "invoice.credited"
    [] invoices[i].type = "reminder" -> "invoice.reminder_sent"

\* What the customer gets is what the books say: every numbered invoice has
\* exactly one snapshot, which still agrees with its row after all later edits,
\* payments and runs, and is announced by exactly the event of its type.
DocumentsFaithful ==
  \A i \in InvoiceId :
    /\ {s \in snapshots : s.invoice = i} =
         IF Numbered(i)
         THEN {[invoice |-> i, number |-> invoices[i].number, total |-> invoices[i].total,
                issued |-> invoices[i].issued, due |-> invoices[i].due,
                reminds |-> invoices[i].reminds]}
         ELSE {}
    /\ {e.type : e \in {f \in events : f.invoice = i}} =
         IF Numbered(i) THEN {DocumentEvent(i)} ELSE {}

\* No template bills the same period twice, although two runs may have it on
\* their lists at once (lockTemplate, services.ts:698-702).
OneInvoicePerPeriod ==
  \A i, j \in InvoiceId :
    /\ Row(i) /\ Row(j)
    /\ invoices[i].template # NULL
    /\ invoices[i].template = invoices[j].template
    /\ invoices[i].issued = invoices[j].issued
    => i = j

\* No period is billed ahead of time: an invoice made from a template is issued
\* on a day that has come, although a run acts on a list of templates that
\* another run, an edit or a pause may have overtaken.
NotBilledAhead ==
  \A i \in InvoiceId : Row(i) /\ invoices[i].template # NULL => invoices[i].issued <= today

\* An invoice is never due before it is issued (assertDates).
DueNotBeforeIssued ==
  \A i \in InvoiceId : Row(i) => invoices[i].issued <= invoices[i].due

----------------------------------------------------------------------------
(* Action properties *)

\* What may become of a status in one step.
Later(status) ==
  CASE status = "none" -> {"draft", "sent", "settled"}
    [] status = "draft" -> {"sent", "deleted"}
    [] status = "sent" -> {"overdue", "paid", "credited", "superseded"}
    [] status = "overdue" -> {"paid", "credited", "superseded"}
    [] status = "paid" -> {"credited"}
    [] OTHER -> {}

\* Status never goes backwards (rules/domain.md #3): a payment applied late never
\* revives a credited or superseded invoice, a run never reopens a paid one.
StatusNeverBackwards ==
  [][\A i \in InvoiceId :
       invoices'[i].status # invoices[i].status =>
         invoices'[i].status \in Later(invoices[i].status)]_vars

\* Payments are booked at the end of the chain, never on an invoice that a
\* reminder has replaced (services.ts:115-116).
BookedAtChainEnd ==
  [][\A row \in payments' \ payments : invoices[row.invoice].supersededBy = NULL]_vars

----------------------------------------------------------------------------
(* Liveness *)

\* Money matched to an invoice is booked in the end, whatever happens to the
\* invoice between the decision and the booking.
MatchedIsBooked ==
  \A p \in PaymentId :
    bank[p].status = "matched" ~> \E row \in payments : row.payment = p

\* An invoice past its due date with money outstanding does not stay so: it is
\* paid, credited, or replaced by a reminder.
DebtIsPursued ==
  \A i \in InvoiceId :
    StillRemindable(i) /\ invoices[i].due < today ~> invoices[i].status \notin REMINDABLE

\* A template that is due is billed up to the present day, however far it has
\* fallen behind and although one run bills at most MaxCatchup periods of it.
TemplatesCatchUp ==
  \A t \in TemplateId :
    settings.complete /\ Live(t) /\ templates[t].active /\ templates[t].next <= today
      ~> ~Live(t) \/ ~templates[t].active \/ templates[t].next > today
=============================================================================
