--------------------------- MODULE Billing_proofs ---------------------------
(***************************************************************************)
(* Theorems about Billing for every number of invoices, templates, runs,   *)
(* editors and days.                                                       *)
(*                                                                         *)
(* The first part is about numbers, sums and locks.  The second is about   *)
(* what an issued document claims: its successor, its snapshot and event,  *)
(* its payments, its dates and its template.  It rests on three facts      *)
(* about the rows of the invoices table: a row without a number is blank,  *)
(* an issued row is frozen but for its status and its link to a reminder   *)
(* or template, and there are four ways to become issued.  The last part   *)
(* is about what the nightly runs do with the lists and the day they read  *)
(* when they started: nobody is dunned early, no period is billed ahead of *)
(* its time, and none is billed twice as long as no edit moves a           *)
(* template's date back.                                                   *)
(***************************************************************************)
EXTENDS Billing, FiniteSetTheorems, TLAPS

----------------------------------------------------------------------------
(* The sum of an invoice's payment rows *)

\* The rows an invoice's sum is taken over, each split into its units of money.
LEMMA PaidFinite ==
  ASSUME NEW rows, IsFiniteSet(rows), NEW i,
         \A row \in rows : row.amount \in Nat
  PROVE  /\ IsFiniteSet(UNION {{row} \X (1..row.amount) : row \in {r \in rows : r.invoice = i}})
         /\ PaidIn(rows, i) \in Nat
<1> DEFINE mine == {r \in rows : r.invoice = i}
           units(row) == {row} \X (1..row.amount)
           all == {units(row) : row \in mine}
           f == [row \in mine |-> units(row)]
<1>1. IsFiniteSet(mine)
  BY FS_Subset
<1>2. f \in Surjection(mine, all)
  BY DEF Surjection
<1>3. IsFiniteSet(all)
  BY <1>1, <1>2, FS_Surjection
<1>4. ASSUME NEW T \in all PROVE IsFiniteSet(T)
  <2>1. PICK row \in mine : T = units(row)
    OBVIOUS
  <2>2. IsFiniteSet({row})
    BY FS_Singleton
  <2>3. row.amount \in Int
    OBVIOUS
  <2>4. IsFiniteSet(1..row.amount)
    BY <2>3, FS_Interval
  <2> QED
    BY <2>1, <2>2, <2>4, FS_Product
<1>5. IsFiniteSet(UNION all)
  BY <1>3, <1>4, FS_UNION
<1> QED
  BY <1>5, FS_CardinalityType DEF PaidIn

----------------------------------------------------------------------------
(* Types *)

\* The types of the tables an invoice transaction writes.
InvoicesTyped == invoices \in [InvoiceId -> InvoiceRow]
SettingsTyped == settings \in [complete: BOOLEAN, nextNumber: Nat, fee: Nat]
SnapshotsTyped ==
  snapshots \subseteq [invoice: InvoiceId, number: Nat, total: Int, issued: Nat, due: Nat,
                       reminds: InvoiceId \cup {NULL}]
EventsTyped ==
  events \subseteq [type: {"invoice.sent", "invoice.credited", "invoice.reminder_sent"},
                    invoice: InvoiceId]

\* A row that does not exist is a row.
LEMMA NoRowType == NoRow \in InvoiceRow
BY DEF NoRow, InvoiceRow, InvoiceType, Status, NULL

\* Taking a number and issuing the document of a row keep three tables typed.
LEMMA IssueType ==
  ASSUME SettingsTyped, SnapshotsTyped, EventsTyped, allocateNumber,
         NEW i \in InvoiceId, NEW r \in InvoiceRow,
         NEW type \in {"invoice.sent", "invoice.credited", "invoice.reminder_sent"},
         issueDocument(i, r, type)
  PROVE  SettingsTyped' /\ SnapshotsTyped' /\ EventsTyped'
<1>1. SettingsTyped'
  BY DEF SettingsTyped, allocateNumber
<1>2. SnapshotsTyped'
  BY DEF SnapshotsTyped, issueDocument, InvoiceRow
<1>3. EventsTyped'
  BY DEF EventsTyped, issueDocument
<1> QED
  BY <1>1, <1>2, <1>3

\* What is left to pay is an integer.
LEMMA RemainingType ==
  ASSUME TypeOK, NEW i \in InvoiceId
  PROVE  RemainingOre(i) \in Int
<1>1. \A row \in payments : row.amount \in Nat
  BY DEF TypeOK, PaymentRow
<1>2. PaidOre(i) \in Nat
  BY <1>1, PaidFinite DEF TypeOK, PaidOre
<1>3. invoices[i].total \in Int
  BY DEF TypeOK, InvoiceRow
<1> QED
  BY <1>2, <1>3 DEF RemainingOre

\* An admin's request leaves the tables typed.
LEMMA AdminStepType == TypeOK /\ AdminStep => TypeOK'
<1> SUFFICES ASSUME TypeOK, AdminStep PROVE TypeOK'
  OBVIOUS
<1> USE MoneyAssumption, BoundsAssumption
<1>1. ASSUME NEW complete \in BOOLEAN, NEW fee \in Fee, UpdateSettings(complete, fee),
             UNCHANGED <<today, automationVars>>
      PROVE  TypeOK'
  BY <1>1 DEF TypeOK, UpdateSettings, automationVars
<1>2. ASSUME NEW i \in InvoiceId, NEW issued \in Day, NEW terms \in Terms, NEW total \in Amount,
             CreateInvoice(i, issued, issued + terms, total),
             UNCHANGED <<today, automationVars>>
      PROVE  TypeOK'
  <2>1. issued \in Nat /\ issued + terms \in Nat /\ total \in Int
    BY DEF Day
  <2>2. [NoRow EXCEPT !.status = "draft", !.issued = issued, !.due = issued + terms,
           !.total = total] \in InvoiceRow
    BY <2>1, NoRowType DEF InvoiceRow, Status
  <2>3. InvoicesTyped'
    BY <1>2, <2>2 DEF InvoicesTyped, CreateInvoice, TypeOK
  <2> QED
    BY <1>2, <2>3 DEF TypeOK, CreateInvoice, automationVars, InvoicesTyped
<1>3. ASSUME NEW i \in InvoiceId, NEW issued \in Day \cup {Keep}, NEW due \in Day \cup {Keep},
             NEW total \in Amount \cup {Keep}, UpdateInvoice(i, issued, due, total),
             UNCHANGED <<today, automationVars>>
      PROVE  TypeOK'
  <2>1. InvoicesTyped'
    <3>1. invoices[i] \in InvoiceRow
      BY DEF TypeOK
    <3>2. /\ (IF issued = Keep THEN invoices[i].issued ELSE issued) \in Nat
          /\ (IF due = Keep THEN invoices[i].due ELSE due) \in Nat
          /\ (IF total = Keep THEN invoices[i].total ELSE total) \in Int
      BY <3>1 DEF InvoiceRow, Day
    <3> QED
      BY <1>3, <3>1, <3>2 DEF InvoicesTyped, UpdateInvoice, TypeOK, InvoiceRow
  <2> QED
    BY <1>3, <2>1 DEF TypeOK, UpdateInvoice, automationVars, InvoicesTyped
<1>4. ASSUME NEW i \in InvoiceId, RemoveInvoice(i), UNCHANGED <<today, automationVars>>
      PROVE  TypeOK'
  <2>1. [NoRow EXCEPT !.status = "deleted"] \in InvoiceRow
    BY NoRowType DEF InvoiceRow, Status
  <2>2. InvoicesTyped'
    BY <1>4, <2>1 DEF InvoicesTyped, RemoveInvoice, TypeOK
  <2> QED
    BY <1>4, <2>2 DEF TypeOK, RemoveInvoice, automationVars, InvoicesTyped
<1>5. ASSUME NEW i \in InvoiceId, SendInvoice(i), UNCHANGED <<today, automationVars>>
      PROVE  TypeOK'
  <2>1. sentRow(i) \in InvoiceRow
    <3>1. invoices[i] \in InvoiceRow /\ settings.nextNumber \in Nat
      BY DEF TypeOK
    <3> QED
      BY <3>1 DEF sentRow, InvoiceRow, Status
  <2>2. SettingsTyped' /\ SnapshotsTyped' /\ EventsTyped'
    BY <1>5, <2>1, IssueType DEF SendInvoice, TypeOK, SettingsTyped, SnapshotsTyped, EventsTyped
  <2>3. InvoicesTyped'
    BY <1>5, <2>1 DEF InvoicesTyped, SendInvoice, TypeOK
  <2> QED
    BY <1>5, <2>2, <2>3 DEF TypeOK, SendInvoice, automationVars, InvoicesTyped, SettingsTyped,
       SnapshotsTyped, EventsTyped
<1>6. ASSUME NEW i \in InvoiceId, NEW c \in InvoiceId, CreditInvoice(i, c),
             UNCHANGED <<today, automationVars>>
      PROVE  TypeOK'
  <2>1. creditNote(i) \in InvoiceRow
    <3>1. -invoices[i].total \in Int /\ settings.nextNumber \in Nat /\ today \in Nat
      BY DEF TypeOK, InvoiceRow
    <3> QED
      BY <3>1, NoRowType DEF creditNote, InvoiceRow, Status, InvoiceType
  <2>2. SettingsTyped' /\ SnapshotsTyped' /\ EventsTyped'
    BY <1>6, <2>1, IssueType DEF CreditInvoice, TypeOK, SettingsTyped, SnapshotsTyped, EventsTyped
  <2>3. InvoicesTyped'
    <3> DEFINE inserted == [invoices EXCEPT ![c] = creditNote(i)]
    <3>1. inserted \in [InvoiceId -> InvoiceRow]
      BY <2>1 DEF TypeOK
    <3>2. [inserted[i] EXCEPT !.status = "credited"] \in InvoiceRow
      BY <3>1 DEF InvoiceRow, Status
    <3>3. invoices' = [inserted EXCEPT ![i] = [inserted[i] EXCEPT !.status = "credited"]]
      BY <1>6 DEF CreditInvoice
    <3> QED
      BY <3>1, <3>2, <3>3 DEF InvoicesTyped
  <2> QED
    BY <1>6, <2>2, <2>3 DEF TypeOK, CreditInvoice, automationVars, InvoicesTyped, SettingsTyped,
       SnapshotsTyped, EventsTyped
<1> QED
  BY <1>1, <1>2, <1>3, <1>4, <1>5, <1>6 DEF AdminStep

\* Deciding on and booking a bank transaction leave the tables typed.
LEMMA PaymentStepType == TypeOK /\ PaymentStep => TypeOK'
<1> SUFFICES ASSUME TypeOK, PaymentStep PROVE TypeOK'
  OBVIOUS
<1> USE MoneyAssumption
<1>1. ASSUME NEW p \in PaymentId, NEW amount \in Nat, NEW invoice \in InvoiceId,
             NEW manual \in BOOLEAN, publishMatch(p, amount, invoice, manual)
      PROVE  /\ bank' \in [PaymentId -> [status: TransactionStatus, amount: Nat,
                                        invoice: InvoiceId \cup {NULL}]]
             /\ matched' \subseteq PaymentEvent
             /\ processed \subseteq matched'
  BY <1>1 DEF publishMatch, TypeOK, PaymentEvent, TransactionStatus
<1>2. ASSUME NEW p \in PaymentId, NEW i \in InvoiceId, NEW amount \in PayAmount,
             MatchPayment(p, i, amount), UNCHANGED <<today, automationVars>>
      PROVE  TypeOK'
  <2>1. PICK current \in InvoiceId :
          \/ publishMatch(p, amount, current, FALSE)
          \/ /\ bank' = [bank EXCEPT ![p] =
                   [status |-> "manual_review", amount |-> amount, invoice |-> NULL]]
             /\ UNCHANGED matched
    BY <1>2 DEF MatchPayment
  <2>2. CASE publishMatch(p, amount, current, FALSE)
    BY <1>1, <1>2, <2>2 DEF TypeOK, MatchPayment, automationVars
  <2>3. CASE /\ bank' = [bank EXCEPT ![p] =
                   [status |-> "manual_review", amount |-> amount, invoice |-> NULL]]
             /\ UNCHANGED matched
    BY <1>2, <2>3 DEF TypeOK, MatchPayment, automationVars, TransactionStatus
  <2> QED
    BY <2>1, <2>2, <2>3
<1>3. ASSUME NEW p \in PaymentId, NEW amount \in PayAmount,
             NEW status \in {"manual_review", "unmatched"},
             MatchUnknown(p, amount, status), UNCHANGED <<today, automationVars>>
      PROVE  TypeOK'
  BY <1>3 DEF TypeOK, MatchUnknown, automationVars, TransactionStatus
<1>4. ASSUME NEW p \in PaymentId, NEW i \in InvoiceId, NEW accept \in BOOLEAN,
             MatchManually(p, i, accept), UNCHANGED <<today, automationVars>>
      PROVE  TypeOK'
  <2>1. PICK current \in InvoiceId : publishMatch(p, bank[p].amount, current, TRUE)
    BY <1>4 DEF MatchManually
  <2>2. bank[p].amount \in Nat
    BY DEF TypeOK
  <2> QED
    BY <1>1, <1>4, <2>1, <2>2 DEF TypeOK, MatchManually, automationVars
<1>5. ASSUME NEW p \in PaymentId, IgnorePayment(p), UNCHANGED <<today, automationVars>>
      PROVE  TypeOK'
  BY <1>5 DEF TypeOK, IgnorePayment, automationVars, TransactionStatus
<1> QED
  BY <1>2, <1>3, <1>4, <1>5 DEF PaymentStep

\* Booking an event inserts at most one row and keeps the table finite.
LEMMA InsertPaymentType ==
  ASSUME TypeOK, NEW m \in PaymentEvent
  PROVE  /\ insertPayment(m) \subseteq PaymentRow
         /\ IsFiniteSet(insertPayment(m))
<1>1. Cardinality(payments) \in Nat
  BY FS_CardinalityType DEF TypeOK
<1>2. IsFiniteSet(insertPayment(m))
  BY FS_AddElement DEF insertPayment, TypeOK
<1>3. insertPayment(m) \subseteq PaymentRow
  BY <1>1 DEF insertPayment, TypeOK, PaymentEvent, PaymentRow
<1> QED
  BY <1>2, <1>3

\* A delivery to the payment consumer leaves the tables typed.
LEMMA ConsumeStepType == TypeOK /\ ConsumeStep => TypeOK'
<1> SUFFICES ASSUME TypeOK, ConsumeStep PROVE TypeOK'
  OBVIOUS
<1>1. PICK m \in matched : ApplyPayment(m)
  BY DEF ConsumeStep
<1>2. m \in PaymentEvent /\ m.invoice \in InvoiceId
  BY DEF TypeOK, PaymentEvent
<1>3. /\ payments' \subseteq PaymentRow
      /\ IsFiniteSet(payments')
  BY <1>1, <1>2, InsertPaymentType DEF ApplyPayment
<1>4. InvoicesTyped'
  <2>1. PICK status \in Status : invoices' = [invoices EXCEPT ![m.invoice].status = status]
    BY <1>1, <1>2 DEF ApplyPayment, TypeOK, InvoiceRow, Status
  <2>2. [invoices[m.invoice] EXCEPT !.status = status] \in InvoiceRow
    <3>1. invoices[m.invoice] \in InvoiceRow
      BY <1>2 DEF TypeOK
    <3> QED
      BY <3>1 DEF InvoiceRow
  <2> QED
    BY <1>2, <2>1, <2>2 DEF InvoicesTyped, TypeOK
<1> QED
  BY <1>1, <1>3, <1>4 DEF TypeOK, ConsumeStep, ApplyPayment, automationVars, InvoicesTyped

\* Template requests leave the tables typed.
LEMMA TemplateStepType == TypeOK /\ TemplateStep => TypeOK'
<1> SUFFICES ASSUME TypeOK, TemplateStep PROVE TypeOK'
  OBVIOUS
<1> USE AutomationAssumption
<1>1. ASSUME NEW t \in TemplateId, NEW next \in Day, NEW interval \in Interval,
             NEW total \in TemplateAmount, CreateTemplate(t, next, interval, total)
      PROVE  TypeOK'
  <2>1. [status |-> "live", next |-> next, active |-> TRUE, interval |-> interval,
          total |-> total] \in TemplateRow
    BY DEF TemplateRow, Day
  <2> QED
    BY <1>1, <2>1 DEF TypeOK, CreateTemplate, ledgerVars
<1>2. ASSUME NEW e \in Editor, NEW t \in TemplateId, ReadTemplate(e, t)
      PROVE  TypeOK'
  BY <1>2 DEF TypeOK, ReadTemplate, ledgerVars
<1>3. ASSUME NEW e \in Editor, NEW active \in BOOLEAN, NEW interval \in Interval,
             NEW total \in TemplateAmount, NEW next \in EditDate \cup {edits[e].row.next},
             WriteTemplate(e, next, active, interval, total)
      PROVE  TypeOK'
  <2>1. next \in Nat
    BY DEF TypeOK, TemplateRow
  <2>2. NoEdit \in [template: TemplateId \cup {NULL}, row: TemplateRow]
    BY DEF NoEdit, NoTemplate, TemplateRow
  <2>3. edits' \in [Editor -> [template: TemplateId \cup {NULL}, row: TemplateRow]]
    BY <1>3, <2>2 DEF WriteTemplate, TypeOK
  <2>4. templates' \in [TemplateId -> TemplateRow]
    <3>1. ASSUME NEW u \in TemplateId
          PROVE  [templates[u] EXCEPT !.next = next, !.active = active, !.interval = interval,
                    !.total = total] \in TemplateRow
      <4>1. templates[u] \in TemplateRow /\ interval \in Nat /\ total \in Nat
        BY DEF TypeOK
      <4> QED
        BY <2>1, <4>1 DEF TemplateRow
    <3> QED
      BY <1>3, <3>1 DEF WriteTemplate, TypeOK
  <2> QED
    BY <1>3, <2>3, <2>4 DEF TypeOK, WriteTemplate, ledgerVars
<1>4. ASSUME NEW t \in TemplateId, RemoveTemplate(t)
      PROVE  TypeOK'
  <2>1. [NoTemplate EXCEPT !.status = "deleted"] \in TemplateRow
    BY DEF NoTemplate, TemplateRow
  <2>2. templates' \in [TemplateId -> TemplateRow]
    BY <1>4, <2>1 DEF RemoveTemplate, TypeOK
  <2>3. InvoicesTyped'
    BY <1>4 DEF RemoveTemplate, ForgetTemplate, InvoicesTyped, TypeOK, InvoiceRow
  <2> QED
    BY <1>4, <2>2, <2>3 DEF TypeOK, RemoveTemplate, ForgetTemplate, InvoicesTyped
<1> QED
  BY <1>1, <1>2, <1>3, <1>4 DEF TemplateStep

\* Starting, stepping, failing and ending a run leave the tables typed.
LEMMA RunType ==
  ASSUME NEW r \in Run, TypeOK, StartRun(r) \/ RunStep(r) \/ RunFault(r)
  PROVE  TypeOK'
<1> DEFINE RunRow == [phase: Phase, day: Nat, reminders: SUBSET InvoiceId,
                      due: SUBSET TemplateId, generated: Nat]
<1> USE MoneyAssumption, AutomationAssumption
<1>0. runs[r] \in RunRow /\ Idle \in RunRow
  BY DEF TypeOK, Idle, Phase
<1>1. ASSUME StartRun(r) PROVE TypeOK'
  <2>1. [Idle EXCEPT !.phase = "overdue", !.day = today] \in RunRow
    BY <1>0 DEF TypeOK, Phase
  <2> QED
    BY <1>1, <2>1 DEF TypeOK, StartRun, ledgerVars
<1>2. ASSUME RunOverdue(r) PROVE TypeOK'
  <2>0. \A i \in InvoiceId : invoices[i] \in InvoiceRow
    BY DEF TypeOK
  <2>1. \A i \in InvoiceId : [invoices[i] EXCEPT !.status = "overdue"] \in InvoiceRow
    BY <2>0 DEF InvoiceRow, Status
  <2>2. InvoicesTyped'
    BY <1>2, <2>1 DEF RunOverdue, MarkOverdue, InvoicesTyped, TypeOK
  <2>3. [runs[r] EXCEPT !.phase = "select"] \in RunRow
    BY <1>0 DEF Phase
  <2> QED
    BY <1>2, <2>2, <2>3 DEF TypeOK, RunOverdue, MarkOverdue, InvoicesTyped
<1>3. ASSUME RunSelect(r) PROVE TypeOK'
  <2>1. ReminderCandidates(runs[r].day) \in SUBSET InvoiceId
    BY DEF ReminderCandidates
  <2>2. [[runs[r] EXCEPT !.phase = "remind"] EXCEPT !.reminders = ReminderCandidates(runs[r].day)]
          \in RunRow
    BY <1>0, <2>1 DEF Phase
  <2> QED
    BY <1>3, <2>2 DEF TypeOK, RunSelect, ledgerVars
<1>4. ASSUME NEW i \in InvoiceId, NEW c \in InvoiceId, NEW terms \in Terms,
             RunRemind(r, i, c, terms)
      PROVE  TypeOK'
  <2> DEFINE reminder == reminderRow(i, runs[r].day, terms)
  <2>1. reminder \in InvoiceRow
    <3>1. /\ settings.nextNumber \in Nat /\ settings.fee \in Nat
          /\ runs[r].day \in Nat /\ runs[r].day + terms \in Nat
      BY <1>0 DEF TypeOK
    <3>2. RemainingOre(i) + settings.fee \in Int
      BY <3>1, RemainingType
    <3> QED
      BY <3>1, <3>2, NoRowType DEF reminderRow, InvoiceRow, Status, InvoiceType
  <2>2. CreateReminder(i, c, runs[r].day, terms)
    BY <1>4 DEF RunRemind
  <2>3. SettingsTyped' /\ SnapshotsTyped' /\ EventsTyped'
    BY <2>1, <2>2, IssueType
    DEF CreateReminder, TypeOK, SettingsTyped, SnapshotsTyped, EventsTyped
  <2>4. InvoicesTyped'
    <3> DEFINE inserted == [invoices EXCEPT ![c] = reminder]
               closed == [[inserted[i] EXCEPT !.status = "superseded"] EXCEPT !.supersededBy = c]
    <3>1. inserted \in [InvoiceId -> InvoiceRow]
      BY <2>1 DEF TypeOK
    <3>2. closed \in InvoiceRow
      <4>1. inserted[i] \in InvoiceRow
        BY <3>1
      <4> QED
        BY <4>1 DEF InvoiceRow, Status
    <3>3. invoices' = [inserted EXCEPT ![i] = closed]
      BY <2>2 DEF CreateReminder, TypeOK
    <3> QED
      BY <3>1, <3>2, <3>3 DEF InvoicesTyped
  <2>5. [runs[r] EXCEPT !.reminders = @ \ {i}] \in RunRow
    BY <1>0
  <2> QED
    BY <1>4, <2>2, <2>3, <2>4, <2>5 DEF TypeOK, RunRemind, CreateReminder, InvoicesTyped,
       SettingsTyped, SnapshotsTyped, EventsTyped
<1>5. ASSUME NEW i \in InvoiceId, RunSkipReminder(r, i) PROVE TypeOK'
  <2>1. [runs[r] EXCEPT !.reminders = @ \ {i}] \in RunRow
    BY <1>0
  <2> QED
    BY <1>5, <2>1 DEF TypeOK, RunSkipReminder, ledgerVars
<1>6. ASSUME RunListTemplates(r) PROVE TypeOK'
  <2> DEFINE due == {t \in TemplateId : Due(t, runs[r].day)}
  <2>1. [[runs[r] EXCEPT !.phase = "generate"] EXCEPT !.due = due] \in RunRow
    BY <1>0 DEF Phase
  <2>2. runs' = [runs EXCEPT ![r] = [[runs[r] EXCEPT !.phase = "generate"] EXCEPT !.due = due]]
    BY <1>6 DEF RunListTemplates, TypeOK
  <2>3. runs' \in [Run -> RunRow]
    BY <2>1, <2>2 DEF TypeOK
  <2> QED
    BY <1>6, <2>3 DEF TypeOK, RunListTemplates, ledgerVars
<1>7. ASSUME NEW t \in TemplateId, NEW c \in InvoiceId, NEW terms \in Terms,
             RunGenerate(r, t, c, terms)
      PROVE  TypeOK'
  <2> DEFINE row == generatedRow(t, templates[t].next, templates[t].total, terms)
  <2>0. templates[t] \in TemplateRow /\ settings.nextNumber \in Nat
    BY DEF TypeOK
  <2>1. row \in InvoiceRow
    <3>1. templates[t].total \in Int /\ templates[t].next \in Nat
      BY <2>0 DEF TemplateRow
    <3>2. templates[t].next + terms \in Nat
      BY <3>1
    <3> QED
      BY <2>0, <3>1, <3>2, NoRowType DEF generatedRow, InvoiceRow, Status
  <2>2. GenerateInvoice(c, t, templates[t].next, templates[t].total, terms)
    BY <1>7 DEF RunGenerate
  <2>3. SettingsTyped' /\ SnapshotsTyped' /\ EventsTyped'
    BY <2>1, <2>2, IssueType
    DEF GenerateInvoice, TypeOK, SettingsTyped, SnapshotsTyped, EventsTyped
  <2>4. InvoicesTyped'
    BY <2>1, <2>2 DEF InvoicesTyped, GenerateInvoice, TypeOK
  <2>5. templates' \in [TemplateId -> TemplateRow]
    <3>1. [templates[t] EXCEPT !.next = @ + templates[t].interval] \in TemplateRow
      BY <2>0 DEF TemplateRow
    <3> QED
      BY <1>7, <3>1 DEF RunGenerate, TypeOK
  <2>6. runs' \in [Run -> RunRow]
    <3>1. passTemplate(r, t) \in RunRow
      BY <1>0 DEF passTemplate
    <3>2. [runs[r] EXCEPT !.generated = @ + 1] \in RunRow
      BY <1>0
    <3>3. runs' = [runs EXCEPT ![r] =
            IF runs[r].generated + 1 = MaxCatchup
            THEN passTemplate(r, t)
            ELSE [runs[r] EXCEPT !.generated = @ + 1]]
      BY <1>7 DEF RunGenerate
    <3>4. runs \in [Run -> RunRow]
      BY DEF TypeOK
    <3> QED
      BY <3>1, <3>2, <3>3, <3>4
  <2> QED
    BY <1>7, <2>2, <2>3, <2>4, <2>5, <2>6 DEF TypeOK, RunGenerate, GenerateInvoice, InvoicesTyped,
       SettingsTyped, SnapshotsTyped, EventsTyped
<1>8. ASSUME NEW t \in TemplateId, RunSkipTemplate(r, t) PROVE TypeOK'
  <2>1. passTemplate(r, t) \in RunRow
    BY <1>0 DEF passTemplate
  <2>2. runs' \in [Run -> RunRow]
    BY <1>8, <2>1 DEF TypeOK, RunSkipTemplate
  <2> QED
    BY <1>8, <2>2 DEF TypeOK, RunSkipTemplate, ledgerVars
<1>9. ASSUME FinishRun(r) PROVE TypeOK'
  BY <1>0, <1>9 DEF TypeOK, FinishRun, ledgerVars
<1>10. ASSUME RunStepFails(r) PROVE TypeOK'
  <2>1. [runs[r] EXCEPT !.phase = "select"] \in RunRow
    BY <1>0 DEF Phase
  <2>2. [runs[r] EXCEPT !.phase = "remind"] \in RunRow
    BY <1>0 DEF Phase
  <2>3. [runs[r] EXCEPT !.phase = "generate"] \in RunRow
    BY <1>0 DEF Phase
  <2>4. \A i \in InvoiceId : [runs[r] EXCEPT !.reminders = @ \ {i}] \in RunRow
    BY <1>0
  <2>5. \A t \in TemplateId : passTemplate(r, t) \in RunRow
    BY <1>0 DEF passTemplate
  <2>6. runs \in [Run -> RunRow]
    BY DEF TypeOK
  <2>7. \E row \in RunRow : runs' = [runs EXCEPT ![r] = row]
    <3>1. CASE runs' = [runs EXCEPT ![r].phase = "select"]
      BY <2>1, <3>1
    <3>2. CASE runs' = [runs EXCEPT ![r].phase = "remind"]
      BY <2>2, <3>2
    <3>3. CASE runs' = [runs EXCEPT ![r].phase = "generate"]
      BY <2>3, <3>3
    <3>4. CASE \E i \in InvoiceId : runs' = [runs EXCEPT ![r].reminders = @ \ {i}]
      BY <2>4, <3>4
    <3>5. CASE \E t \in TemplateId : runs' = [runs EXCEPT ![r] = passTemplate(r, t)]
      BY <2>5, <3>5
    <3> QED
      BY <1>10, <3>1, <3>2, <3>3, <3>4, <3>5 DEF RunStepFails
  <2>8. runs' \in [Run -> RunRow]
    BY <2>6, <2>7
  <2> QED
    BY <1>10, <2>8 DEF TypeOK, RunStepFails, ledgerVars
<1>11. ASSUME RunCrashes(r) PROVE TypeOK'
  BY <1>0, <1>11 DEF TypeOK, RunCrashes, ledgerVars
<1> QED
  BY <1>1, <1>2, <1>3, <1>4, <1>5, <1>6, <1>7, <1>8, <1>9, <1>10, <1>11 DEF RunStep, RunFault

\* The tables, messages and processes always hold what TypeOK says, whatever
\* the requests, payments, runs and faults.
THEOREM TypeCorrect == Spec => []TypeOK
<1>1. Init => TypeOK
  <2> SUFFICES ASSUME Init PROVE TypeOK
    OBVIOUS
  <2> USE DEF Init, LedgerInit
  <2>1. invoices \in [InvoiceId -> InvoiceRow]
    BY NoRowType
  <2>2. bank \in [PaymentId -> [status: TransactionStatus, amount: Nat, invoice: InvoiceId \cup {NULL}]]
    BY DEF NoTransaction, TransactionStatus
  <2>3. NoTemplate \in TemplateRow
    BY DEF NoTemplate, TemplateRow
  <2>4. edits \in [Editor -> [template: TemplateId \cup {NULL}, row: TemplateRow]]
    BY <2>3 DEF NoEdit
  <2>5. runs \in [Run -> [phase: Phase, day: Nat, reminders: SUBSET InvoiceId,
                          due: SUBSET TemplateId, generated: Nat]]
    BY DEF Idle, Phase
  <2>6. IsFiniteSet(payments)
    BY FS_EmptySet
  <2>7. settings \in [complete: BOOLEAN, nextNumber: Nat, fee: Nat]
    BY MoneyAssumption
  <2>8. templates \in [TemplateId -> TemplateRow]
    BY <2>3
  <2> QED
    BY <2>1, <2>2, <2>4, <2>5, <2>6, <2>7, <2>8 DEF TypeOK
<1>2. TypeOK /\ [Next]_vars => TypeOK'
  <2> SUFFICES ASSUME TypeOK, [Next]_vars PROVE TypeOK'
    OBVIOUS
  <2>1. CASE LockExpires
    BY <2>1 DEF TypeOK, LockExpires, ledgerVars
  <2>2. CASE NextDay
    BY <2>2 DEF TypeOK, NextDay, ledgerVars, automationVars
  <2>3. CASE UNCHANGED vars
    BY <2>3 DEF TypeOK, vars, ledgerVars
  <2> QED
    BY <2>1, <2>2, <2>3, AdminStepType, PaymentStepType, ConsumeStepType, TemplateStepType, RunType
    DEF Next
<1> QED
  BY <1>1, <1>2, PTL DEF Spec

----------------------------------------------------------------------------
(* What each transaction does to the invoices table, row by row *)

\* Sending changes the row of the draft only.
LEMMA SendEffect ==
  ASSUME TypeOK, NEW i \in InvoiceId, SendInvoice(i)
  PROVE  /\ invoices[i].status = "draft"
         /\ invoices'[i] = sentRow(i)
         /\ \A j \in InvoiceId \ {i} : invoices'[j] = invoices[j]
         /\ settings'.nextNumber = settings.nextNumber + 1
BY DEF TypeOK, SendInvoice, allocateNumber

\* Crediting inserts the credit note and closes the original.
LEMMA CreditEffect ==
  ASSUME TypeOK, NEW i \in InvoiceId, NEW c \in InvoiceId, CreditInvoice(i, c)
  PROVE  /\ invoices[i].type = "invoice" /\ invoices[i].status \in {"sent", "overdue", "paid"}
         /\ i # c /\ invoices[c].status = "none"
         /\ invoices'[c] = creditNote(i)
         /\ invoices'[i] = [invoices[i] EXCEPT !.status = "credited"]
         /\ \A j \in InvoiceId \ {i, c} : invoices'[j] = invoices[j]
         /\ settings'.nextNumber = settings.nextNumber + 1
<1>1. invoices[i].status \in {"sent", "overdue", "paid"} /\ invoices[c].status = "none"
  BY DEF CreditInvoice, CREDITABLE, Fresh
<1>2. i # c
  BY <1>1
<1> QED
  BY <1>1, <1>2 DEF TypeOK, CreditInvoice, allocateNumber

\* What a reminder c of day `day` does to its original i and the other rows.
Reminded(i, c, day, terms) ==
  /\ invoices[i].type = "invoice" /\ invoices[i].status \in {"sent", "overdue"}
  /\ i # c /\ invoices[c].status = "none"
  /\ invoices'[c] = reminderRow(i, day, terms)
  /\ invoices'[i] = [invoices[i] EXCEPT !.status = "superseded", !.supersededBy = c]
  /\ \A j \in InvoiceId \ {i, c} : invoices'[j] = invoices[j]
  /\ settings'.nextNumber = settings.nextNumber + 1

\* A reminder is inserted and closes its original.
LEMMA ReminderEffect ==
  ASSUME TypeOK, NEW r \in Run, NEW i \in InvoiceId, NEW c \in InvoiceId, NEW terms \in Terms,
         RunRemind(r, i, c, terms)
  PROVE  Reminded(i, c, runs[r].day, terms)
<1>0. CreateReminder(i, c, runs[r].day, terms)
  BY DEF RunRemind
<1>1. invoices[i].status \in {"sent", "overdue"} /\ invoices[c].status = "none"
  BY <1>0 DEF CreateReminder, StillRemindable, REMINDABLE, Fresh
<1>2. i # c
  BY <1>1
<1> QED
  BY <1>0, <1>1, <1>2 DEF TypeOK, CreateReminder, StillRemindable, allocateNumber, Reminded

\* Generation inserts one invoice.
LEMMA GenerateEffect ==
  ASSUME TypeOK, NEW r, NEW t, NEW c \in InvoiceId, NEW terms, RunGenerate(r, t, c, terms)
  PROVE  /\ invoices[c].status = "none"
         /\ invoices'[c] = generatedRow(t, templates[t].next, templates[t].total, terms)
         /\ \A j \in InvoiceId \ {c} : invoices'[j] = invoices[j]
         /\ settings'.nextNumber = settings.nextNumber + 1
BY DEF TypeOK, RunGenerate, GenerateInvoice, Fresh, allocateNumber

\* A change of status changes no other column.
LEMMA StatusOnly ==
  ASSUME TypeOK, NEW i \in InvoiceId, NEW s, NEW row,
         row = [invoices[i] EXCEPT !.status = s]
  PROVE  /\ row.status = s /\ row.number = invoices[i].number /\ row.type = invoices[i].type
         /\ row.credits = invoices[i].credits /\ row.reminds = invoices[i].reminds
         /\ row.supersededBy = invoices[i].supersededBy
         /\ row.template = invoices[i].template /\ row.total = invoices[i].total
         /\ row.issued = invoices[i].issued /\ row.due = invoices[i].due
<1>1. invoices[i] \in InvoiceRow
  BY DEF TypeOK
<1> QED
  BY <1>1 DEF InvoiceRow

\* The columns of the rows the transactions write.
LEMMA NewRows ==
  ASSUME TypeOK
  PROVE  /\ \A i \in InvoiceId : invoices[i].status = "draft" =>
              /\ sentRow(i).status = "sent" /\ sentRow(i).number = settings.nextNumber
              /\ sentRow(i).type = invoices[i].type /\ sentRow(i).template = invoices[i].template
              /\ sentRow(i).credits = invoices[i].credits
              /\ sentRow(i).reminds = invoices[i].reminds
              /\ sentRow(i).issued = invoices[i].issued /\ sentRow(i).due = invoices[i].due
              /\ sentRow(i).total = invoices[i].total
         /\ \A i : /\ creditNote(i).status = "settled" /\ creditNote(i).type = "credit_note"
                   /\ creditNote(i).number = settings.nextNumber
                   /\ creditNote(i).credits = i /\ creditNote(i).reminds = NULL
                   /\ creditNote(i).total = -invoices[i].total
                   /\ creditNote(i).template = NULL
         /\ \A i, day, terms :
              /\ reminderRow(i, day, terms).status = "sent"
              /\ reminderRow(i, day, terms).type = "reminder"
              /\ reminderRow(i, day, terms).number = settings.nextNumber
              /\ reminderRow(i, day, terms).reminds = i
              /\ reminderRow(i, day, terms).credits = NULL
              /\ reminderRow(i, day, terms).issued = day
              /\ reminderRow(i, day, terms).template = NULL
         /\ \A t, day, total, terms :
              /\ generatedRow(t, day, total, terms).status = "sent"
              /\ generatedRow(t, day, total, terms).type = "invoice"
              /\ generatedRow(t, day, total, terms).number = settings.nextNumber
              /\ generatedRow(t, day, total, terms).credits = NULL
              /\ generatedRow(t, day, total, terms).reminds = NULL
              /\ generatedRow(t, day, total, terms).issued = day
              /\ generatedRow(t, day, total, terms).template = t
         /\ \A i \in InvoiceId : \A c :
              LET row == [invoices[i] EXCEPT !.status = "superseded", !.supersededBy = c] IN
              /\ row.status = "superseded" /\ row.supersededBy = c
              /\ row.number = invoices[i].number /\ row.type = invoices[i].type
              /\ row.credits = invoices[i].credits /\ row.reminds = invoices[i].reminds
              /\ row.template = invoices[i].template /\ row.total = invoices[i].total
              /\ row.issued = invoices[i].issued /\ row.due = invoices[i].due
<1>1. \A i \in InvoiceId : invoices[i] \in InvoiceRow
  BY DEF TypeOK
<1> QED
  BY <1>1 DEF sentRow, creditNote, reminderRow, generatedRow, NoRow, InvoiceRow

\* A booking changes nothing but the status of an unpaid invoice to paid.
LEMMA ApplyEffect ==
  ASSUME TypeOK, NEW m \in matched, ApplyPayment(m)
  PROVE  /\ m.invoice \in InvoiceId
         /\ \A j \in InvoiceId \ {m.invoice} : invoices'[j] = invoices[j]
         /\ \/ /\ invoices[m.invoice].status \in {"sent", "overdue"}
               /\ PaidIn(payments', m.invoice) >= invoices[m.invoice].total
               /\ invoices'[m.invoice] = [invoices[m.invoice] EXCEPT !.status = "paid"]
            \/ /\ invoices[m.invoice].status \in {"sent", "overdue"} =>
                    ~(PaidIn(payments', m.invoice) >= invoices[m.invoice].total)
               /\ invoices'[m.invoice] = invoices[m.invoice]
<1>1. m.invoice \in InvoiceId
  BY DEF TypeOK, PaymentEvent
<1> DEFINE covered == PaidIn(payments', m.invoice) >= invoices[m.invoice].total
<1>2. invoices' = [invoices EXCEPT ![m.invoice].status =
        IF @ \in {"sent", "overdue"} /\ covered THEN "paid" ELSE @]
  BY DEF ApplyPayment, BOOKABLE
<1> HIDE DEF covered
<1>3. \A j \in InvoiceId \ {m.invoice} : invoices'[j] = invoices[j]
  BY <1>1, <1>2 DEF TypeOK
<1>4. CASE invoices[m.invoice].status \in {"sent", "overdue"} /\ covered
  <2>1. invoices'[m.invoice] = [invoices[m.invoice] EXCEPT !.status = "paid"]
    BY <1>1, <1>2, <1>4 DEF TypeOK
  <2> QED
    BY <1>1, <1>3, <1>4, <2>1 DEF covered
<1>5. CASE ~(invoices[m.invoice].status \in {"sent", "overdue"} /\ covered)
  <2>1. invoices'[m.invoice] = [invoices[m.invoice] EXCEPT !.status = @]
    BY <1>1, <1>2, <1>5 DEF TypeOK
  <2>2. invoices[m.invoice] \in InvoiceRow
    BY <1>1 DEF TypeOK
  <2>3. invoices'[m.invoice] = invoices[m.invoice]
    BY <2>1, <2>2 DEF InvoiceRow
  <2> QED
    BY <1>1, <1>3, <1>5, <2>3 DEF covered
<1> QED
  BY <1>4, <1>5

\* The bulk update moves sent invoices past their due date to overdue.
LEMMA OverdueEffect ==
  ASSUME TypeOK, NEW day, MarkOverdue(day)
  PROVE  \A j \in InvoiceId :
           \/ invoices'[j] = invoices[j]
           \/ /\ invoices[j].status = "sent" /\ invoices[j].due < day
              /\ invoices'[j] = [invoices[j] EXCEPT !.status = "overdue"]
BY DEF TypeOK, MarkOverdue

\* Removing a template only cuts the link to it.
LEMMA ForgetEffect ==
  ASSUME TypeOK, NEW t, ForgetTemplate(t)
  PROVE  \A j \in InvoiceId :
           /\ invoices'[j].status = invoices[j].status /\ invoices'[j].type = invoices[j].type
           /\ invoices'[j].number = invoices[j].number /\ invoices'[j].total = invoices[j].total
           /\ invoices'[j].issued = invoices[j].issued /\ invoices'[j].due = invoices[j].due
           /\ invoices'[j].credits = invoices[j].credits /\ invoices'[j].reminds = invoices[j].reminds
           /\ invoices'[j].supersededBy = invoices[j].supersededBy
           /\ \/ invoices'[j].template = NULL
              \/ invoices'[j].template = invoices[j].template /\ invoices[j].template # t
<1>1. \A j \in InvoiceId : invoices[j] \in InvoiceRow
  BY DEF TypeOK
<1>2. \A j \in InvoiceId :
        \/ invoices'[j] = invoices[j] /\ invoices[j].template # t
        \/ invoices'[j] = [invoices[j] EXCEPT !.template = NULL]
  BY DEF ForgetTemplate
<1> QED
  BY <1>1, <1>2 DEF InvoiceRow

\* The draft of i is inserted, changed or removed.
DraftStep(i) ==
  \/ \E issued, due, total : CreateInvoice(i, issued, due, total)
  \/ \E issued, due, total : UpdateInvoice(i, issued, due, total)
  \/ RemoveInvoice(i)

\* A row that has no number yet is an invoice linked to nothing.
Blank(row) ==
  /\ row.type = "invoice" /\ row.number = 0
  /\ row.credits = NULL /\ row.reminds = NULL /\ row.supersededBy = NULL /\ row.template = NULL

\* A draft is inserted, changed or removed; no other row is touched.
LEMMA DraftEffect ==
  ASSUME TypeOK, NEW i \in InvoiceId, DraftStep(i)
  PROVE  /\ \A j \in InvoiceId \ {i} : invoices'[j] = invoices[j]
         /\ settings' = settings
         /\ \/ /\ invoices[i].status = "none"
               /\ invoices'[i].status = "draft"
               /\ Blank(invoices'[i])
            \/ /\ invoices[i].status = "draft"
               /\ invoices'[i].status = "draft"
               /\ invoices'[i].number = invoices[i].number
               /\ Blank(invoices[i]) => Blank(invoices'[i])
            \/ /\ invoices[i].status = "draft"
               /\ invoices'[i].status = "deleted"
               /\ Blank(invoices'[i])
<1>1. ASSUME NEW issued, NEW due, NEW total, CreateInvoice(i, issued, due, total)
      PROVE  /\ \A j \in InvoiceId \ {i} : invoices'[j] = invoices[j]
             /\ settings' = settings
             /\ invoices[i].status = "none"
             /\ invoices'[i].status = "draft" /\ Blank(invoices'[i])
  BY <1>1 DEF CreateInvoice, Fresh, TypeOK, Blank, NoRow
<1>2. ASSUME NEW givenIssued, NEW givenDue, NEW givenTotal,
             UpdateInvoice(i, givenIssued, givenDue, givenTotal)
      PROVE  /\ \A j \in InvoiceId \ {i} : invoices'[j] = invoices[j]
             /\ settings' = settings
             /\ invoices[i].status = "draft"
             /\ invoices'[i].status = "draft"
             /\ invoices'[i].number = invoices[i].number
             /\ Blank(invoices[i]) => Blank(invoices'[i])
  <2> DEFINE issued == IF givenIssued = Keep THEN invoices[i].issued ELSE givenIssued
             due == IF givenDue = Keep THEN invoices[i].due ELSE givenDue
             total == IF givenTotal = Keep THEN invoices[i].total ELSE givenTotal
  <2>1. /\ invoices' = [invoices EXCEPT ![i] =
             [invoices[i] EXCEPT !.issued = issued, !.due = due, !.total = total]]
        /\ settings' = settings
        /\ invoices[i].status = "draft"
    BY <1>2 DEF UpdateInvoice
  <2> HIDE DEF issued, due, total
  <2>2. invoices[i] \in InvoiceRow
    BY DEF TypeOK
  <2>3. invoices'[i] = [invoices[i] EXCEPT !.issued = issued, !.due = due, !.total = total]
    BY <2>1 DEF TypeOK
  <2>4. /\ invoices'[i].status = "draft" /\ invoices'[i].number = invoices[i].number
        /\ (Blank(invoices[i]) => Blank(invoices'[i]))
    BY <2>1, <2>2, <2>3 DEF InvoiceRow, Blank
  <2> QED
    BY <2>1, <2>4 DEF TypeOK
<1>3. ASSUME RemoveInvoice(i)
      PROVE  /\ \A j \in InvoiceId \ {i} : invoices'[j] = invoices[j]
             /\ settings' = settings
             /\ invoices[i].status = "draft"
             /\ invoices'[i].status = "deleted" /\ Blank(invoices'[i])
  BY <1>3 DEF RemoveInvoice, TypeOK, Blank, NoRow
<1> QED
  BY <1>1, <1>2, <1>3 DEF DraftStep

\* Every step leaves the invoices table and the number series alone or is one
\* of the transactions above.
LEMMA InvoiceSteps ==
  ASSUME TypeOK, [Next]_vars
  PROVE  \/ invoices' = invoices /\ settings'.nextNumber = settings.nextNumber
         \/ \E i \in InvoiceId : DraftStep(i)
         \/ \E i \in InvoiceId : SendInvoice(i)
         \/ \E i, c \in InvoiceId : CreditInvoice(i, c)
         \/ \E r \in Run, i, c \in InvoiceId, terms \in Terms : RunRemind(r, i, c, terms)
         \/ \E r \in Run, t \in TemplateId, c \in InvoiceId, terms \in Terms :
              RunGenerate(r, t, c, terms)
         \/ \E m \in matched : ApplyPayment(m)
         \/ \E r \in Run : RunOverdue(r)
         \/ \E t \in TemplateId : RemoveTemplate(t)
<1> DEFINE Same == invoices' = invoices /\ settings'.nextNumber = settings.nextNumber
<1>1. ASSUME NEW complete, NEW fee, UpdateSettings(complete, fee) PROVE Same
  BY <1>1 DEF UpdateSettings, TypeOK
<1>2. CASE AdminStep
  BY <1>1, <1>2 DEF AdminStep, DraftStep
<1>3. CASE PaymentStep
  BY <1>3 DEF PaymentStep, MatchPayment, MatchUnknown, MatchManually, IgnorePayment
<1>4. CASE ConsumeStep
  BY <1>4 DEF ConsumeStep
<1>5. CASE TemplateStep
  BY <1>5 DEF TemplateStep, CreateTemplate, ReadTemplate, WriteTemplate, ledgerVars
<1>6. ASSUME NEW r \in Run, StartRun(r) \/ RunFault(r) PROVE Same
  BY <1>6 DEF StartRun, RunFault, RunStepFails, RunCrashes, ledgerVars
<1>7. ASSUME NEW r \in Run, RunStep(r)
      PROVE  \/ Same
             \/ RunOverdue(r)
             \/ \E i, c \in InvoiceId, terms \in Terms : RunRemind(r, i, c, terms)
             \/ \E t \in TemplateId, c \in InvoiceId, terms \in Terms : RunGenerate(r, t, c, terms)
  BY <1>7 DEF RunStep, RunSelect, RunSkipReminder, RunListTemplates, RunSkipTemplate, FinishRun,
     ledgerVars
<1>8. CASE LockExpires \/ NextDay \/ UNCHANGED vars
  BY <1>8 DEF LockExpires, NextDay, vars, ledgerVars
<1> QED
  BY <1>2, <1>3, <1>4, <1>5, <1>6, <1>7, <1>8 DEF Next

----------------------------------------------------------------------------
(* The number series *)

\* The part of a row that says whether it must have a number.
Issued(row) == row.status \notin {"none", "deleted", "draft"}

\* The series as an inductive invariant: exactly the issued rows have a number,
\* every number below the counter is some row's, and no two rows share one.
SeriesInv ==
  /\ settings.nextNumber >= 1
  /\ \A i \in InvoiceId : invoices[i].number # 0 <=> Issued(invoices[i])
  /\ \A i \in InvoiceId : invoices[i].number < settings.nextNumber
  /\ \A n \in Nat : n >= 1 /\ n < settings.nextNumber =>
       \E i \in InvoiceId : invoices[i].number = n
  /\ \A i, j \in InvoiceId :
       invoices[i].number # 0 /\ invoices[i].number = invoices[j].number => i = j

\* SeriesInv is NumbersGapless, said of numbers instead of sets of numbers.
LEMMA SeriesIsGapless == TypeOK /\ SeriesInv => NumbersGapless
<1> SUFFICES ASSUME TypeOK, SeriesInv PROVE NumbersGapless
  OBVIOUS
<1>1. /\ settings.nextNumber \in Nat
      /\ \A i \in InvoiceId : invoices[i].number \in Nat
  BY DEF TypeOK, InvoiceRow
<1>2. \A i \in InvoiceId : Numbered(i) <=> Row(i) /\ invoices[i].status # "draft"
  BY DEF Row, Issued, SeriesInv, Numbered
<1>3. {invoices[i].number : i \in {j \in InvoiceId : Numbered(j)}} = 1..(settings.nextNumber - 1)
  <2>1. ASSUME NEW i \in InvoiceId, Numbered(i)
        PROVE  invoices[i].number \in 1..(settings.nextNumber - 1)
    BY <1>1, <2>1 DEF Numbered, SeriesInv
  <2>2. ASSUME NEW n \in 1..(settings.nextNumber - 1)
        PROVE  \E i \in InvoiceId : Numbered(i) /\ invoices[i].number = n
    BY <1>1 DEF Numbered, SeriesInv
  <2> QED
    BY <2>1, <2>2
<1>4. \A i, j \in InvoiceId : Numbered(i) /\ invoices[i].number = invoices[j].number => i = j
  BY DEF SeriesInv, Numbered
<1> QED
  BY <1>2, <1>3, <1>4 DEF NumbersGapless

\* A step that gives no number and issues no document keeps the series.
LEMMA NumbersKept ==
  ASSUME SeriesInv,
         settings'.nextNumber = settings.nextNumber,
         \A i \in InvoiceId : /\ invoices'[i].number = invoices[i].number
                              /\ Issued(invoices'[i]) <=> Issued(invoices[i])
  PROVE  SeriesInv'
BY DEF SeriesInv

\* A step that gives the next number to a row without one, issues it, and moves
\* the counter keeps the series.
LEMMA NumberGiven ==
  ASSUME TypeOK, SeriesInv, NEW k \in InvoiceId,
         ~Issued(invoices[k]), Issued(invoices'[k]),
         invoices'[k].number = settings.nextNumber,
         settings'.nextNumber = settings.nextNumber + 1,
         \A i \in InvoiceId \ {k} : /\ invoices'[i].number = invoices[i].number
                                    /\ Issued(invoices'[i]) <=> Issued(invoices[i])
  PROVE  SeriesInv'
<1>1. /\ settings.nextNumber \in Nat
      /\ \A i \in InvoiceId : invoices[i].number \in Nat
  BY DEF TypeOK, InvoiceRow
<1>2. invoices[k].number = 0
  BY DEF SeriesInv
<1>3. \A i \in InvoiceId : invoices'[i].number # 0 <=> Issued(invoices'[i])
  BY <1>1, <1>2 DEF SeriesInv
<1>4. \A i \in InvoiceId : invoices'[i].number < settings'.nextNumber
  BY <1>1 DEF SeriesInv
<1>5. ASSUME NEW n \in Nat, n >= 1, n < settings'.nextNumber
      PROVE  \E i \in InvoiceId : invoices'[i].number = n
  <2>1. CASE n = settings.nextNumber
    BY <2>1
  <2>2. CASE n < settings.nextNumber
    <3>1. PICK i \in InvoiceId : invoices[i].number = n
      BY <1>5, <2>2 DEF SeriesInv
    <3>2. i # k
      BY <1>2, <1>5, <3>1
    <3> QED
      BY <3>1, <3>2
  <2> QED
    BY <1>1, <1>5, <2>1, <2>2
<1>6. \A i, j \in InvoiceId :
        invoices'[i].number # 0 /\ invoices'[i].number = invoices'[j].number => i = j
  BY <1>1, <1>2 DEF SeriesInv
<1> QED
  BY <1>1, <1>3, <1>4, <1>5, <1>6 DEF SeriesInv

\* Every step keeps the series.
LEMMA SeriesStep == TypeOK /\ SeriesInv /\ [Next]_vars => SeriesInv'
<1> SUFFICES ASSUME TypeOK, SeriesInv, [Next]_vars PROVE SeriesInv'
  OBVIOUS
<1>1. CASE invoices' = invoices /\ settings'.nextNumber = settings.nextNumber
  BY <1>1, NumbersKept
<1>2. ASSUME NEW i \in InvoiceId, DraftStep(i) PROVE SeriesInv'
  <2>1. /\ \A j \in InvoiceId \ {i} : invoices'[j] = invoices[j]
        /\ settings' = settings
        /\ ~Issued(invoices[i]) /\ ~Issued(invoices'[i])
        /\ invoices'[i].number = 0 \/ invoices'[i].number = invoices[i].number
    BY <1>2, DraftEffect DEF Issued, Blank
  <2>2. invoices[i].number = 0
    BY <2>1 DEF SeriesInv
  <2> QED
    BY <2>1, <2>2, NumbersKept
<1>3. ASSUME NEW i \in InvoiceId, SendInvoice(i) PROVE SeriesInv'
  <2>1. /\ ~Issued(invoices[i])
        /\ invoices'[i] = sentRow(i)
        /\ Issued(sentRow(i)) /\ sentRow(i).number = settings.nextNumber
        /\ \A j \in InvoiceId \ {i} : invoices'[j] = invoices[j]
        /\ settings'.nextNumber = settings.nextNumber + 1
    BY <1>3, SendEffect, NewRows DEF Issued
  <2> QED
    BY <2>1, NumberGiven
<1>4. ASSUME NEW i \in InvoiceId, NEW c \in InvoiceId, CreditInvoice(i, c) PROVE SeriesInv'
  <2>1. /\ ~Issued(invoices[c]) /\ Issued(invoices[i])
        /\ invoices'[c] = creditNote(i)
        /\ invoices'[i] = [invoices[i] EXCEPT !.status = "credited"]
        /\ \A j \in InvoiceId \ {i, c} : invoices'[j] = invoices[j]
        /\ settings'.nextNumber = settings.nextNumber + 1
    BY <1>4, CreditEffect DEF Issued
  <2>2. Issued(invoices'[c]) /\ invoices'[c].number = settings.nextNumber
    BY <2>1, NewRows DEF Issued
  <2>3. Issued(invoices'[i]) /\ invoices'[i].number = invoices[i].number
    BY <2>1, StatusOnly DEF Issued
  <2> QED
    BY <2>1, <2>2, <2>3, NumberGiven
<1>5. ASSUME NEW r \in Run, NEW i \in InvoiceId, NEW c \in InvoiceId, NEW terms \in Terms,
             RunRemind(r, i, c, terms)
      PROVE  SeriesInv'
  <2>0. Reminded(i, c, runs[r].day, terms)
    BY <1>5, ReminderEffect
  <2>1. /\ ~Issued(invoices[c]) /\ Issued(invoices[i])
        /\ invoices'[c] = reminderRow(i, runs[r].day, terms)
        /\ invoices'[i] = [invoices[i] EXCEPT !.status = "superseded", !.supersededBy = c]
        /\ \A j \in InvoiceId \ {i, c} : invoices'[j] = invoices[j]
        /\ settings'.nextNumber = settings.nextNumber + 1
    BY <2>0 DEF Issued, Reminded
  <2>2. Issued(invoices'[c]) /\ invoices'[c].number = settings.nextNumber
    BY <2>1, NewRows DEF Issued
  <2>3. Issued(invoices'[i]) /\ invoices'[i].number = invoices[i].number
    BY <2>1, NewRows DEF Issued
  <2> QED
    BY <2>1, <2>2, <2>3, NumberGiven
<1>6. ASSUME NEW r \in Run, NEW t \in TemplateId, NEW c \in InvoiceId, NEW terms \in Terms,
             RunGenerate(r, t, c, terms)
      PROVE  SeriesInv'
  <2>1. /\ ~Issued(invoices[c])
        /\ invoices'[c] = generatedRow(t, templates[t].next, templates[t].total, terms)
        /\ \A j \in InvoiceId \ {c} : invoices'[j] = invoices[j]
        /\ settings'.nextNumber = settings.nextNumber + 1
    BY <1>6, GenerateEffect DEF Issued
  <2>2. Issued(invoices'[c]) /\ invoices'[c].number = settings.nextNumber
    BY <2>1, NewRows DEF Issued
  <2> QED
    BY <2>1, <2>2, NumberGiven
<1>7. ASSUME NEW m \in matched, ApplyPayment(m) PROVE SeriesInv'
  <2>1. \A j \in InvoiceId :
          \/ invoices'[j] = invoices[j]
          \/ /\ Issued(invoices[j])
             /\ invoices'[j] = [invoices[j] EXCEPT !.status = "paid"]
    BY <1>7, ApplyEffect DEF Issued
  <2>2. ASSUME NEW j \in InvoiceId
        PROVE  /\ invoices'[j].number = invoices[j].number
               /\ Issued(invoices'[j]) <=> Issued(invoices[j])
    <3>1. CASE invoices'[j] = invoices[j]
      BY <3>1
    <3>2. CASE Issued(invoices[j]) /\ invoices'[j] = [invoices[j] EXCEPT !.status = "paid"]
      <4>1. invoices'[j].status = "paid" /\ invoices'[j].number = invoices[j].number
        BY <3>2, StatusOnly
      <4> QED
        BY <3>2, <4>1 DEF Issued
    <3> QED
      BY <2>1, <3>1, <3>2
  <2> QED
    BY <1>7, <2>2, NumbersKept DEF ApplyPayment
<1>8. ASSUME NEW r \in Run, RunOverdue(r) PROVE SeriesInv'
  <2>1. MarkOverdue(runs[r].day)
    BY <1>8 DEF RunOverdue
  <2>2. \A j \in InvoiceId :
          \/ invoices'[j] = invoices[j]
          \/ /\ Issued(invoices[j])
             /\ invoices'[j] = [invoices[j] EXCEPT !.status = "overdue"]
    BY <2>1, OverdueEffect DEF Issued
  <2>3. ASSUME NEW j \in InvoiceId
        PROVE  /\ invoices'[j].number = invoices[j].number
               /\ Issued(invoices'[j]) <=> Issued(invoices[j])
    <3>1. CASE invoices'[j] = invoices[j]
      BY <3>1
    <3>2. CASE Issued(invoices[j]) /\ invoices'[j] = [invoices[j] EXCEPT !.status = "overdue"]
      <4>1. invoices'[j].status = "overdue" /\ invoices'[j].number = invoices[j].number
        BY <3>2, StatusOnly
      <4> QED
        BY <3>2, <4>1 DEF Issued
    <3> QED
      BY <2>2, <3>1, <3>2
  <2> QED
    BY <2>1, <2>3, NumbersKept DEF MarkOverdue
<1>9. ASSUME NEW t \in TemplateId, RemoveTemplate(t) PROVE SeriesInv'
  <2>1. ForgetTemplate(t)
    BY <1>9 DEF RemoveTemplate
  <2>2. \A j \in InvoiceId : /\ invoices'[j].number = invoices[j].number
                             /\ invoices'[j].status = invoices[j].status
    BY <2>1, ForgetEffect
  <2> QED
    BY <2>1, <2>2, NumbersKept DEF ForgetTemplate, Issued
<1> QED
  BY <1>1, <1>2, <1>3, <1>4, <1>5, <1>6, <1>7, <1>8, <1>9, InvoiceSteps

\* Invoice numbers form an unbroken series without duplicates, whichever
\* operations, runs and faults interleave.
THEOREM NumbersUnbroken == Spec => []NumbersGapless
<1>1. Init => SeriesInv
  BY DEF Init, LedgerInit, SeriesInv, NoRow, Issued
<1> QED
  BY <1>1, TypeCorrect, SeriesStep, SeriesIsGapless, PTL DEF Spec

----------------------------------------------------------------------------
(* The life of an invoice *)

\* The step leaves the status of row i alone or moves it forward.
Forward(i) ==
  invoices'[i].status # invoices[i].status =>
    invoices'[i].status \in Later(invoices[i].status)

\* No step moves a status backwards.
LEMMA StatusStep == TypeOK /\ [Next]_vars => \A j \in InvoiceId : Forward(j)
<1> SUFFICES ASSUME TypeOK, [Next]_vars, NEW j \in InvoiceId PROVE Forward(j)
  OBVIOUS
<1>1. CASE invoices' = invoices
  BY <1>1 DEF Forward
<1>2. ASSUME NEW i \in InvoiceId, DraftStep(i) PROVE Forward(j)
  <2>1. /\ j # i => invoices'[j] = invoices[j]
        /\ \/ invoices[i].status = "none" /\ invoices'[i].status = "draft"
           \/ invoices[i].status = "draft" /\ invoices'[i].status = "draft"
           \/ invoices[i].status = "draft" /\ invoices'[i].status = "deleted"
    BY <1>2, DraftEffect
  <2> QED
    BY <2>1 DEF Forward, Later
<1>3. ASSUME NEW i \in InvoiceId, SendInvoice(i) PROVE Forward(j)
  <2>1. /\ j # i => invoices'[j] = invoices[j]
        /\ invoices[i].status = "draft" /\ invoices'[i] = sentRow(i)
    BY <1>3, SendEffect
  <2>2. invoices'[i].status = "sent"
    BY <2>1, NewRows
  <2> QED
    BY <2>1, <2>2 DEF Forward, Later
<1>4. ASSUME NEW i \in InvoiceId, NEW c \in InvoiceId, CreditInvoice(i, c) PROVE Forward(j)
  <2>1. /\ j # i /\ j # c => invoices'[j] = invoices[j]
        /\ invoices[i].status \in {"sent", "overdue", "paid"} /\ invoices[c].status = "none"
        /\ invoices'[c] = creditNote(i)
        /\ invoices'[i] = [invoices[i] EXCEPT !.status = "credited"]
    BY <1>4, CreditEffect
  <2>2. invoices'[c].status = "settled"
    BY <2>1, NewRows
  <2>3. invoices'[i].status = "credited"
    BY <2>1, StatusOnly
  <2> QED
    BY <2>1, <2>2, <2>3 DEF Forward, Later
<1>5. ASSUME NEW r \in Run, NEW i \in InvoiceId, NEW c \in InvoiceId, NEW terms \in Terms,
             RunRemind(r, i, c, terms)
      PROVE  Forward(j)
  <2>1. Reminded(i, c, runs[r].day, terms)
    BY <1>5, ReminderEffect
  <2>2. /\ j # i /\ j # c => invoices'[j] = invoices[j]
        /\ invoices[i].status \in {"sent", "overdue"} /\ invoices[c].status = "none"
        /\ invoices'[c] = reminderRow(i, runs[r].day, terms)
        /\ invoices'[i] = [invoices[i] EXCEPT !.status = "superseded", !.supersededBy = c]
    BY <2>1 DEF Reminded
  <2>3. invoices'[c].status = "sent"
    BY <2>2, NewRows
  <2>4. invoices'[i].status = "superseded"
    BY <2>2, NewRows
  <2> QED
    BY <2>2, <2>3, <2>4 DEF Forward, Later
<1>6. ASSUME NEW r \in Run, NEW t \in TemplateId, NEW c \in InvoiceId, NEW terms \in Terms,
             RunGenerate(r, t, c, terms)
      PROVE  Forward(j)
  <2>1. /\ j # c => invoices'[j] = invoices[j]
        /\ invoices[c].status = "none"
        /\ invoices'[c] = generatedRow(t, templates[t].next, templates[t].total, terms)
    BY <1>6, GenerateEffect
  <2>2. invoices'[c].status = "sent"
    BY <2>1, NewRows
  <2> QED
    BY <2>1, <2>2 DEF Forward, Later
<1>7. ASSUME NEW m \in matched, ApplyPayment(m) PROVE Forward(j)
  <2>1. CASE invoices'[j] = invoices[j]
    BY <2>1 DEF Forward
  <2>2. CASE /\ invoices[j].status \in {"sent", "overdue"}
             /\ invoices'[j] = [invoices[j] EXCEPT !.status = "paid"]
    <3>1. invoices'[j].status = "paid"
      BY <2>2, StatusOnly
    <3> QED
      BY <2>2, <3>1 DEF Forward, Later
  <2> QED
    BY <1>7, <2>1, <2>2, ApplyEffect
<1>8. ASSUME NEW r \in Run, RunOverdue(r) PROVE Forward(j)
  <2>1. MarkOverdue(runs[r].day)
    BY <1>8 DEF RunOverdue
  <2>2. CASE invoices'[j] = invoices[j]
    BY <2>2 DEF Forward
  <2>3. CASE /\ invoices[j].status = "sent"
             /\ invoices'[j] = [invoices[j] EXCEPT !.status = "overdue"]
    <3>1. invoices'[j].status = "overdue"
      BY <2>3, StatusOnly
    <3> QED
      BY <2>3, <3>1 DEF Forward, Later
  <2> QED
    BY <2>1, <2>2, <2>3, OverdueEffect
<1>9. ASSUME NEW t \in TemplateId, RemoveTemplate(t) PROVE Forward(j)
  <2>1. ForgetTemplate(t)
    BY <1>9 DEF RemoveTemplate
  <2> QED
    BY <2>1, ForgetEffect DEF Forward
<1> QED
  BY <1>1, <1>2, <1>3, <1>4, <1>5, <1>6, <1>7, <1>8, <1>9, InvoiceSteps

\* A status never goes backwards: no late payment, overlapping run or admin
\* reopens an invoice that is paid, credited or superseded.
THEOREM StatusForward == Spec => StatusNeverBackwards
<1>1. TypeOK /\ [Next]_vars =>
        [\A i \in InvoiceId :
           invoices'[i].status # invoices[i].status =>
             invoices'[i].status \in Later(invoices[i].status)]_vars
  BY StatusStep DEF Forward
<1> QED
  BY <1>1, TypeCorrect, PTL DEF Spec, StatusNeverBackwards

----------------------------------------------------------------------------
(* Bookings *)

\* The payment row is what applying the event m inserts.
Books(row, m) ==
  /\ row.payment = m.payment /\ row.manual = m.manual
  /\ row.invoice = m.invoice /\ row.amount = m.amount

\* The inductive invariant behind BookedOnce: a bank transaction with an event
\* is decided for good, has no second event, the event repeats its decision, and
\* every payment row is the booking of an event.
BookInv ==
  /\ \A m \in matched : /\ bank[m.payment].status = "matched"
                         /\ bank[m.payment].invoice = m.invoice
                         /\ bank[m.payment].amount = m.amount
  /\ \A m, n \in matched : m.payment = n.payment => m = n
  /\ \A row \in payments : \E m \in matched : Books(row, m)
  /\ \A row, other \in payments : row.payment = other.payment => row = other
  /\ \A m \in processed : \E row \in payments : row.payment = m.payment

LEMMA BookInvImplies == TypeOK /\ BookInv => BookedOnce
BY DEF TypeOK, BookInv, BookedOnce, Books

\* The bank transaction p is decided, by a match or otherwise.
DecideStep(p) ==
  /\ bank[p].status \in {"none", "manual_review"}
  /\ \A q \in PaymentId \ {p} : bank'[q] = bank[q]
  /\ \/ matched' = matched
     \/ \E invoice \in InvoiceId, amount \in Nat, manual \in BOOLEAN :
          /\ bank'[p] = [status |-> "matched", amount |-> amount, invoice |-> invoice]
          /\ matched' = matched \cup
               {[payment |-> p, manual |-> manual, invoice |-> invoice, amount |-> amount]}
  /\ payments' = payments /\ processed' = processed

\* A published match is a decision.
LEMMA PublishDecides ==
  ASSUME TypeOK, NEW p \in PaymentId, NEW amount \in Nat, NEW invoice \in InvoiceId,
         NEW manual \in BOOLEAN, publishMatch(p, amount, invoice, manual),
         bank[p].status \in {"none", "manual_review"},
         payments' = payments, processed' = processed
  PROVE  DecideStep(p)
<1>1. bank'[p] = [status |-> "matched", amount |-> amount, invoice |-> invoice]
  BY DEF TypeOK, publishMatch
<1>2. \A q \in PaymentId \ {p} : bank'[q] = bank[q]
  BY DEF TypeOK, publishMatch
<1> QED
  BY <1>1, <1>2 DEF DecideStep, publishMatch

\* Every payment step decides one transaction that was still open.
LEMMA PaymentDecides ==
  ASSUME TypeOK, PaymentStep
  PROVE  \E p \in PaymentId : DecideStep(p)
<1>1. ASSUME NEW p \in PaymentId, NEW i \in InvoiceId, NEW amount \in PayAmount,
             MatchPayment(p, i, amount)
      PROVE  DecideStep(p)
  <2>1. amount \in Nat
    BY MoneyAssumption
  <2>2. /\ bank[p].status = "none" /\ payments' = payments /\ processed' = processed
        /\ \/ \E current \in InvoiceId : publishMatch(p, amount, current, FALSE)
           \/ /\ bank' = [bank EXCEPT ![p] =
                    [status |-> "manual_review", amount |-> amount, invoice |-> NULL]]
              /\ matched' = matched
    BY <1>1 DEF MatchPayment
  <2> QED
    BY <2>1, <2>2, PublishDecides DEF TypeOK, DecideStep
<1>2. ASSUME NEW p \in PaymentId, NEW amount \in PayAmount, NEW status, MatchUnknown(p, amount, status)
      PROVE  DecideStep(p)
  BY <1>2 DEF MatchUnknown, DecideStep, TypeOK
<1>3. ASSUME NEW p \in PaymentId, NEW i \in InvoiceId, NEW accept \in BOOLEAN,
             MatchManually(p, i, accept)
      PROVE  DecideStep(p)
  <2>1. bank[p].amount \in Nat
    BY DEF TypeOK
  <2>2. /\ bank[p].status = "manual_review" /\ payments' = payments /\ processed' = processed
        /\ \E current \in InvoiceId : publishMatch(p, bank[p].amount, current, TRUE)
    BY <1>3 DEF MatchManually
  <2> QED
    BY <2>1, <2>2, PublishDecides
<1>4. ASSUME NEW p \in PaymentId, IgnorePayment(p) PROVE DecideStep(p)
  BY <1>4 DEF IgnorePayment, DecideStep, TypeOK
<1> QED
  BY <1>1, <1>2, <1>3, <1>4 DEF PaymentStep

\* Deciding an open transaction keeps the invariant: it had no event before.
LEMMA DecideKeeps ==
  ASSUME TypeOK, BookInv, NEW p \in PaymentId, DecideStep(p)
  PROVE  BookInv'
<1>1. \A m \in matched : m.payment \in PaymentId /\ m.payment # p
  BY DEF TypeOK, PaymentEvent, BookInv, DecideStep
<1>2. CASE matched' = matched
  BY <1>1, <1>2 DEF BookInv, DecideStep
<1>3. ASSUME NEW invoice \in InvoiceId, NEW amount \in Nat, NEW manual \in BOOLEAN,
             bank'[p] = [status |-> "matched", amount |-> amount, invoice |-> invoice],
             matched' = matched \cup
               {[payment |-> p, manual |-> manual, invoice |-> invoice, amount |-> amount]}
      PROVE  BookInv'
  <2>1. ASSUME NEW m \in matched'
        PROVE  /\ bank'[m.payment].status = "matched"
               /\ bank'[m.payment].invoice = m.invoice
               /\ bank'[m.payment].amount = m.amount
    BY <1>1, <1>3 DEF BookInv, DecideStep
  <2>2. \A m, n \in matched' : m.payment = n.payment => m = n
    BY <1>1, <1>3 DEF BookInv
  <2> QED
    BY <1>3, <2>1, <2>2 DEF BookInv, DecideStep
<1> QED
  BY <1>2, <1>3 DEF DecideStep

\* A booking keeps the invariant: a second event of a payment, or a second
\* delivery, finds its row.
LEMMA BookingKeeps ==
  ASSUME TypeOK, BookInv, NEW m \in matched, ApplyPayment(m)
  PROVE  BookInv'
<1>1. /\ processed' = processed \cup {m} /\ payments' = insertPayment(m)
      /\ bank' = bank /\ matched' = matched
  BY DEF ApplyPayment
<1> DEFINE booked == \E row \in payments : row.payment = m.payment /\ row.manual = m.manual
<1>2. \A row \in payments : row.payment = m.payment => booked
  BY DEF BookInv, Books
<1>3. CASE booked
  <2>1. payments' = payments
    BY <1>1, <1>3 DEF insertPayment
  <2> QED
    BY <1>1, <1>3, <2>1 DEF BookInv
<1>4. CASE ~booked
  <2>1. PICK new : Books(new, m) /\ payments' = payments \cup {new}
    BY <1>1, <1>4 DEF insertPayment, Books
  <2>2. \A row \in payments' : \E e \in matched' : Books(row, e)
    BY <1>1, <2>1 DEF BookInv
  <2>3. \A row, other \in payments' : row.payment = other.payment => row = other
    BY <1>2, <1>4, <2>1 DEF BookInv, Books
  <2>4. \A e \in processed' : \E row \in payments' : row.payment = e.payment
    BY <1>1, <2>1 DEF BookInv, Books
  <2> QED
    BY <1>1, <2>2, <2>3, <2>4 DEF BookInv
<1> QED
  BY <1>3, <1>4

\* No other step touches bank transactions, events or bookings.
LEMMA BookStep == TypeOK /\ BookInv /\ [Next]_vars => BookInv'
<1> SUFFICES ASSUME TypeOK, BookInv, [Next]_vars PROVE BookInv'
  OBVIOUS
<1> DEFINE Same == UNCHANGED <<payments, bank, matched, processed>>
<1>1. CASE AdminStep
  <2>1. Same
    BY <1>1 DEF AdminStep, UpdateSettings, CreateInvoice, UpdateInvoice, RemoveInvoice, SendInvoice,
       CreditInvoice
  <2> QED
    BY <2>1 DEF BookInv
<1>2. CASE PaymentStep
  BY <1>2, PaymentDecides, DecideKeeps
<1>3. CASE ConsumeStep
  BY <1>3, BookingKeeps DEF ConsumeStep
<1>4. CASE TemplateStep
  <2>1. Same
    BY <1>4 DEF TemplateStep, CreateTemplate, ReadTemplate, WriteTemplate, RemoveTemplate,
       ForgetTemplate, ledgerVars
  <2> QED
    BY <2>1 DEF BookInv
<1>5. ASSUME NEW r \in Run, StartRun(r) \/ RunStep(r) \/ RunFault(r) PROVE BookInv'
  <2>1. CASE RunStep(r)
    <3>1. Same
      BY <2>1 DEF RunStep, RunOverdue, MarkOverdue, RunSelect, RunRemind, CreateReminder,
         RunSkipReminder, RunListTemplates, RunGenerate, GenerateInvoice, RunSkipTemplate, FinishRun,
         ledgerVars
    <3> QED
      BY <3>1 DEF BookInv
  <2>2. CASE StartRun(r) \/ RunFault(r)
    <3>1. Same
      BY <2>2 DEF StartRun, RunFault, RunStepFails, RunCrashes, ledgerVars
    <3> QED
      BY <3>1 DEF BookInv
  <2> QED
    BY <1>5, <2>1, <2>2
<1>6. CASE LockExpires \/ NextDay \/ UNCHANGED vars
  <2>1. Same
    BY <1>6 DEF LockExpires, NextDay, vars, ledgerVars
  <2> QED
    BY <2>1 DEF BookInv
<1> QED
  BY <1>1, <1>2, <1>3, <1>4, <1>5, <1>6 DEF Next

\* Money is booked at most once, as its bank transaction was decided, and every
\* processed event has been booked, for any number of transactions, of events
\* and of redeliveries.
THEOREM BookingsExact == Spec => []BookedOnce
<1>1. Init => BookInv
  BY DEF Init, LedgerInit, BookInv
<1> QED
  BY <1>1, TypeCorrect, BookStep, BookInvImplies, PTL DEF Spec

----------------------------------------------------------------------------
(* Rows *)

\* A row that is no issued document is linked to nothing.
BlankInv == \A i \in InvoiceId : ~Issued(invoices[i]) => Blank(invoices[i])

\* Columns of an issued row that no transaction changes.
Frozen(i) ==
  /\ invoices'[i].type = invoices[i].type /\ invoices'[i].number = invoices[i].number
  /\ invoices'[i].total = invoices[i].total
  /\ invoices'[i].issued = invoices[i].issued /\ invoices'[i].due = invoices[i].due
  /\ invoices'[i].credits = invoices[i].credits /\ invoices'[i].reminds = invoices[i].reminds

\* What a step does to the row of an issued document: the status moves on, with
\* the reason why, and the link to its template may be cut.
StatusMove(i) ==
  \/ /\ invoices'[i].status = invoices[i].status
     /\ invoices'[i].supersededBy = invoices[i].supersededBy
  \/ \E c \in InvoiceId : CreditInvoice(i, c) /\ invoices'[i].status = "credited"
                          /\ invoices'[i].supersededBy = invoices[i].supersededBy
  \/ \E r \in Run, c \in InvoiceId, terms \in Terms :
       /\ RunRemind(r, i, c, terms)
       /\ invoices'[i].status = "superseded" /\ invoices'[i].supersededBy = c
  \/ \E m \in matched :
       /\ ApplyPayment(m) /\ m.invoice = i
       /\ PaidIn(payments', i) >= invoices[i].total
       /\ invoices[i].status \in {"sent", "overdue"} /\ invoices'[i].status = "paid"
       /\ invoices'[i].supersededBy = invoices[i].supersededBy
  \/ \E r \in Run :
       /\ RunOverdue(r) /\ invoices[i].due < runs[r].day
       /\ invoices[i].status = "sent" /\ invoices'[i].status = "overdue"
       /\ invoices'[i].supersededBy = invoices[i].supersededBy

\* Issued documents stay issued and frozen.
LEMMA IssuedRows ==
  ASSUME TypeOK, [Next]_vars, NEW j \in InvoiceId, Issued(invoices[j])
  PROVE  /\ Frozen(j) /\ Issued(invoices'[j]) /\ StatusMove(j)
         /\ invoices'[j].template = invoices[j].template \/ invoices'[j].template = NULL
<1> DEFINE Goal == /\ Frozen(j) /\ Issued(invoices'[j]) /\ StatusMove(j)
                   /\ invoices'[j].template = invoices[j].template \/ invoices'[j].template = NULL
<1>0. ASSUME invoices'[j] = invoices[j] PROVE Goal
  BY <1>0 DEF Frozen, StatusMove
<1>1. CASE invoices' = invoices
  BY <1>0, <1>1
<1>2. ASSUME NEW i \in InvoiceId, DraftStep(i) PROVE Goal
  <2>1. j # i => invoices'[j] = invoices[j]
    BY <1>2, DraftEffect
  <2>2. ~Issued(invoices[i])
    BY <1>2, DraftEffect DEF Issued
  <2> QED
    BY <1>0, <2>1, <2>2
<1>3. ASSUME NEW i \in InvoiceId, SendInvoice(i) PROVE Goal
  <2>1. j # i => invoices'[j] = invoices[j]
    BY <1>3, SendEffect
  <2>2. ~Issued(invoices[i])
    BY <1>3, SendEffect DEF Issued
  <2> QED
    BY <1>0, <2>1, <2>2
<1>4. ASSUME NEW i \in InvoiceId, NEW c \in InvoiceId, CreditInvoice(i, c) PROVE Goal
  <2>1. /\ j # i /\ j # c => invoices'[j] = invoices[j]
        /\ ~Issued(invoices[c])
        /\ invoices'[i] = [invoices[i] EXCEPT !.status = "credited"]
    BY <1>4, CreditEffect DEF Issued
  <2>2. CASE j = i
    <3>0. invoices'[j] = [invoices[j] EXCEPT !.status = "credited"]
      BY <2>1, <2>2
    <3>1. /\ Frozen(j) /\ invoices'[j].status = "credited"
          /\ invoices'[j].supersededBy = invoices[j].supersededBy
          /\ invoices'[j].template = invoices[j].template
      BY <3>0, StatusOnly DEF Frozen
    <3> QED
      BY <1>4, <2>2, <3>1 DEF StatusMove, Issued
  <2> QED
    BY <1>0, <2>1, <2>2
<1>5. ASSUME NEW r \in Run, NEW i \in InvoiceId, NEW c \in InvoiceId, NEW terms \in Terms,
             RunRemind(r, i, c, terms)
      PROVE  Goal
  <2>0. Reminded(i, c, runs[r].day, terms)
    BY <1>5, ReminderEffect
  <2>1. /\ j # i /\ j # c => invoices'[j] = invoices[j]
        /\ ~Issued(invoices[c])
        /\ invoices'[i] = [invoices[i] EXCEPT !.status = "superseded", !.supersededBy = c]
    BY <2>0 DEF Issued, Reminded
  <2>2. CASE j = i
    <3>0. invoices'[j] = [invoices[j] EXCEPT !.status = "superseded", !.supersededBy = c]
      BY <2>1, <2>2
    <3>1. /\ Frozen(j) /\ invoices'[j].status = "superseded"
          /\ invoices'[j].supersededBy = c
          /\ invoices'[j].template = invoices[j].template
      BY <3>0, NewRows DEF Frozen
    <3> QED
      BY <1>5, <2>2, <3>1 DEF StatusMove, Issued
  <2> QED
    BY <1>0, <2>1, <2>2
<1>6. ASSUME NEW r \in Run, NEW t \in TemplateId, NEW c \in InvoiceId, NEW terms \in Terms,
             RunGenerate(r, t, c, terms)
      PROVE  Goal
  <2>1. /\ j # c => invoices'[j] = invoices[j]
        /\ ~Issued(invoices[c])
    BY <1>6, GenerateEffect DEF Issued
  <2> QED
    BY <1>0, <2>1
<1>7. ASSUME NEW m \in matched, ApplyPayment(m) PROVE Goal
  <2>1. CASE invoices'[j] = invoices[j]
    BY <1>0, <2>1
  <2>2. CASE /\ j = m.invoice /\ invoices[j].status \in {"sent", "overdue"}
             /\ PaidIn(payments', j) >= invoices[j].total
             /\ invoices'[j] = [invoices[j] EXCEPT !.status = "paid"]
    <3>1. /\ Frozen(j) /\ invoices'[j].status = "paid"
          /\ invoices'[j].supersededBy = invoices[j].supersededBy
          /\ invoices'[j].template = invoices[j].template
      BY <2>2, StatusOnly DEF Frozen
    <3> QED
      BY <1>7, <2>2, <3>1 DEF StatusMove, Issued
  <2> QED
    BY <1>7, <2>1, <2>2, ApplyEffect
<1>8. ASSUME NEW r \in Run, RunOverdue(r) PROVE Goal
  <2>1. MarkOverdue(runs[r].day)
    BY <1>8 DEF RunOverdue
  <2>2. CASE invoices'[j] = invoices[j]
    BY <1>0, <2>2
  <2>3. CASE /\ invoices[j].status = "sent" /\ invoices[j].due < runs[r].day
             /\ invoices'[j] = [invoices[j] EXCEPT !.status = "overdue"]
    <3>1. /\ Frozen(j) /\ invoices'[j].status = "overdue"
          /\ invoices'[j].supersededBy = invoices[j].supersededBy
          /\ invoices'[j].template = invoices[j].template
      BY <2>3, StatusOnly DEF Frozen
    <3> QED
      BY <1>8, <2>3, <3>1 DEF StatusMove, Issued
  <2> QED
    BY <2>1, <2>2, <2>3, OverdueEffect
<1>9. ASSUME NEW t \in TemplateId, RemoveTemplate(t) PROVE Goal
  <2>1. ForgetTemplate(t)
    BY <1>9 DEF RemoveTemplate
  <2> QED
    BY <2>1, ForgetEffect DEF Frozen, StatusMove, Issued
<1> QED
  BY <1>1, <1>2, <1>3, <1>4, <1>5, <1>6, <1>7, <1>8, <1>9, InvoiceSteps

\* The ways in which the row j becomes an issued document.
BecomesIssued(j) ==
  \/ SendInvoice(j) /\ invoices[j].status = "draft" /\ invoices'[j] = sentRow(j)
  \/ \E i \in InvoiceId : CreditInvoice(i, j) /\ invoices'[j] = creditNote(i)
  \/ \E r \in Run, i \in InvoiceId, terms \in Terms :
       RunRemind(r, i, j, terms) /\ invoices'[j] = reminderRow(i, runs[r].day, terms)
  \/ \E r \in Run, t \in TemplateId, terms \in Terms :
       /\ RunGenerate(r, t, j, terms)
       /\ invoices'[j] = generatedRow(t, templates[t].next, templates[t].total, terms)

\* A row that is no issued document becomes one in one of four ways or, as a
\* draft or less, stays blank.
LEMMA OtherRows ==
  ASSUME TypeOK, BlankInv, [Next]_vars, NEW j \in InvoiceId, ~Issued(invoices[j])
  PROVE  (~Issued(invoices'[j]) /\ Blank(invoices'[j])) \/ BecomesIssued(j)
<1> DEFINE Goal == (~Issued(invoices'[j]) /\ Blank(invoices'[j])) \/ BecomesIssued(j)
<1>0. ASSUME invoices'[j] = invoices[j] PROVE Goal
  BY <1>0 DEF BlankInv
<1>1. CASE invoices' = invoices
  BY <1>0, <1>1
<1>2. ASSUME NEW i \in InvoiceId, DraftStep(i) PROVE Goal
  <2>1. j # i => invoices'[j] = invoices[j]
    BY <1>2, DraftEffect
  <2>2. CASE j = i
    BY <1>2, <2>2, DraftEffect DEF Issued, BlankInv
  <2> QED
    BY <1>0, <2>1, <2>2
<1>3. ASSUME NEW i \in InvoiceId, SendInvoice(i) PROVE Goal
  <2>1. j # i => invoices'[j] = invoices[j]
    BY <1>3, SendEffect
  <2>2. j = i => BecomesIssued(j)
    BY <1>3, SendEffect DEF BecomesIssued
  <2> QED
    BY <1>0, <2>1, <2>2
<1>4. ASSUME NEW i \in InvoiceId, NEW c \in InvoiceId, CreditInvoice(i, c) PROVE Goal
  <2>1. /\ j # i /\ j # c => invoices'[j] = invoices[j]
        /\ Issued(invoices[i]) /\ invoices'[c] = creditNote(i)
    BY <1>4, CreditEffect DEF Issued
  <2>2. j = c => BecomesIssued(j)
    BY <1>4, <2>1 DEF BecomesIssued
  <2> QED
    BY <1>0, <2>1, <2>2
<1>5. ASSUME NEW r \in Run, NEW i \in InvoiceId, NEW c \in InvoiceId, NEW terms \in Terms,
             RunRemind(r, i, c, terms)
      PROVE  Goal
  <2>0. Reminded(i, c, runs[r].day, terms)
    BY <1>5, ReminderEffect
  <2>1. /\ j # i /\ j # c => invoices'[j] = invoices[j]
        /\ Issued(invoices[i]) /\ invoices'[c] = reminderRow(i, runs[r].day, terms)
    BY <2>0 DEF Issued, Reminded
  <2>2. j = c => BecomesIssued(j)
    BY <1>5, <2>1 DEF BecomesIssued
  <2> QED
    BY <1>0, <2>1, <2>2
<1>6. ASSUME NEW r \in Run, NEW t \in TemplateId, NEW c \in InvoiceId, NEW terms \in Terms,
             RunGenerate(r, t, c, terms)
      PROVE  Goal
  <2>1. /\ j # c => invoices'[j] = invoices[j]
        /\ invoices'[c] = generatedRow(t, templates[t].next, templates[t].total, terms)
    BY <1>6, GenerateEffect
  <2>2. j = c => BecomesIssued(j)
    BY <1>6, <2>1 DEF BecomesIssued
  <2> QED
    BY <1>0, <2>1, <2>2
<1>7. ASSUME NEW m \in matched, ApplyPayment(m) PROVE Goal
  <2>1. invoices'[j] = invoices[j]
    BY <1>7, ApplyEffect DEF Issued
  <2> QED
    BY <1>0, <2>1
<1>8. ASSUME NEW r \in Run, RunOverdue(r) PROVE Goal
  <2>1. MarkOverdue(runs[r].day)
    BY <1>8 DEF RunOverdue
  <2>2. invoices'[j] = invoices[j]
    BY <2>1, OverdueEffect DEF Issued
  <2> QED
    BY <1>0, <2>2
<1>9. ASSUME NEW t \in TemplateId, RemoveTemplate(t) PROVE Goal
  <2>1. ForgetTemplate(t)
    BY <1>9 DEF RemoveTemplate
  <2> QED
    BY <2>1, ForgetEffect DEF Issued, Blank, BlankInv
<1> QED
  BY <1>1, <1>2, <1>3, <1>4, <1>5, <1>6, <1>7, <1>8, <1>9, InvoiceSteps

\* A document of its own kind is made in each of the four ways.
LEMMA IssuedKinds ==
  ASSUME TypeOK, BlankInv, NEW j \in InvoiceId, BecomesIssued(j)
  PROVE  /\ Issued(invoices'[j])
         /\ invoices'[j].number = settings.nextNumber
         /\ \/ /\ invoices'[j].type = "invoice" /\ invoices'[j].status = "sent"
               /\ invoices'[j].credits = NULL /\ invoices'[j].reminds = NULL
            \/ /\ invoices'[j].type = "credit_note" /\ invoices'[j].status = "settled"
               /\ invoices'[j].template = NULL
            \/ /\ invoices'[j].type = "reminder" /\ invoices'[j].status = "sent"
               /\ invoices'[j].template = NULL
<1>1. CASE SendInvoice(j) /\ invoices[j].status = "draft" /\ invoices'[j] = sentRow(j)
  BY <1>1, NewRows DEF Issued, BlankInv, Blank
<1>2. CASE \E i \in InvoiceId : CreditInvoice(i, j) /\ invoices'[j] = creditNote(i)
  BY <1>2, NewRows DEF Issued
<1>3. CASE \E r \in Run, i \in InvoiceId, terms \in Terms :
             RunRemind(r, i, j, terms) /\ invoices'[j] = reminderRow(i, runs[r].day, terms)
  BY <1>3, NewRows DEF Issued
<1>4. CASE \E r \in Run, t \in TemplateId, terms \in Terms :
             /\ RunGenerate(r, t, j, terms)
             /\ invoices'[j] = generatedRow(t, templates[t].next, templates[t].total, terms)
  BY <1>4, NewRows DEF Issued
<1> QED
  BY <1>1, <1>2, <1>3, <1>4 DEF BecomesIssued

\* Rows that are no issued documents stay blank.
LEMMA BlankStep == TypeOK /\ BlankInv /\ [Next]_vars => BlankInv'
<1> SUFFICES ASSUME TypeOK, BlankInv, [Next]_vars, NEW j \in InvoiceId, ~Issued(invoices'[j])
             PROVE  Blank(invoices'[j])
  BY DEF BlankInv
<1>1. ~Issued(invoices[j])
  BY IssuedRows
<1>2. ~BecomesIssued(j)
  BY IssuedKinds
<1> QED
  BY <1>1, <1>2, OtherRows

LEMMA BlankInit == Init => BlankInv
BY DEF Init, LedgerInit, BlankInv, NoRow, Issued, Blank

----------------------------------------------------------------------------
(* Successors *)

\* The step makes j the successor of i, by a credit note or a reminder, and
\* touches no other row.
NewLink(j, i) ==
  /\ ~Issued(invoices[j]) /\ Issued(invoices'[j])
  /\ invoices[i].type = "invoice" /\ invoices[i].status \in {"sent", "overdue", "paid"}
  /\ \A l \in InvoiceId \ {i, j} : invoices'[l] = invoices[l]
  /\ invoices'[j].total \in Int /\ invoices'[i].total = invoices[i].total
  /\ invoices'[i].type = "invoice"
  /\ \/ /\ invoices'[j].credits = i /\ invoices'[j].reminds = NULL
        /\ invoices'[j].type = "credit_note" /\ invoices'[j].total = -invoices[i].total
        /\ invoices'[i].status = "credited"
     \/ /\ invoices'[j].reminds = i /\ invoices'[j].credits = NULL
        /\ invoices'[j].type = "reminder"
        /\ invoices'[i].status = "superseded" /\ invoices'[i].supersededBy = j

\* A credit note makes a link to its original.
LEMMA CreditLinks ==
  ASSUME TypeOK, TypeOK', NEW i \in InvoiceId, NEW c \in InvoiceId, CreditInvoice(i, c)
  PROVE  NewLink(c, i)
<1>1. /\ invoices[i].type = "invoice" /\ invoices[i].status \in {"sent", "overdue", "paid"}
      /\ i # c /\ invoices[c].status = "none"
      /\ invoices'[c] = creditNote(i)
      /\ invoices'[i] = [invoices[i] EXCEPT !.status = "credited"]
      /\ \A j \in InvoiceId \ {i, c} : invoices'[j] = invoices[j]
  BY CreditEffect
<1>2. /\ invoices'[i].status = "credited" /\ invoices'[i].type = invoices[i].type
      /\ invoices'[i].total = invoices[i].total
  BY <1>1, StatusOnly
<1>3. /\ invoices'[c].status = "settled" /\ invoices'[c].type = "credit_note"
      /\ invoices'[c].credits = i /\ invoices'[c].reminds = NULL
      /\ invoices'[c].total = -invoices[i].total
  BY <1>1, NewRows
<1>4. invoices'[c].total \in Int
  BY DEF TypeOK, InvoiceRow
<1> QED
  BY <1>1, <1>2, <1>3, <1>4 DEF NewLink, Issued

\* A reminder makes a link to its original.
LEMMA ReminderLinks ==
  ASSUME TypeOK, TypeOK', NEW r \in Run, NEW i \in InvoiceId, NEW c \in InvoiceId,
         NEW terms \in Terms, RunRemind(r, i, c, terms)
  PROVE  NewLink(c, i)
<1>0. Reminded(i, c, runs[r].day, terms)
  BY ReminderEffect
<1>1. /\ invoices[i].type = "invoice" /\ invoices[i].status \in {"sent", "overdue"}
      /\ i # c /\ invoices[c].status = "none"
      /\ invoices'[c] = reminderRow(i, runs[r].day, terms)
      /\ invoices'[i] = [invoices[i] EXCEPT !.status = "superseded", !.supersededBy = c]
      /\ \A j \in InvoiceId \ {i, c} : invoices'[j] = invoices[j]
  BY <1>0 DEF Reminded
<1>2. /\ invoices'[i].status = "superseded" /\ invoices'[i].supersededBy = c
      /\ invoices'[i].type = invoices[i].type /\ invoices'[i].total = invoices[i].total
  BY <1>1, NewRows
<1>3. /\ invoices'[c].status = "sent" /\ invoices'[c].type = "reminder"
      /\ invoices'[c].reminds = i /\ invoices'[c].credits = NULL
  BY <1>1, NewRows
<1>4. invoices'[c].total \in Int
  BY DEF TypeOK, InvoiceRow
<1> QED
  BY <1>1, <1>2, <1>3, <1>4 DEF NewLink, Issued

\* Only issued documents succeed others, and a link never changes.
LEMMA LinksKept ==
  ASSUME TypeOK, TypeOK', BlankInv, [Next]_vars, NEW j \in InvoiceId, NEW i \in InvoiceId
  PROVE  /\ Succeeds(j, i) => Issued(invoices[j]) /\ Succeeds(j, i)'
         /\ Succeeds(j, i)' => Succeeds(j, i) \/ NewLink(j, i)
<1>0. i # NULL
  BY BoundsAssumption DEF InvoiceId, NULL
<1>1. Succeeds(j, i) => Issued(invoices[j])
  BY <1>0 DEF Succeeds, BlankInv, Blank
<1>2. CASE Issued(invoices[j])
  BY <1>1, <1>2, IssuedRows DEF Succeeds, Frozen, Issued, Row
<1>3. CASE ~Issued(invoices[j])
  <2>1. CASE ~Issued(invoices'[j]) /\ Blank(invoices'[j])
    BY <1>0, <1>1, <1>3, <2>1 DEF Succeeds, Blank
  <2>2. CASE BecomesIssued(j)
    <3>1. CASE invoices'[j].credits = NULL /\ invoices'[j].reminds = NULL
      BY <1>0, <1>1, <1>3, <3>1 DEF Succeeds
    <3>2. ASSUME NEW k \in InvoiceId, CreditInvoice(k, j)
          PROVE  Succeeds(j, i)' => NewLink(j, i)
      <4>1. NewLink(j, k) /\ invoices'[j] = creditNote(k)
        BY <3>2, CreditLinks, CreditEffect
      <4>2. invoices'[j].credits = k /\ invoices'[j].reminds = NULL
        BY <4>1, NewRows
      <4> QED
        BY <1>0, <4>1, <4>2 DEF Succeeds
    <3>3. ASSUME NEW k \in InvoiceId, NEW r \in Run, NEW terms \in Terms, RunRemind(r, k, j, terms)
          PROVE  Succeeds(j, i)' => NewLink(j, i)
      <4>1. NewLink(j, k)
        BY <3>3, ReminderLinks
      <4>2. Reminded(k, j, runs[r].day, terms)
        BY <3>3, ReminderEffect
      <4>3. invoices'[j].reminds = k /\ invoices'[j].credits = NULL
        BY <4>2, NewRows DEF Reminded
      <4> QED
        BY <1>0, <4>1, <4>3 DEF Succeeds
    <3>4. CASE SendInvoice(j) /\ invoices[j].status = "draft" /\ invoices'[j] = sentRow(j)
      BY <1>3, <3>1, <3>4, NewRows DEF BlankInv, Blank
    <3>5. CASE \E r \in Run, t \in TemplateId, terms \in Terms :
                 invoices'[j] = generatedRow(t, templates[t].next, templates[t].total, terms)
      BY <3>1, <3>5, NewRows
    <3> QED
      BY <1>1, <1>3, <2>2, <3>2, <3>3, <3>4, <3>5 DEF BecomesIssued
  <2> QED
    BY <1>3, <2>1, <2>2, OtherRows
<1> QED
  BY <1>2, <1>3

\* A closed document stays closed, and one that is closed by a step gets its
\* successor in that step.
LEMMA ClosingLinks ==
  ASSUME TypeOK, TypeOK', BlankInv, [Next]_vars, NEW i \in InvoiceId
  PROVE  /\ invoices[i].status \in {"credited", "superseded"} =>
              /\ invoices'[i].status = invoices[i].status
              /\ invoices'[i].supersededBy = invoices[i].supersededBy
              /\ Frozen(i)
         /\ invoices'[i].status \in {"credited", "superseded"} =>
              \/ invoices[i].status = invoices'[i].status
              \/ \E c \in InvoiceId : NewLink(c, i)
<1>1. CASE Issued(invoices[i])
  <2>1. Frozen(i) /\ StatusMove(i)
    BY <1>1, IssuedRows
  <2>2. ASSUME NEW c \in InvoiceId, CreditInvoice(i, c)
        PROVE  invoices[i].status \notin {"credited", "superseded"} /\ NewLink(c, i)
    BY <2>2, CreditLinks DEF NewLink
  <2>3. ASSUME NEW r \in Run, NEW c \in InvoiceId, NEW terms \in Terms, RunRemind(r, i, c, terms)
        PROVE  invoices[i].status \notin {"credited", "superseded"} /\ NewLink(c, i)
    BY <2>3, ReminderLinks DEF NewLink
  <2> QED
    BY <2>1, <2>2, <2>3 DEF StatusMove
<1>2. CASE ~Issued(invoices[i])
  <2>1. invoices[i].status \notin {"credited", "superseded"}
    BY <1>2 DEF Issued
  <2>2. invoices'[i].status \notin {"credited", "superseded"}
    BY <1>2, OtherRows, IssuedKinds DEF Issued
  <2> QED
    BY <2>1, <2>2
<1> QED
  BY <1>1, <1>2

\* No step gives a document a second successor.
LEMMA SuccessorStep == TypeOK /\ TypeOK' /\ BlankInv /\ OneSuccessor /\ [Next]_vars => OneSuccessor'
<1> SUFFICES ASSUME TypeOK, TypeOK', BlankInv, OneSuccessor, [Next]_vars, NEW i \in InvoiceId
             PROVE  /\ \A j, k \in InvoiceId : Succeeds(j, i)' /\ Succeeds(k, i)' => j = k
                    /\ \A j \in InvoiceId : Succeeds(j, i)' =>
                         /\ invoices'[i].type = "invoice"
                         /\ \/ /\ invoices'[j].credits = i /\ invoices'[j].type = "credit_note"
                               /\ invoices'[i].status = "credited"
                               /\ invoices'[j].total = -invoices'[i].total
                            \/ /\ invoices'[j].reminds = i /\ invoices'[j].type = "reminder"
                               /\ invoices'[i].status = "superseded"
                               /\ invoices'[i].supersededBy = j
                    /\ invoices'[i].status \in {"credited", "superseded"} =>
                         \E j \in InvoiceId : Succeeds(j, i)'
  BY DEF OneSuccessor
<1>1. \A j \in InvoiceId : Succeeds(j, i) => invoices[i].status \in {"credited", "superseded"}
  BY DEF OneSuccessor
<1>2. ASSUME NEW j \in InvoiceId, NewLink(j, i)
      PROVE  /\ \A k \in InvoiceId : ~Succeeds(k, i)
             /\ \A k \in InvoiceId : NewLink(k, i) => k = j
             /\ Succeeds(j, i)'
  <2>1. \A k \in InvoiceId : ~Succeeds(k, i)
    BY <1>1, <1>2 DEF NewLink
  <2>2. ASSUME NEW k \in InvoiceId, NewLink(k, i) PROVE k = j
    <3>1. k # i
      BY <1>2, <2>2 DEF NewLink, Issued
    <3>2. k # j => invoices'[k] = invoices[k]
      BY <1>2, <3>1 DEF NewLink
    <3> QED
      BY <2>2, <3>2 DEF NewLink
  <2>3. Succeeds(j, i)'
    BY <1>2 DEF NewLink, Succeeds, Row, Issued
  <2> QED
    BY <2>1, <2>2, <2>3
<1>3. \A j, k \in InvoiceId : Succeeds(j, i)' /\ Succeeds(k, i)' => j = k
  <2>1. \A j, k \in InvoiceId : Succeeds(j, i) /\ Succeeds(k, i) => j = k
    BY DEF OneSuccessor
  <2> QED
    BY <1>2, <2>1, LinksKept
<1>4. ASSUME NEW j \in InvoiceId, Succeeds(j, i)'
      PROVE  /\ invoices'[i].type = "invoice"
             /\ \/ /\ invoices'[j].credits = i /\ invoices'[j].type = "credit_note"
                   /\ invoices'[i].status = "credited"
                   /\ invoices'[j].total = -invoices'[i].total
                \/ /\ invoices'[j].reminds = i /\ invoices'[j].type = "reminder"
                   /\ invoices'[i].status = "superseded"
                   /\ invoices'[i].supersededBy = j
  <2>1. CASE Succeeds(j, i)
    <3>1. Issued(invoices[j])
      BY <2>1, LinksKept
    <3>2. Frozen(j) /\ Frozen(i)
      BY <1>1, <2>1, <3>1, IssuedRows, ClosingLinks
    <3>3. /\ invoices'[i].status = invoices[i].status
          /\ invoices'[i].supersededBy = invoices[i].supersededBy
      BY <1>1, <2>1, ClosingLinks
    <3>4. /\ invoices[i].type = "invoice"
          /\ \/ /\ invoices[j].credits = i /\ invoices[j].type = "credit_note"
                /\ invoices[i].status = "credited"
                /\ invoices[j].total = -invoices[i].total
             \/ /\ invoices[j].reminds = i /\ invoices[j].type = "reminder"
                /\ invoices[i].status = "superseded"
                /\ invoices[i].supersededBy = j
      BY <2>1 DEF OneSuccessor
    <3> QED
      BY <3>2, <3>3, <3>4 DEF Frozen
  <2>2. CASE NewLink(j, i)
    BY <2>2 DEF NewLink
  <2> QED
    BY <1>4, <2>1, <2>2, LinksKept
<1>5. ASSUME invoices'[i].status \in {"credited", "superseded"}
      PROVE  \E j \in InvoiceId : Succeeds(j, i)'
  <2>1. CASE invoices[i].status = invoices'[i].status
    <3>1. PICK j \in InvoiceId : Succeeds(j, i)
      BY <1>5, <2>1 DEF OneSuccessor
    <3> QED
      BY <3>1, LinksKept
  <2>2. ASSUME NEW c \in InvoiceId, NewLink(c, i) PROVE Succeeds(c, i)'
    BY <1>2, <2>2
  <2> QED
    BY <1>5, <2>1, <2>2, ClosingLinks
<1> QED
  BY <1>3, <1>4, <1>5

\* A debt is claimed by one document at a time: an invoice is credited once or
\* reminded of once and never both, whatever runs and admins overlap.
THEOREM ClaimedOnce == Spec => []OneSuccessor
<1>1. Init => OneSuccessor
  BY DEF Init, LedgerInit, OneSuccessor, Succeeds, Row, NoRow
<1>2. Spec => []BlankInv
  BY BlankInit, BlankStep, TypeCorrect, PTL DEF Spec
<1> QED
  BY <1>1, <1>2, TypeCorrect, SuccessorStep, PTL DEF Spec

----------------------------------------------------------------------------
(* Documents *)

\* The snapshot and the event of the row i as it stands.
DocumentOf(i) ==
  [invoice |-> i, number |-> invoices[i].number, total |-> invoices[i].total,
   issued |-> invoices[i].issued, due |-> invoices[i].due, reminds |-> invoices[i].reminds]
EventOf(i) == [type |-> DocumentEvent(i), invoice |-> i]

\* Snapshots and events are those of the issued documents.
DocumentInv ==
  /\ \A s \in snapshots : Issued(invoices[s.invoice]) /\ s = DocumentOf(s.invoice)
  /\ \A e \in events : Issued(invoices[e.invoice]) /\ e = EventOf(e.invoice)
  /\ \A i \in InvoiceId : Issued(invoices[i]) => DocumentOf(i) \in snapshots /\ EventOf(i) \in events

\* DocumentInv says of documents one by one what DocumentsFaithful says of sets.
LEMMA DocumentsAreFaithful == TypeOK /\ SeriesInv /\ DocumentInv => DocumentsFaithful
<1> SUFFICES ASSUME TypeOK, SeriesInv, DocumentInv, NEW i \in InvoiceId
             PROVE  /\ {s \in snapshots : s.invoice = i} =
                         IF Numbered(i) THEN {DocumentOf(i)} ELSE {}
                    /\ {e.type : e \in {f \in events : f.invoice = i}} =
                         IF Numbered(i) THEN {DocumentEvent(i)} ELSE {}
  BY DEF DocumentsFaithful, DocumentOf
<1>1. Numbered(i) <=> Issued(invoices[i])
  BY DEF SeriesInv, Numbered
<1>2. DocumentOf(i).invoice = i /\ EventOf(i).invoice = i /\ EventOf(i).type = DocumentEvent(i)
  BY DEF DocumentOf, EventOf
<1>3. CASE Issued(invoices[i])
  <2>1. {s \in snapshots : s.invoice = i} = {DocumentOf(i)}
    BY <1>2, <1>3 DEF DocumentInv
  <2>2. {f \in events : f.invoice = i} = {EventOf(i)}
    BY <1>2, <1>3 DEF DocumentInv
  <2> QED
    BY <1>1, <1>2, <1>3, <2>1, <2>2
<1>4. CASE ~Issued(invoices[i])
  <2>1. {s \in snapshots : s.invoice = i} = {} /\ {f \in events : f.invoice = i} = {}
    BY <1>4 DEF DocumentInv
  <2> QED
    BY <1>1, <1>4, <2>1
<1> QED
  BY <1>3, <1>4

\* A row becomes issued together with its snapshot and its event, and no other
\* row becomes issued in that step.
LEMMA IssueEffect ==
  ASSUME TypeOK, BlankInv, NEW j \in InvoiceId, ~Issued(invoices[j]), BecomesIssued(j)
  PROVE  /\ snapshots' = snapshots \cup {DocumentOf(j)'}
         /\ events' = events \cup {EventOf(j)'}
         /\ \A k \in InvoiceId \ {j} : invoices'[k] = invoices[k] \/ Issued(invoices[k])
<1>1. CASE SendInvoice(j) /\ invoices[j].status = "draft" /\ invoices'[j] = sentRow(j)
  <2>1. issueDocument(j, invoices'[j], "invoice.sent")
    BY <1>1 DEF SendInvoice
  <2>2. invoices'[j].type = "invoice"
    BY <1>1, NewRows DEF BlankInv, Blank, Issued
  <2>3. \A k \in InvoiceId \ {j} : invoices'[k] = invoices[k]
    BY <1>1, SendEffect
  <2> QED
    BY <2>1, <2>2, <2>3 DEF issueDocument, DocumentOf, EventOf, DocumentEvent
<1>2. CASE \E i \in InvoiceId : CreditInvoice(i, j) /\ invoices'[j] = creditNote(i)
  <2>0. PICK i \in InvoiceId : CreditInvoice(i, j) /\ invoices'[j] = creditNote(i)
    BY <1>2
  <2>1. issueDocument(j, invoices'[j], "invoice.credited")
    BY <2>0 DEF CreditInvoice
  <2>2. invoices'[j].type = "credit_note"
    BY <2>0, NewRows
  <2>3. \A k \in InvoiceId \ {j} : invoices'[k] = invoices[k] \/ Issued(invoices[k])
    BY <2>0, CreditEffect DEF Issued
  <2> QED
    BY <2>1, <2>2, <2>3 DEF issueDocument, DocumentOf, EventOf, DocumentEvent
<1>3. CASE \E r \in Run, i \in InvoiceId, terms \in Terms :
             RunRemind(r, i, j, terms) /\ invoices'[j] = reminderRow(i, runs[r].day, terms)
  <2>0. PICK r \in Run, i \in InvoiceId, terms \in Terms :
          RunRemind(r, i, j, terms) /\ invoices'[j] = reminderRow(i, runs[r].day, terms)
    BY <1>3
  <2>1. issueDocument(j, invoices'[j], "invoice.reminder_sent")
    BY <2>0 DEF RunRemind, CreateReminder
  <2>2. invoices'[j].type = "reminder"
    BY <2>0, NewRows
  <2>3. Reminded(i, j, runs[r].day, terms)
    BY <2>0, ReminderEffect
  <2>4. \A k \in InvoiceId \ {j} : invoices'[k] = invoices[k] \/ Issued(invoices[k])
    BY <2>3 DEF Issued, Reminded
  <2> QED
    BY <2>1, <2>2, <2>4 DEF issueDocument, DocumentOf, EventOf, DocumentEvent
<1>4. CASE \E r \in Run, t \in TemplateId, terms \in Terms :
             /\ RunGenerate(r, t, j, terms)
             /\ invoices'[j] = generatedRow(t, templates[t].next, templates[t].total, terms)
  <2>0. PICK r \in Run, t \in TemplateId, terms \in Terms :
          /\ RunGenerate(r, t, j, terms)
          /\ invoices'[j] = generatedRow(t, templates[t].next, templates[t].total, terms)
    BY <1>4
  <2>1. issueDocument(j, invoices'[j], "invoice.sent")
    BY <2>0 DEF RunGenerate, GenerateInvoice
  <2>2. invoices'[j].type = "invoice"
    BY <2>0, NewRows
  <2>3. \A k \in InvoiceId \ {j} : invoices'[k] = invoices[k]
    BY <2>0, GenerateEffect
  <2> QED
    BY <2>1, <2>2, <2>3 DEF issueDocument, DocumentOf, EventOf, DocumentEvent
<1> QED
  BY <1>1, <1>2, <1>3, <1>4 DEF BecomesIssued

\* A snapshot or an event is written only when a row becomes issued.
LEMMA OnlyIssueWrites ==
  ASSUME TypeOK, [Next]_vars
  PROVE  \/ snapshots' = snapshots /\ events' = events
         \/ \E j \in InvoiceId : ~Issued(invoices[j]) /\ BecomesIssued(j)
<1> DEFINE Same == snapshots' = snapshots /\ events' = events
           Issue == \E j \in InvoiceId : ~Issued(invoices[j]) /\ BecomesIssued(j)
<1>1. ASSUME NEW i \in InvoiceId, SendInvoice(i) PROVE Issue
  BY <1>1, SendEffect DEF Issued, BecomesIssued
<1>2. ASSUME NEW i \in InvoiceId, NEW c \in InvoiceId, CreditInvoice(i, c) PROVE Issue
  BY <1>2, CreditEffect DEF Issued, BecomesIssued
<1>3. ASSUME NEW r \in Run, NEW i \in InvoiceId, NEW c \in InvoiceId, NEW terms \in Terms,
             RunRemind(r, i, c, terms)
      PROVE  Issue
  <2>1. Reminded(i, c, runs[r].day, terms)
    BY <1>3, ReminderEffect
  <2>2. ~Issued(invoices[c]) /\ invoices'[c] = reminderRow(i, runs[r].day, terms)
    BY <2>1 DEF Reminded, Issued
  <2> QED
    BY <1>3, <2>2 DEF BecomesIssued
<1>4. ASSUME NEW r \in Run, NEW t \in TemplateId, NEW c \in InvoiceId, NEW terms \in Terms,
             RunGenerate(r, t, c, terms)
      PROVE  Issue
  <2>1. /\ ~Issued(invoices[c])
        /\ invoices'[c] = generatedRow(t, templates[t].next, templates[t].total, terms)
    BY <1>4, GenerateEffect DEF Issued
  <2> QED
    BY <1>4, <2>1 DEF BecomesIssued
<1>5. CASE AdminStep
  BY <1>1, <1>2, <1>5 DEF AdminStep, UpdateSettings, CreateInvoice, UpdateInvoice, RemoveInvoice
<1>6. CASE PaymentStep
  BY <1>6 DEF PaymentStep, MatchPayment, MatchUnknown, MatchManually, IgnorePayment
<1>7. CASE ConsumeStep
  BY <1>7 DEF ConsumeStep, ApplyPayment
<1>8. CASE TemplateStep
  BY <1>8 DEF TemplateStep, CreateTemplate, ReadTemplate, WriteTemplate, RemoveTemplate,
     ForgetTemplate, ledgerVars
<1>9. ASSUME NEW r \in Run, StartRun(r) \/ RunFault(r) PROVE Same
  BY <1>9 DEF StartRun, RunFault, RunStepFails, RunCrashes, ledgerVars
<1>10. ASSUME NEW r \in Run, RunStep(r) PROVE Same \/ Issue
  BY <1>3, <1>4, <1>10 DEF RunStep, RunOverdue, MarkOverdue, RunSelect, RunSkipReminder,
     RunListTemplates, RunSkipTemplate, FinishRun, ledgerVars
<1>11. CASE LockExpires \/ NextDay \/ UNCHANGED vars
  BY <1>11 DEF LockExpires, NextDay, vars, ledgerVars
<1> QED
  BY <1>5, <1>6, <1>7, <1>8, <1>9, <1>10, <1>11 DEF Next

\* Every step keeps snapshots and events in agreement with the issued rows.
LEMMA DocumentStep == TypeOK /\ BlankInv /\ DocumentInv /\ [Next]_vars => DocumentInv'
<1> SUFFICES ASSUME TypeOK, BlankInv, DocumentInv, [Next]_vars PROVE DocumentInv'
  OBVIOUS
<1>1. ASSUME NEW i \in InvoiceId, Issued(invoices[i])
      PROVE  /\ Issued(invoices'[i])
             /\ DocumentOf(i)' = DocumentOf(i) /\ EventOf(i)' = EventOf(i)
  BY <1>1, IssuedRows DEF Frozen, DocumentOf, EventOf, DocumentEvent
<1>2. /\ \A s \in snapshots : s.invoice \in InvoiceId
      /\ \A e \in events : e.invoice \in InvoiceId
  BY DEF TypeOK
<1>3. /\ \A s \in snapshots : Issued(invoices'[s.invoice]) /\ s = DocumentOf(s.invoice)'
      /\ \A e \in events : Issued(invoices'[e.invoice]) /\ e = EventOf(e.invoice)'
      /\ \A i \in InvoiceId : Issued(invoices[i]) =>
           DocumentOf(i)' \in snapshots /\ EventOf(i)' \in events
  BY <1>1, <1>2 DEF DocumentInv
<1>4. ASSUME NEW j \in InvoiceId, ~Issued(invoices[j]), BecomesIssued(j) PROVE DocumentInv'
  <2>1. /\ snapshots' = snapshots \cup {DocumentOf(j)'}
        /\ events' = events \cup {EventOf(j)'}
        /\ \A k \in InvoiceId \ {j} : invoices'[k] = invoices[k] \/ Issued(invoices[k])
    BY <1>4, IssueEffect
  <2>2. Issued(invoices'[j])
    BY <1>4, IssuedKinds
  <2>3. DocumentOf(j)'.invoice = j /\ EventOf(j)'.invoice = j
    BY DEF DocumentOf, EventOf
  <2>4. /\ \A s \in snapshots' : Issued(invoices'[s.invoice]) /\ s = DocumentOf(s.invoice)'
        /\ \A e \in events' : Issued(invoices'[e.invoice]) /\ e = EventOf(e.invoice)'
    BY <1>3, <2>1, <2>2, <2>3
  <2>5. \A i \in InvoiceId : Issued(invoices'[i]) =>
          DocumentOf(i)' \in snapshots' /\ EventOf(i)' \in events'
    BY <1>3, <2>1
  <2> QED
    BY <2>4, <2>5 DEF DocumentInv
<1>5. CASE ~ \E j \in InvoiceId : ~Issued(invoices[j]) /\ BecomesIssued(j)
  <2>1. snapshots' = snapshots /\ events' = events
    BY <1>5, OnlyIssueWrites
  <2>2. \A i \in InvoiceId : Issued(invoices'[i]) => Issued(invoices[i])
    BY <1>5, OtherRows
  <2> QED
    BY <1>3, <2>1, <2>2 DEF DocumentInv
<1> QED
  BY <1>4, <1>5

\* What the customer got is what the books say: each numbered invoice has one
\* snapshot and one event, and its row still agrees with them.
THEOREM DocumentsAgree == Spec => []DocumentsFaithful
<1>1. Init => DocumentInv
  BY DEF Init, LedgerInit, DocumentInv, NoRow, Issued
<1>2. Spec => []BlankInv
  BY BlankInit, BlankStep, TypeCorrect, PTL DEF Spec
<1>3. Init => SeriesInv
  BY DEF Init, LedgerInit, SeriesInv, NoRow, Issued
<1>4. Spec => []SeriesInv
  BY <1>3, TypeCorrect, SeriesStep, PTL DEF Spec
<1> QED
  BY <1>1, <1>2, <1>4, TypeCorrect, DocumentStep, DocumentsAreFaithful, PTL DEF Spec

----------------------------------------------------------------------------
(* Payments *)

\* Money is matched to issued documents only.
MatchedIssued == \A m \in matched : Issued(invoices[m.invoice])

\* A match is published for an unpaid document, and issued documents stay so.
LEMMA MatchedIssuedStep == TypeOK /\ MatchedIssued /\ [Next]_vars => MatchedIssued'
<1> SUFFICES ASSUME TypeOK, MatchedIssued, [Next]_vars, NEW m \in matched'
             PROVE  Issued(invoices'[m.invoice])
  BY DEF MatchedIssued
<1>1. ASSUME m \in matched PROVE Issued(invoices'[m.invoice])
  BY <1>1, IssuedRows DEF MatchedIssued, TypeOK, PaymentEvent
<1>2. ASSUME NEW p, NEW amount, NEW current \in InvoiceId, NEW manual,
             publishMatch(p, amount, current, manual), invoices[current].status \in BOOKABLE
      PROVE  Issued(invoices'[m.invoice])
  <2>1. m \in matched \/ m.invoice = current
    BY <1>2 DEF publishMatch
  <2>2. Issued(invoices[current])
    BY <1>2 DEF Issued, BOOKABLE
  <2> QED
    BY <1>1, <2>1, <2>2, IssuedRows
<1>3. CASE PaymentStep
  <2>1. ASSUME NEW p \in PaymentId, NEW i \in InvoiceId, NEW amount \in PayAmount,
               MatchPayment(p, i, amount)
        PROVE  Issued(invoices'[m.invoice])
    <3>1. PICK current \in InvoiceId :
            IF invoices[current].status \in BOOKABLE /\ amount <= RemainingOre(current)
            THEN publishMatch(p, amount, current, FALSE) ELSE UNCHANGED matched
      BY <2>1 DEF MatchPayment
    <3> QED
      BY <1>1, <1>2, <3>1
  <2>2. ASSUME NEW p \in PaymentId, NEW i \in InvoiceId, NEW accept \in BOOLEAN,
               MatchManually(p, i, accept)
        PROVE  Issued(invoices'[m.invoice])
    BY <1>2, <2>2 DEF MatchManually
  <2>3. ASSUME matched' = matched PROVE Issued(invoices'[m.invoice])
    BY <1>1, <2>3
  <2> QED
    BY <1>3, <2>1, <2>2, <2>3 DEF PaymentStep, MatchUnknown, IgnorePayment
<1>4. CASE ~PaymentStep
  <2>1. matched' = matched
    <3>1. CASE AdminStep
      BY <3>1 DEF AdminStep, UpdateSettings, CreateInvoice, UpdateInvoice, RemoveInvoice, SendInvoice,
         CreditInvoice
    <3>2. CASE ConsumeStep
      BY <3>2 DEF ConsumeStep, ApplyPayment
    <3>3. CASE TemplateStep
      BY <3>3 DEF TemplateStep, CreateTemplate, ReadTemplate, WriteTemplate, RemoveTemplate,
         ForgetTemplate, ledgerVars
    <3>4. ASSUME NEW r \in Run, RunStep(r) PROVE matched' = matched
      BY <3>4 DEF RunStep, RunOverdue, MarkOverdue, RunSelect, RunRemind, CreateReminder,
         RunSkipReminder, RunListTemplates, RunGenerate, GenerateInvoice, RunSkipTemplate, FinishRun,
         ledgerVars
    <3>5. ASSUME NEW r \in Run, StartRun(r) \/ RunFault(r) PROVE matched' = matched
      BY <3>5 DEF StartRun, RunFault, RunStepFails, RunCrashes, ledgerVars
    <3>6. CASE LockExpires \/ NextDay \/ UNCHANGED vars
      BY <3>6 DEF LockExpires, NextDay, vars, ledgerVars
    <3> QED
      BY <1>4, <3>1, <3>2, <3>3, <3>4, <3>5, <3>6 DEF Next
  <2> QED
    BY <1>1, <2>1
<1> QED
  BY <1>3, <1>4

\* The payments table changes only when an event is applied.
LEMMA OnlyBookingsPay ==
  ASSUME [Next]_vars
  PROVE  payments' = payments \/ \E m \in matched : ApplyPayment(m)
<1>1. CASE AdminStep
  BY <1>1 DEF AdminStep, UpdateSettings, CreateInvoice, UpdateInvoice, RemoveInvoice, SendInvoice,
     CreditInvoice
<1>2. CASE PaymentStep
  BY <1>2 DEF PaymentStep, MatchPayment, MatchUnknown, MatchManually, IgnorePayment
<1>3. CASE ConsumeStep
  BY <1>3 DEF ConsumeStep
<1>4. CASE TemplateStep
  BY <1>4 DEF TemplateStep, CreateTemplate, ReadTemplate, WriteTemplate, RemoveTemplate,
     ForgetTemplate, ledgerVars
<1>5. ASSUME NEW r \in Run, RunStep(r) PROVE payments' = payments
  BY <1>5 DEF RunStep, RunOverdue, MarkOverdue, RunSelect, RunRemind, CreateReminder,
     RunSkipReminder, RunListTemplates, RunGenerate, GenerateInvoice, RunSkipTemplate, FinishRun,
     ledgerVars
<1>6. ASSUME NEW r \in Run, StartRun(r) \/ RunFault(r) PROVE payments' = payments
  BY <1>6 DEF StartRun, RunFault, RunStepFails, RunCrashes, ledgerVars
<1>7. CASE LockExpires \/ NextDay \/ UNCHANGED vars
  BY <1>7 DEF LockExpires, NextDay, vars, ledgerVars
<1> QED
  BY <1>1, <1>2, <1>3, <1>4, <1>5, <1>6, <1>7 DEF Next

\* The sum of an invoice grows with the rows and sees its own rows only.
LEMMA PaidGrows ==
  ASSUME NEW rows, NEW more, IsFiniteSet(more), NEW i, rows \subseteq more,
         \A row \in more : row.amount \in Nat
  PROVE  /\ PaidIn(rows, i) \in Nat /\ PaidIn(more, i) \in Nat
         /\ PaidIn(rows, i) <= PaidIn(more, i)
         /\ (\A row \in more \ rows : row.invoice # i) => PaidIn(more, i) = PaidIn(rows, i)
<1> DEFINE U(S) == UNION {{row} \X (1..row.amount) : row \in {r \in S : r.invoice = i}}
<1>1. IsFiniteSet(rows)
  BY FS_Subset
<1>2. IsFiniteSet(U(more)) /\ PaidIn(rows, i) \in Nat /\ PaidIn(more, i) \in Nat
  BY <1>1, PaidFinite
<1>3. U(rows) \subseteq U(more)
  OBVIOUS
<1>4. PaidIn(rows, i) <= PaidIn(more, i)
  BY <1>2, <1>3, FS_Subset DEF PaidIn
<1>5. ASSUME \A row \in more \ rows : row.invoice # i PROVE PaidIn(more, i) = PaidIn(rows, i)
  <2>1. {r \in more : r.invoice = i} = {r \in rows : r.invoice = i}
    BY <1>5
  <2> QED
    BY <2>1 DEF PaidIn
<1> QED
  BY <1>2, <1>4, <1>5

\* Every step leaves the statuses in agreement with the money.
LEMMA CoverStep ==
  TypeOK /\ TypeOK' /\ BlankInv /\ BookInv /\ MatchedIssued /\ PaidIffCovered /\ [Next]_vars
    => PaidIffCovered'
<1> SUFFICES ASSUME TypeOK, TypeOK', BlankInv, BookInv, MatchedIssued, PaidIffCovered, [Next]_vars,
                    NEW i \in InvoiceId
             PROVE  /\ invoices'[i].status = "paid" => PaidIn(payments', i) >= invoices'[i].total
                    /\ invoices'[i].status \in BOOKABLE /\ (\E row \in payments' : row.invoice = i) =>
                         PaidIn(payments', i) < invoices'[i].total
  BY DEF PaidIffCovered, PaidOre
<1>0. /\ invoices[i].total \in Int /\ invoices'[i].total \in Int
      /\ IsFiniteSet(payments) /\ IsFiniteSet(payments')
      /\ \A row \in payments : row.amount \in Nat
      /\ \A row \in payments' : row.amount \in Nat
  BY DEF TypeOK, InvoiceRow, PaymentRow
<1>1. \A row \in payments : Issued(invoices[row.invoice])
  BY DEF BookInv, Books, MatchedIssued
<1>2. /\ invoices[i].status = "paid" => PaidIn(payments, i) >= invoices[i].total
      /\ invoices[i].status \in BOOKABLE /\ (\E row \in payments : row.invoice = i) =>
           PaidIn(payments, i) < invoices[i].total
  BY DEF PaidIffCovered, PaidOre
<1>3. CASE payments' = payments /\ ~ \E m \in matched : ApplyPayment(m)
  <2>1. CASE Issued(invoices[i])
    <3>1. invoices'[i].total = invoices[i].total /\ StatusMove(i)
      BY <2>1, IssuedRows DEF Frozen
    <3>2. /\ invoices'[i].status = "paid" => invoices[i].status = "paid"
          /\ invoices'[i].status \in BOOKABLE => invoices[i].status \in BOOKABLE
      BY <1>3, <3>1 DEF StatusMove, BOOKABLE
    <3> QED
      BY <1>2, <1>3, <3>1, <3>2
  <2>2. CASE ~Issued(invoices[i])
    <3>1. ~ \E row \in payments' : row.invoice = i
      BY <1>1, <1>3, <2>2
    <3>2. invoices'[i].status # "paid"
      BY <2>2, OtherRows, IssuedKinds DEF Issued
    <3> QED
      BY <3>1, <3>2
  <2> QED
    BY <2>1, <2>2
<1>4. ASSUME NEW m \in matched, ApplyPayment(m)
      PROVE  /\ invoices'[i].status = "paid" => PaidIn(payments', i) >= invoices'[i].total
             /\ invoices'[i].status \in BOOKABLE /\ (\E row \in payments' : row.invoice = i) =>
                  PaidIn(payments', i) < invoices'[i].total
  <2>1. payments \subseteq payments' /\ \A row \in payments' \ payments : row.invoice = m.invoice
    BY <1>4 DEF ApplyPayment, insertPayment
  <2>2. /\ PaidIn(payments, i) \in Nat /\ PaidIn(payments', i) \in Nat
        /\ PaidIn(payments, i) <= PaidIn(payments', i)
        /\ i # m.invoice => PaidIn(payments', i) = PaidIn(payments, i)
    BY <1>0, <2>1, PaidGrows
  <2>3. CASE i # m.invoice
    <3>1. invoices'[i] = invoices[i]
      BY <1>4, <2>3, ApplyEffect
    <3> QED
      BY <1>2, <2>1, <2>2, <2>3, <3>1
  <2>4. CASE /\ i = m.invoice /\ PaidIn(payments', i) >= invoices[i].total
             /\ invoices'[i] = [invoices[i] EXCEPT !.status = "paid"]
    <3>1. invoices'[i].status = "paid" /\ invoices'[i].total = invoices[i].total
      BY <2>4, StatusOnly
    <3> QED
      BY <2>4, <3>1 DEF BOOKABLE
  <2>5. CASE /\ i = m.invoice /\ invoices'[i] = invoices[i]
             /\ invoices[i].status \in {"sent", "overdue"} =>
                  ~(PaidIn(payments', i) >= invoices[i].total)
    BY <1>0, <1>2, <2>2, <2>5 DEF BOOKABLE
  <2> QED
    BY <1>4, <2>3, <2>4, <2>5, ApplyEffect
<1> QED
  BY <1>3, <1>4, OnlyBookingsPay

\* The status says what the money says: no paid invoice is short of money, and
\* no invoice that counts as unpaid has got enough.
THEOREM StatusIsCover == Spec => []PaidIffCovered
<1>1. Init => PaidIffCovered /\ MatchedIssued /\ BookInv
  BY DEF Init, LedgerInit, PaidIffCovered, NoRow, MatchedIssued, BookInv, BOOKABLE
<1>2. Spec => []BlankInv
  BY BlankInit, BlankStep, TypeCorrect, PTL DEF Spec
<1>3. Spec => []BookInv
  BY <1>1, TypeCorrect, BookStep, PTL DEF Spec
<1>4. Spec => []MatchedIssued
  BY <1>1, TypeCorrect, MatchedIssuedStep, PTL DEF Spec
<1> QED
  BY <1>1, <1>2, <1>3, <1>4, TypeCorrect, CoverStep, PTL DEF Spec

----------------------------------------------------------------------------
(* What a run has read *)

\* A run's day has come, and its candidates were past their due date on it.
RunInv ==
  \A r \in Run :
    /\ runs[r].day <= today
    /\ \A i \in runs[r].reminders : Issued(invoices[i]) /\ invoices[i].due < runs[r].day

\* A step leaves the run r its day and at most the candidates it had, has it
\* read today or a new list, or ends it.
RunMove(r) ==
  \/ runs'[r].day = runs[r].day /\ runs'[r].reminders \subseteq runs[r].reminders
  \/ runs'[r].day = today /\ runs'[r].reminders = {}
  \/ runs'[r].day = 0 /\ runs'[r].reminders = {}
  \/ /\ runs'[r].day = runs[r].day /\ runs'[r].reminders = ReminderCandidates(runs[r].day)
     /\ invoices' = invoices

\* Every step is such a move for every run.
LEMMA RunsMove ==
  ASSUME TypeOK, [Next]_vars, NEW r \in Run
  PROVE  RunMove(r)
<1> DEFINE RunRow == [phase: Phase, day: Nat, reminders: SUBSET InvoiceId,
                      due: SUBSET TemplateId, generated: Nat]
<1>0. \A s \in Run : runs[s] \in RunRow
  BY DEF TypeOK
<1>1. ASSUME UNCHANGED runs PROVE RunMove(r)
  BY <1>1 DEF RunMove
<1>2. ASSUME NEW s \in Run, StartRun(s) PROVE RunMove(r)
  BY <1>0, <1>2 DEF StartRun, Idle, RunMove, TypeOK
<1>3. ASSUME NEW s \in Run, RunFault(s) PROVE RunMove(r)
  <2>1. CASE RunCrashes(s)
    BY <1>0, <2>1 DEF RunCrashes, Idle, RunMove, TypeOK
  <2>2. ASSUME NEW phase, runs' = [runs EXCEPT ![s].phase = phase] PROVE RunMove(r)
    BY <1>0, <2>2 DEF RunMove, TypeOK
  <2>3. ASSUME NEW i \in InvoiceId, runs' = [runs EXCEPT ![s].reminders = @ \ {i}] PROVE RunMove(r)
    BY <1>0, <2>3 DEF RunMove, TypeOK
  <2>4. ASSUME NEW t \in TemplateId, runs' = [runs EXCEPT ![s] = passTemplate(s, t)] PROVE RunMove(r)
    BY <1>0, <2>4 DEF passTemplate, RunMove, TypeOK
  <2> QED
    BY <1>3, <2>1, <2>2, <2>3, <2>4 DEF RunFault, RunStepFails
<1>4. ASSUME NEW s \in Run, RunStep(s) PROVE RunMove(r)
  <2>1. CASE RunOverdue(s)
    BY <1>0, <2>1 DEF RunOverdue, RunMove, TypeOK
  <2>2. CASE RunSelect(s)
    BY <1>0, <2>2 DEF RunSelect, RunMove, TypeOK, ledgerVars
  <2>3. ASSUME NEW i \in InvoiceId, NEW c \in InvoiceId, NEW terms \in Terms, RunRemind(s, i, c, terms)
        PROVE  RunMove(r)
    BY <1>0, <2>3 DEF RunRemind, RunMove, TypeOK
  <2>4. ASSUME NEW i \in InvoiceId, RunSkipReminder(s, i) PROVE RunMove(r)
    BY <1>0, <2>4 DEF RunSkipReminder, RunMove, TypeOK
  <2>5. CASE RunListTemplates(s)
    BY <1>0, <2>5 DEF RunListTemplates, RunMove, TypeOK
  <2>6. ASSUME NEW t \in TemplateId, NEW c \in InvoiceId, NEW terms \in Terms,
               RunGenerate(s, t, c, terms)
        PROVE  RunMove(r)
    BY <1>0, <2>6 DEF RunGenerate, passTemplate, RunMove, TypeOK
  <2>7. ASSUME NEW t \in TemplateId, RunSkipTemplate(s, t) PROVE RunMove(r)
    BY <1>0, <2>7 DEF RunSkipTemplate, passTemplate, RunMove, TypeOK
  <2>8. CASE FinishRun(s)
    BY <1>0, <2>8 DEF FinishRun, Idle, RunMove, TypeOK
  <2> QED
    BY <1>4, <2>1, <2>2, <2>3, <2>4, <2>5, <2>6, <2>7, <2>8 DEF RunStep
<1>5. CASE AdminStep \/ PaymentStep \/ ConsumeStep
  BY <1>1, <1>5 DEF AdminStep, PaymentStep, ConsumeStep, automationVars
<1>6. CASE TemplateStep
  BY <1>1, <1>6 DEF TemplateStep, CreateTemplate, ReadTemplate, WriteTemplate, RemoveTemplate
<1>7. CASE LockExpires \/ NextDay \/ UNCHANGED vars
  BY <1>1, <1>7 DEF LockExpires, NextDay, automationVars, vars
<1> QED
  BY <1>2, <1>3, <1>4, <1>5, <1>6, <1>7 DEF Next

\* The calendar only moves on.
LEMMA DaysPass ==
  ASSUME TypeOK, [Next]_vars
  PROVE  today \in Nat /\ today' \in Nat /\ today <= today'
<1>1. today \in Nat
  BY DEF TypeOK
<1>2. CASE NextDay
  BY <1>1, <1>2 DEF NextDay
<1>3. CASE ~NextDay
  <2>1. today' = today
    <3>1. CASE TemplateStep
      BY <3>1 DEF TemplateStep, CreateTemplate, ReadTemplate, WriteTemplate, RemoveTemplate
    <3>2. ASSUME NEW r \in Run, StartRun(r) \/ RunFault(r) PROVE today' = today
      BY <3>2 DEF StartRun, RunFault, RunStepFails, RunCrashes
    <3>3. ASSUME NEW r \in Run, RunStep(r) PROVE today' = today
      BY <3>3 DEF RunStep, RunOverdue, RunSelect, RunRemind, RunSkipReminder, RunListTemplates,
         RunGenerate, RunSkipTemplate, FinishRun
    <3> QED
      BY <1>3, <3>1, <3>2, <3>3 DEF Next, AdminStep, PaymentStep, ConsumeStep, LockExpires, vars
  <2> QED
    BY <1>1, <2>1
<1> QED
  BY <1>2, <1>3

\* Runs keep a day that has come and candidates that were past due on it: the
\* due date of an issued invoice never changes.
LEMMA RunInvStep == TypeOK /\ TypeOK' /\ RunInv /\ [Next]_vars => RunInv'
<1> SUFFICES ASSUME TypeOK, TypeOK', RunInv, [Next]_vars, NEW r \in Run
             PROVE  /\ runs'[r].day <= today'
                    /\ \A i \in runs'[r].reminders :
                         Issued(invoices'[i]) /\ invoices'[i].due < runs'[r].day
  BY DEF RunInv
<1>1. /\ runs[r].day \in Nat /\ runs[r].reminders \subseteq InvoiceId
      /\ runs[r].day <= today
  BY DEF TypeOK, RunInv
<1>2. today \in Nat /\ today' \in Nat /\ today <= today'
  BY DaysPass
<1>3. ASSUME NEW i \in InvoiceId, Issued(invoices[i])
      PROVE  Issued(invoices'[i]) /\ invoices'[i].due = invoices[i].due
  BY <1>3, IssuedRows DEF Frozen
<1>4. CASE runs'[r].day = runs[r].day /\ runs'[r].reminders \subseteq runs[r].reminders
  BY <1>1, <1>2, <1>3, <1>4 DEF RunInv
<1>5. CASE /\ runs'[r].day = runs[r].day
           /\ runs'[r].reminders = ReminderCandidates(runs[r].day)
           /\ invoices' = invoices
  <2>1. \A i \in ReminderCandidates(runs[r].day) :
          Issued(invoices[i]) /\ invoices[i].due < runs[r].day
    BY DEF ReminderCandidates, REMINDABLE, Issued
  <2> QED
    BY <1>1, <1>2, <1>5, <2>1
<1>6. CASE runs'[r].day = today /\ runs'[r].reminders = {}
  BY <1>2, <1>6
<1>7. CASE runs'[r].day = 0 /\ runs'[r].reminders = {}
  BY <1>2, <1>7
<1> QED
  BY <1>4, <1>5, <1>6, <1>7, RunsMove DEF RunMove

LEMMA RunInvInit == Init => RunInv
BY DEF Init, LedgerInit, RunInv, Idle

----------------------------------------------------------------------------
(* Reminders *)

\* No step dunns anybody before his invoice is past its due date.
LEMMA DunningStep ==
  TypeOK /\ TypeOK' /\ BlankInv /\ OneSuccessor /\ RunInv /\ DunningAfterDue /\ [Next]_vars
    => DunningAfterDue'
<1> SUFFICES ASSUME TypeOK, TypeOK', BlankInv, OneSuccessor, RunInv, DunningAfterDue, [Next]_vars
             PROVE  DunningAfterDue'
  OBVIOUS
<1>0. today \in Nat /\ today' \in Nat /\ today <= today'
  BY DaysPass
<1>1. \A j \in InvoiceId : invoices[j].due \in Nat /\ invoices'[j].due \in Nat
  BY DEF TypeOK, InvoiceRow
<1>2. ASSUME NEW j \in InvoiceId, invoices'[j].status = "overdue"
      PROVE  invoices'[j].due < today'
  <2>1. CASE Issued(invoices[j])
    <3>1. Frozen(j) /\ StatusMove(j)
      BY <2>1, IssuedRows
    <3>2. CASE invoices[j].status = "overdue"
      BY <1>0, <1>1, <3>1, <3>2 DEF DunningAfterDue, Frozen
    <3>3. ASSUME NEW r \in Run, invoices[j].due < runs[r].day PROVE invoices'[j].due < today'
      <4>1. runs[r].day \in Nat /\ runs[r].day <= today
        BY DEF RunInv, TypeOK
      <4> QED
        BY <1>0, <1>1, <3>1, <3>3, <4>1 DEF Frozen
    <3> QED
      BY <1>2, <3>1, <3>2, <3>3 DEF StatusMove
  <2>2. CASE ~Issued(invoices[j])
    BY <1>2, <2>2, OtherRows, IssuedKinds DEF Issued
  <2> QED
    BY <2>1, <2>2
<1>3. ASSUME NEW i \in InvoiceId, NEW j \in InvoiceId, Row(j)', invoices'[j].reminds = i
      PROVE  invoices'[i].due < invoices'[j].issued
  <2>0. i # NULL
    BY DEF NULL, InvoiceId
  <2>1. CASE Issued(invoices[j])
    <3>1. Frozen(j) /\ Row(j)
      BY <2>1, IssuedRows DEF Row, Issued
    <3>2. Succeeds(j, i)
      BY <1>3, <3>1 DEF Frozen, Succeeds
    <3>3. Issued(invoices[i])
      BY <3>2 DEF OneSuccessor, Issued
    <3>4. Frozen(i)
      BY <3>3, IssuedRows
    <3> QED
      BY <1>3, <3>1, <3>4 DEF DunningAfterDue, Frozen
  <2>2. CASE ~Issued(invoices[j])
    <3>1. BecomesIssued(j)
      BY <1>3, <2>0, <2>2, OtherRows DEF Blank
    <3>2. CASE SendInvoice(j) /\ invoices[j].status = "draft" /\ invoices'[j] = sentRow(j)
      BY <1>3, <2>0, <2>2, <3>2, NewRows DEF BlankInv, Blank
    <3>3. CASE \E k \in InvoiceId : CreditInvoice(k, j) /\ invoices'[j] = creditNote(k)
      BY <1>3, <2>0, <3>3, NewRows
    <3>4. ASSUME NEW r \in Run, NEW k \in InvoiceId, NEW terms \in Terms,
                 RunRemind(r, k, j, terms), invoices'[j] = reminderRow(k, runs[r].day, terms)
          PROVE  invoices'[i].due < invoices'[j].issued
      <4>1. k = i /\ invoices'[j].issued = runs[r].day
        BY <1>3, <3>4, NewRows
      <4>2. i \in runs[r].reminders
        BY <3>4, <4>1 DEF RunRemind, First
      <4>3. Issued(invoices[i]) /\ invoices[i].due < runs[r].day
        BY <4>2 DEF RunInv
      <4> QED
        BY <4>1, <4>3, IssuedRows DEF Frozen
    <3>5. CASE \E r \in Run, t \in TemplateId, terms \in Terms :
                 /\ RunGenerate(r, t, j, terms)
                 /\ invoices'[j] = generatedRow(t, templates[t].next, templates[t].total, terms)
      BY <1>3, <2>0, <3>5, NewRows
    <3> QED
      BY <3>1, <3>2, <3>3, <3>4, <3>5 DEF BecomesIssued
  <2> QED
    BY <2>1, <2>2
<1> QED
  BY <1>2, <1>3 DEF DunningAfterDue, Row

\* Nobody is dunned early, however old the list a run works on and however many
\* runs overlap.
THEOREM DunnedAfterDue == Spec => []DunningAfterDue
<1>1. Init => DunningAfterDue
  BY DEF Init, LedgerInit, DunningAfterDue, Row, NoRow
<1>2. Spec => []BlankInv
  BY BlankInit, BlankStep, TypeCorrect, PTL DEF Spec
<1>3. Spec => []RunInv
  BY RunInvInit, RunInvStep, TypeCorrect, PTL DEF Spec
<1> QED
  BY <1>1, <1>2, <1>3, TypeCorrect, ClaimedOnce, DunningStep, PTL DEF Spec
----------------------------------------------------------------------------
(* Templates *)

\* A row with a template was generated from it, now or before.
LEMMA Generated ==
  ASSUME TypeOK, BlankInv, [Next]_vars, NEW j \in InvoiceId,
         Row(j)', invoices'[j].template # NULL
  PROVE  \/ /\ Issued(invoices[j]) /\ Frozen(j)
            /\ invoices'[j].template = invoices[j].template
         \/ \E r \in Run, t \in TemplateId, terms \in Terms :
              /\ RunGenerate(r, t, j, terms) /\ invoices[j].status = "none"
              /\ invoices'[j].template = t /\ invoices'[j].issued = templates[t].next
<1>1. CASE Issued(invoices[j])
  BY <1>1, IssuedRows
<1>2. CASE ~Issued(invoices[j])
  <2>1. BecomesIssued(j)
    BY <1>2, OtherRows DEF Blank
  <2>2. CASE SendInvoice(j) /\ invoices[j].status = "draft" /\ invoices'[j] = sentRow(j)
    BY <1>2, <2>2, NewRows DEF BlankInv, Blank
  <2>3. CASE \E k \in InvoiceId : CreditInvoice(k, j) /\ invoices'[j] = creditNote(k)
    BY <2>3, NewRows
  <2>4. CASE \E r \in Run, k \in InvoiceId, terms \in Terms :
               RunRemind(r, k, j, terms) /\ invoices'[j] = reminderRow(k, runs[r].day, terms)
    BY <2>4, NewRows
  <2>5. CASE \E r \in Run, t \in TemplateId, terms \in Terms :
               /\ RunGenerate(r, t, j, terms)
               /\ invoices'[j] = generatedRow(t, templates[t].next, templates[t].total, terms)
    <3>1. PICK r \in Run, t \in TemplateId, terms \in Terms :
            /\ RunGenerate(r, t, j, terms)
            /\ invoices'[j] = generatedRow(t, templates[t].next, templates[t].total, terms)
      BY <2>5
    <3>2. invoices[j].status = "none"
      BY <3>1, GenerateEffect
    <3>3. invoices'[j].template = t /\ invoices'[j].issued = templates[t].next
      BY <3>1, NewRows
    <3> QED
      BY <3>1, <3>2, <3>3
  <2> QED
    BY <2>1, <2>2, <2>3, <2>4, <2>5 DEF BecomesIssued
<1> QED
  BY <1>1, <1>2

\* No step bills a period that has not come: the template is looked at again
\* under its lock, against a day that has come.
LEMMA AheadStep ==
  TypeOK /\ TypeOK' /\ BlankInv /\ RunInv /\ NotBilledAhead /\ [Next]_vars => NotBilledAhead'
<1> SUFFICES ASSUME TypeOK, TypeOK', BlankInv, RunInv, NotBilledAhead, [Next]_vars,
                    NEW j \in InvoiceId, Row(j)', invoices'[j].template # NULL
             PROVE  invoices'[j].issued <= today'
  BY DEF NotBilledAhead, Row
<1>1. today \in Nat /\ today' \in Nat /\ today <= today'
  BY DaysPass
<1>2. invoices[j].issued \in Nat /\ invoices'[j].issued \in Nat
  BY DEF TypeOK, InvoiceRow
<1>3. CASE /\ Issued(invoices[j]) /\ Frozen(j)
           /\ invoices'[j].template = invoices[j].template
  BY <1>1, <1>2, <1>3 DEF NotBilledAhead, Frozen, Row, Issued
<1>4. ASSUME NEW r \in Run, NEW t \in TemplateId, NEW terms \in Terms, RunGenerate(r, t, j, terms),
             invoices'[j].issued = templates[t].next
      PROVE  invoices'[j].issued <= today'
  <2>1. templates[t].next <= runs[r].day
    BY <1>4 DEF RunGenerate, Due
  <2>2. runs[r].day \in Nat /\ runs[r].day <= today
    BY DEF TypeOK, RunInv
  <2> QED
    BY <1>1, <1>2, <1>4, <2>1, <2>2
<1> QED
  BY <1>3, <1>4, Generated

\* No period is billed before it has come, whatever edit, pause or other run has
\* overtaken the list of the run that bills it.
THEOREM BilledInTime == Spec => []NotBilledAhead
<1>1. Init => NotBilledAhead
  BY DEF Init, LedgerInit, NotBilledAhead, Row, NoRow
<1>2. Spec => []BlankInv
  BY BlankInit, BlankStep, TypeCorrect, PTL DEF Spec
<1>3. Spec => []RunInv
  BY RunInvInit, RunInvStep, TypeCorrect, PTL DEF Spec
<1> QED
  BY <1>1, <1>2, <1>3, TypeCorrect, AheadStep, PTL DEF Spec

\* A step moves no live template's date back.
DatesMoveOn ==
  \A t \in TemplateId : Live(t) /\ templates'[t].status = "live" => templates[t].next <= templates'[t].next

\* The inductive invariant behind OneInvoicePerPeriod: an invoice belongs to a
\* period before the one its template is to bill next.
PeriodInv ==
  /\ \A t \in TemplateId : Live(t) => templates[t].interval > 0
  /\ \A i \in InvoiceId : Row(i) /\ invoices[i].template # NULL =>
       /\ Live(invoices[i].template)
       /\ invoices[i].issued < templates[invoices[i].template].next

\* The step is the write of an edit.
Edited ==
  \E e \in Editor, active \in BOOLEAN, interval \in Interval, total \in TemplateAmount :
    \E next \in EditDate \cup {edits[e].row.next} : WriteTemplate(e, next, active, interval, total)

\* What a step does to the row of the template t.
TemplateMove(t) ==
  \/ templates'[t] = templates[t]
  \/ ~Live(t) /\ templates[t].status = "none" /\ templates'[t].interval \in Interval
  \/ /\ Edited
     /\ Live(t) /\ templates'[t].status = "live"
     /\ templates'[t].interval \in Interval
  \/ RemoveTemplate(t) /\ templates'[t].status = "deleted"
  \/ \E r \in Run, c \in InvoiceId, terms \in Terms :
       /\ RunGenerate(r, t, c, terms)
       /\ Live(t) /\ templates'[t].status = "live"
       /\ templates'[t].interval = templates[t].interval
       /\ templates'[t].next = templates[t].next + templates[t].interval

\* Every step is such a move for every template.
LEMMA TemplatesMove ==
  ASSUME TypeOK, [Next]_vars, NEW t \in TemplateId
  PROVE  TemplateMove(t)
<1>0. \A u \in TemplateId : templates[u] \in TemplateRow
  BY DEF TypeOK
<1>1. ASSUME UNCHANGED templates PROVE TemplateMove(t)
  BY <1>1 DEF TemplateMove
<1>2. ASSUME NEW u \in TemplateId, NEW next \in Day, NEW interval \in Interval,
             NEW total \in TemplateAmount, CreateTemplate(u, next, interval, total)
      PROVE  TemplateMove(t)
  BY <1>0, <1>2 DEF CreateTemplate, TemplateMove, Live, TypeOK
<1>3. ASSUME NEW e \in Editor, NEW active \in BOOLEAN, NEW interval \in Interval,
             NEW total \in TemplateAmount, NEW next \in EditDate \cup {edits[e].row.next},
             WriteTemplate(e, next, active, interval, total)
      PROVE  TemplateMove(t)
  <2>1. Edited
    BY <1>3 DEF Edited
  <2> QED
    BY <1>0, <1>3, <2>1 DEF WriteTemplate, TemplateMove, Live, TypeOK, TemplateRow
<1>4. ASSUME NEW u \in TemplateId, RemoveTemplate(u) PROVE TemplateMove(t)
  BY <1>0, <1>4 DEF RemoveTemplate, NoTemplate, TemplateMove, Live, TypeOK
<1>5. ASSUME NEW r \in Run, NEW u \in TemplateId, NEW c \in InvoiceId, NEW terms \in Terms,
             RunGenerate(r, u, c, terms)
      PROVE  TemplateMove(t)
  <2>1. templates' = [templates EXCEPT ![u].next = @ + templates[u].interval] /\ Live(u)
    BY <1>5 DEF RunGenerate, Due
  <2>2. t # u => templates'[t] = templates[t]
    BY <2>1 DEF TypeOK
  <2>3. t = u => /\ templates'[t].status = templates[t].status
                 /\ templates'[t].interval = templates[t].interval
                 /\ templates'[t].next = templates[t].next + templates[t].interval
    BY <1>0, <2>1 DEF TypeOK, TemplateRow
  <2> QED
    BY <1>5, <2>1, <2>2, <2>3 DEF TemplateMove, Live
<1>6. CASE AdminStep \/ PaymentStep \/ ConsumeStep
  BY <1>1, <1>6 DEF AdminStep, PaymentStep, ConsumeStep, automationVars
<1>7. CASE TemplateStep
  BY <1>1, <1>2, <1>3, <1>4, <1>7 DEF TemplateStep, ReadTemplate
<1>8. ASSUME NEW r \in Run, StartRun(r) \/ RunFault(r) PROVE TemplateMove(t)
  BY <1>1, <1>8 DEF StartRun, RunFault, RunStepFails, RunCrashes
<1>9. ASSUME NEW r \in Run, RunStep(r) PROVE TemplateMove(t)
  BY <1>1, <1>5, <1>9 DEF RunStep, RunOverdue, RunSelect, RunRemind, RunSkipReminder,
     RunListTemplates, RunSkipTemplate, FinishRun
<1>10. CASE LockExpires \/ NextDay \/ UNCHANGED vars
  BY <1>1, <1>10 DEF LockExpires, NextDay, automationVars, vars
<1> QED
  BY <1>6, <1>7, <1>8, <1>9, <1>10 DEF Next

\* A step that moves no date back keeps every invoice in a period that is past
\* for its template, and makes no second invoice of a period.
LEMMA PeriodStep ==
  /\ TypeOK /\ TypeOK' /\ BlankInv /\ PeriodInv /\ OneInvoicePerPeriod
  /\ [Next]_vars /\ DatesMoveOn
  => PeriodInv' /\ OneInvoicePerPeriod'
<1> SUFFICES ASSUME TypeOK, TypeOK', BlankInv, PeriodInv, OneInvoicePerPeriod, [Next]_vars, DatesMoveOn
             PROVE  PeriodInv' /\ OneInvoicePerPeriod'
  OBVIOUS
<1>0. \A t \in TemplateId : /\ templates[t].next \in Nat /\ templates'[t].next \in Nat
                            /\ templates[t].interval \in Nat
  BY DEF TypeOK, TemplateRow
<1>1. \A j \in InvoiceId : invoices[j].issued \in Nat /\ invoices'[j].issued \in Nat
                           /\ invoices[j].template \in TemplateId \cup {NULL}
                           /\ invoices'[j].template \in TemplateId \cup {NULL}
  BY DEF TypeOK, InvoiceRow
<1>2. ASSUME NEW t \in TemplateId, templates'[t].status = "live"
      PROVE  templates'[t].interval > 0
  <2>1. \A n \in Interval : n > 0
    BY AutomationAssumption
  <2> QED
    BY <1>2, <2>1, TemplatesMove DEF TemplateMove, PeriodInv, Live
<1>3. ASSUME NEW j \in InvoiceId, Issued(invoices[j]), invoices[j].template # NULL,
             invoices'[j].template = invoices[j].template
      PROVE  \E t \in TemplateId : /\ t = invoices[j].template /\ Live(t)
                                     /\ templates'[t].status = "live"
  <2>0. PICK t \in TemplateId : t = invoices[j].template
    BY <1>1, <1>3
  <2>1. Live(t)
    BY <1>3, <2>0 DEF PeriodInv, Row, Issued
  <2>2. ~RemoveTemplate(t)
    <3>1. ForgetTemplate(t) => invoices'[j].template = NULL
      BY <1>3, <2>0, ForgetEffect
    <3> QED
      BY <1>3, <3>1 DEF RemoveTemplate
  <2>3. TemplateMove(t)
    BY TemplatesMove
  <2>4. templates'[t].status = "live"
    BY <2>1, <2>2, <2>3 DEF TemplateMove, Live
  <2> QED
    BY <2>0, <2>1, <2>4
<1>4. ASSUME NEW j \in InvoiceId, Row(j)', invoices'[j].template # NULL
      PROVE  /\ templates'[invoices'[j].template].status = "live"
             /\ invoices'[j].issued < templates'[invoices'[j].template].next
  <2>1. CASE /\ Issued(invoices[j]) /\ Frozen(j)
             /\ invoices'[j].template = invoices[j].template
    <3>1. PICK t \in TemplateId : /\ t = invoices[j].template /\ Live(t)
                                  /\ templates'[t].status = "live"
      BY <1>3, <1>4, <2>1
    <3>2. invoices[j].issued < templates[t].next
      BY <1>4, <2>1, <3>1 DEF PeriodInv, Row, Issued
    <3>3. templates[t].next <= templates'[t].next
      BY <3>1 DEF DatesMoveOn
    <3>4. invoices'[j].issued = invoices[j].issued
      BY <2>1 DEF Frozen
    <3>5. invoices'[j].issued < templates'[t].next
      BY <1>0, <1>1, <3>1, <3>2, <3>3, <3>4
    <3> QED
      BY <2>1, <3>1, <3>5
  <2>2. ASSUME NEW r \in Run, NEW t \in TemplateId, NEW terms \in Terms,
               RunGenerate(r, t, j, terms), invoices'[j].template = t,
               invoices'[j].issued = templates[t].next
        PROVE  /\ templates'[invoices'[j].template].status = "live"
               /\ invoices'[j].issued < templates'[invoices'[j].template].next
    <3>1. templates' = [templates EXCEPT ![t].next = @ + templates[t].interval] /\ Live(t)
      BY <2>2 DEF RunGenerate, Due
    <3>2. templates[t] \in TemplateRow
      BY DEF TypeOK
    <3>3. /\ templates'[t].status = templates[t].status
          /\ templates'[t].next = templates[t].next + templates[t].interval
      BY <3>1, <3>2 DEF TypeOK, TemplateRow
    <3>4. templates[t].interval > 0
      BY <3>1 DEF PeriodInv
    <3>5. templates[t].next < templates'[t].next
      BY <1>0, <3>3, <3>4
    <3> QED
      BY <2>2, <3>1, <3>3, <3>5 DEF Live
  <2> QED
    BY <1>4, <2>1, <2>2, Generated
<1>5. ASSUME NEW i \in InvoiceId, NEW j \in InvoiceId, Row(i)', Row(j)',
             invoices'[i].template # NULL, invoices'[i].template = invoices'[j].template,
             invoices'[i].issued = invoices'[j].issued
      PROVE  i = j
  <2> DEFINE Old(k) == /\ Issued(invoices[k]) /\ Frozen(k)
                       /\ invoices'[k].template = invoices[k].template
             New(k) == \E r \in Run, t \in TemplateId, terms \in Terms :
                         /\ RunGenerate(r, t, k, terms) /\ invoices[k].status = "none"
                         /\ invoices'[k].template = t /\ invoices'[k].issued = templates[t].next
  <2>1. ASSUME NEW k \in InvoiceId, Old(k), NEW l \in InvoiceId, New(l),
               invoices'[k].template = invoices'[l].template,
               invoices'[k].issued = invoices'[l].issued
        PROVE  FALSE
    <3>1. PICK t \in TemplateId : invoices'[l].template = t /\ invoices'[l].issued = templates[t].next
      BY <2>1
    <3>2. t # NULL
      BY DEF TemplateId, NULL
    <3>3. invoices[k].template = t /\ invoices[k].issued = templates[t].next /\ Row(k)
      BY <2>1, <3>1 DEF Frozen, Row, Issued
    <3>4. invoices[k].issued < templates[t].next
      BY <3>2, <3>3 DEF PeriodInv
    <3> QED
      BY <1>0, <3>3, <3>4
  <2>2. CASE Old(i) /\ Old(j)
    BY <1>5, <2>2 DEF OneInvoicePerPeriod, Frozen, Row, Issued
  <2>3. CASE New(i) /\ New(j)
    <3>1. \A k \in InvoiceId : k # i => invoices'[k] = invoices[k]
      BY <2>3, GenerateEffect
    <3>2. j # i => invoices'[j].status = "none"
      BY <2>3, <3>1
    <3> QED
      BY <1>5, <3>2 DEF Row
  <2>4. (Old(i) \/ New(i)) /\ (Old(j) \/ New(j))
    BY <1>5, Generated
  <2> QED
    BY <1>5, <2>1, <2>2, <2>3, <2>4
<1> QED
  <2>1. PeriodInv'
    BY <1>2, <1>4 DEF PeriodInv, Live
  <2>2. OneInvoicePerPeriod'
    BY <1>5 DEF OneInvoicePerPeriod
  <2> QED
    BY <2>1, <2>2

\* No template bills a period twice as long as no edit moves its date back:
\* overlapping runs, failed steps, crashes, pauses and removals do no harm.
THEOREM PeriodsBilledOnce == Spec /\ [][DatesMoveOn]_vars => []OneInvoicePerPeriod
<1>1. Init => PeriodInv /\ OneInvoicePerPeriod
  BY DEF Init, LedgerInit, PeriodInv, OneInvoicePerPeriod, Row, NoRow, Live, NoTemplate
<1>2. Spec => []BlankInv
  BY BlankInit, BlankStep, TypeCorrect, PTL DEF Spec
<1>3. /\ TypeOK /\ TypeOK' /\ BlankInv /\ PeriodInv /\ OneInvoicePerPeriod
      /\ [Next]_vars /\ [DatesMoveOn]_vars
      => PeriodInv' /\ OneInvoicePerPeriod'
  <2>1. TypeOK /\ UNCHANGED vars => DatesMoveOn
    <3> SUFFICES ASSUME TypeOK, UNCHANGED vars, NEW t \in TemplateId
                 PROVE  templates[t].next <= templates'[t].next
      BY DEF DatesMoveOn
    <3>1. templates[t].next \in Nat /\ templates' = templates
      BY DEF TypeOK, TemplateRow, vars
    <3> QED
      BY <3>1
  <2> QED
    BY <2>1, PeriodStep
<1> QED
  BY <1>1, <1>2, <1>3, TypeCorrect, PTL DEF Spec

\* Only the write of an edit can move a template's date back.
LEMMA OnlyEditsMoveBack ==
  ASSUME TypeOK, [Next]_vars, ~Edited
  PROVE  DatesMoveOn
<1> SUFFICES ASSUME NEW t \in TemplateId, Live(t), templates'[t].status = "live"
             PROVE  templates[t].next <= templates'[t].next
  BY DEF DatesMoveOn
<1>1. /\ templates[t].next \in Nat /\ templates[t].interval \in Nat
      /\ templates[t].status = "live"
  BY DEF TypeOK, TemplateRow, Live
<1>2. \/ templates'[t] = templates[t]
      \/ templates'[t].next = templates[t].next + templates[t].interval
  BY <1>1, TemplatesMove DEF TemplateMove
<1> QED
  BY <1>1, <1>2

\* Where no admin edits templates, no period is billed twice.
THEOREM UneditedBilledOnce ==
  ASSUME Editor = {}
  PROVE  Spec => []OneInvoicePerPeriod
<1>1. TypeOK /\ [Next]_vars => DatesMoveOn
  BY OnlyEditsMoveBack DEF Edited
<1> QED
  BY <1>1, TypeCorrect, PeriodsBilledOnce, PTL DEF Spec
=============================================================================
