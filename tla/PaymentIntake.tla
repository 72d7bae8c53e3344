---------------------------- MODULE PaymentIntake ----------------------------
(***************************************************************************)
(* How money enters the payments service: bank files imported line by line *)
(* and webhooks of the bank, each handled by the matching engine in three  *)
(* transactions with calls to billing in between.  Files are imported      *)
(* again, webhooks are redelivered, several requests handle the same       *)
(* transaction at once, billing may be down and the process may die        *)
(* between any two steps.  Billing's answers are its own (it may answer    *)
(* differently from one call to the next), so they are inputs here.        *)
(***************************************************************************)
EXTENDS Integers, Sequences, FiniteSets

CONSTANTS
    Jobs,            \* what senders deliver: files and webhooks
    Lines,           \* Jobs -> the lines of the file; a webhook has one
    Requests,        \* requests in progress at once
    InvoiceAnswers,  \* what billing may say of an OCR: [id, status, remaining]
    MaxFailures      \* bound: calls that fail and processes that die

(***************************************************************************)
(* A line: [ok, source, id, bankgiro, ocr, amount], where ok is FALSE for  *)
(* one the parser or the webhook's checks refuse, id is "" when the bank   *)
(* gave none, and ocr says whether the number passes its check digit.      *)
(***************************************************************************)
\* What is assumed of the constants; asserted where they get their values.
IntakeAssumption ==
    /\ \A j \in Jobs : \A n \in DOMAIN Lines[j] :
          Lines[j][n].amount \in Nat /\ Lines[j][n].ok \in BOOLEAN
    /\ \A j \in Jobs : Len(Lines[j]) \in Nat /\ DOMAIN Lines[j] = 1 .. Len(Lines[j])
    /\ \A a \in InvoiceAnswers : a.id \in Nat
    /\ MaxFailures \in Nat

VARIABLES
    rows,       \* bank_transactions: Key -> [status, invoice, amount]
    events,     \* Key -> payment.* events written to the outbox
    req,        \* the requests: where they are and what they carry
    satisfied,  \* jobs whose sender got 200, or a summary without unresolved lines
    failures

vars == <<rows, events, req, satisfied, failures>>

NoInvoice == [id |-> 0, status |-> "none", remaining |-> 0]

\* The id the bank gave, or one derived from the position and the fields.
externalId(j, n) ==
    LET l == Lines[j][n]
    IN  IF l.id # "" THEN <<l.source, l.id>>
        ELSE <<l.source, n, l.bankgiro, l.ocr, l.amount>>

Keys == UNION { { externalId(j, n) : n \in { m \in DOMAIN Lines[j] : Lines[j][m].ok } } :
                j \in Jobs }

Idle == [at |-> "idle", job |-> "", line |-> 0, tenant |-> FALSE,
         answer |-> NoInvoice, unresolved |-> 0]
Line(r) == Lines[req[r].job][req[r].line]
Key(r) == externalId(req[r].job, req[r].line)

Init ==
    /\ rows = [k \in Keys |-> [status |-> "none", invoice |-> 0, amount |-> 0]]
    /\ events = [k \in Keys |-> 0]
    /\ req = [r \in Requests |-> Idle]
    /\ satisfied = {}
    /\ failures = 0

-----------------------------------------------------------------------------
\* A file is posted or a webhook arrives, for the first time or again.
receive(r, j) ==
    /\ req[r].at = "idle"
    /\ req' = [req EXCEPT ![r] = [Idle EXCEPT !.at = "line", !.job = j, !.line = 1]]
    /\ UNCHANGED <<rows, events, satisfied, failures>>

\* The request is done with its line; failed: it threw, the row stays pending.
NextLine(r, failed) ==
    req' = [req EXCEPT ![r] =
              [Idle EXCEPT !.at = "line", !.job = req[r].job, !.line = req[r].line + 1,
                           !.unresolved = req[r].unresolved + (IF failed THEN 1 ELSE 0)]]

\* A malformed line is reported and skipped; the rest of the file goes on.
skipLine(r) ==
    /\ req[r].at = "line" /\ req[r].line <= Len(Lines[req[r].job]) /\ ~Line(r).ok
    /\ NextLine(r, FALSE)
    /\ UNCHANGED <<rows, events, satisfied, failures>>

\* Step 1 of match: write the row as pending, or find the one there is.
intake(r) ==
    /\ req[r].at = "line" /\ req[r].line <= Len(Lines[req[r].job]) /\ Line(r).ok
    /\ LET k == Key(r) IN
         IF rows[k].status \in {"none", "pending"}
         THEN /\ rows' = [rows EXCEPT ![k].status = "pending", ![k].amount = Line(r).amount]
              /\ req' = [req EXCEPT ![r].at = "tenant"]
         ELSE /\ NextLine(r, FALSE)                       \* duplicate
              /\ UNCHANGED rows
    /\ UNCHANGED <<events, satisfied, failures>>

\* Step 2: resolveTenantByBankgiro.
resolveTenant(r, known) ==
    /\ req[r].at = "tenant"
    /\ req' = [req EXCEPT ![r].tenant = known,
                          ![r].at = IF known /\ Line(r).ocr THEN "invoice" ELSE "resolve"]
    /\ UNCHANGED <<rows, events, satisfied, failures>>

\* Step 3: resolveInvoiceByOcr.
resolveInvoice(r, answer) ==
    /\ req[r].at = "invoice"
    /\ req' = [req EXCEPT ![r].answer = answer, ![r].at = "resolve"]
    /\ UNCHANGED <<rows, events, satisfied, failures>>

\* decideMatch: unknown bankgiro; unknown OCR; wrong status; overpayment.
decideMatch(r) ==
    LET i == req[r].answer
    IN  IF ~req[r].tenant THEN "unmatched"
        ELSE IF \/ i.status \notin {"sent", "overdue"}
                \/ Line(r).amount > i.remaining THEN "manual_review"
        ELSE "matched"

Decided(r, k) ==
    [rows EXCEPT ![k].status = decideMatch(r),
                 ![k].invoice = IF decideMatch(r) = "matched" THEN req[r].answer.id ELSE 0]

Announce(k, status) ==
    events' = [events EXCEPT ![k] = IF status = "matched" THEN @ + 1 ELSE @]

\* Mutant of resolvePending: the UPDATE is not conditioned on 'pending'.
resolvePendingMutAny(r) ==
    /\ req[r].at = "resolve"
    /\ LET k == Key(r) IN
         /\ rows' = Decided(r, k)
         /\ Announce(k, decideMatch(r))
    /\ NextLine(r, FALSE)
    /\ UNCHANGED <<satisfied, failures>>

\* Step 5: decide the row and write the event, if it is still pending.
resolvePending(r) ==
    /\ req[r].at = "resolve"
    /\ LET k == Key(r) IN
         IF rows[k].status = "pending"
         THEN /\ rows' = Decided(r, k)
              /\ Announce(k, decideMatch(r))
         ELSE UNCHANGED <<rows, events>>                  \* duplicate
    /\ NextLine(r, FALSE)
    /\ UNCHANGED <<satisfied, failures>>

\* Billing is down, refuses or times out, or the transaction fails.
matchFails(r) ==
    /\ req[r].at \in {"tenant", "invoice", "resolve"}
    /\ failures < MaxFailures
    /\ failures' = failures + 1
    /\ NextLine(r, TRUE)
    /\ UNCHANGED <<rows, events, satisfied>>

\* Mutant of respond: the sender is told all went well.
respondMutAlways(r) ==
    /\ req[r].at = "line" /\ req[r].line > Len(Lines[req[r].job])
    /\ satisfied' = satisfied \cup {req[r].job}
    /\ req' = [req EXCEPT ![r] = Idle]
    /\ UNCHANGED <<rows, events, failures>>

\* 200 and the summary; a webhook whose match threw answers 5xx.
respond(r) ==
    /\ req[r].at = "line" /\ req[r].line > Len(Lines[req[r].job])
    /\ satisfied' = IF req[r].unresolved = 0 THEN satisfied \cup {req[r].job} ELSE satisfied
    /\ req' = [req EXCEPT ![r] = Idle]
    /\ UNCHANGED <<rows, events, failures>>

processDies(r) ==
    /\ req[r].at # "idle"
    /\ failures < MaxFailures
    /\ failures' = failures + 1
    /\ req' = [req EXCEPT ![r] = Idle]
    /\ UNCHANGED <<rows, events, satisfied>>

-----------------------------------------------------------------------------
(***************************************************************************)
(* matchInTx and ignoreInTx hold the row FOR UPDATE from their first read  *)
(* to their commit, so each is one step.                                   *)
(***************************************************************************)
matchInTx(k, answer, acceptOverpayment) ==
    /\ rows[k].status = "manual_review"
    /\ answer.status \in {"sent", "overdue"}
    /\ rows[k].amount <= answer.remaining \/ acceptOverpayment
    /\ rows' = [rows EXCEPT ![k].status = "matched", ![k].invoice = answer.id]
    /\ Announce(k, "matched")
    /\ UNCHANGED <<req, satisfied, failures>>

ignoreInTx(k) ==
    /\ rows[k].status = "manual_review"
    /\ rows' = [rows EXCEPT ![k].status = "ignored"]
    /\ UNCHANGED <<events, req, satisfied, failures>>

-----------------------------------------------------------------------------
RequestStep(r) ==
    \/ skipLine(r) \/ intake(r) \/ resolvePending(r) \/ respond(r)
    \/ \E known \in BOOLEAN : resolveTenant(r, known)
    \/ \E a \in InvoiceAnswers \cup {NoInvoice} : resolveInvoice(r, a)

Next ==
    \/ \E r \in Requests : \/ RequestStep(r) \/ matchFails(r) \/ processDies(r)
                           \/ \E j \in Jobs : receive(r, j)
    \/ \E k \in Keys : \/ ignoreInTx(k)
                       \/ \E a \in InvoiceAnswers, accept \in BOOLEAN :
                             matchInTx(k, a, accept)

Spec == Init /\ [][Next]_vars

(***************************************************************************)
(* A request that has started runs on.  The bank redelivers a webhook and  *)
(* an admin imports a file again until it is answered without unresolved   *)
(* lines; nothing inside the service takes up a pending row by itself.     *)
(***************************************************************************)
FairSpec ==
    /\ Spec
    /\ \A r \in Requests : WF_vars(RequestStep(r))
    /\ \A j \in Jobs : SF_vars(j \notin satisfied /\ \E r \in Requests : receive(r, j))

-----------------------------------------------------------------------------
Status == {"none", "pending", "matched", "manual_review", "unmatched", "ignored"}

TypeOK ==
    /\ rows \in [Keys -> [status : Status, invoice : Nat, amount : Nat]]
    /\ events \in [Keys -> 0 .. 1]
    /\ satisfied \subseteq Jobs
    /\ failures \in 0 .. MaxFailures
    /\ \A r \in Requests : req[r].at \in {"idle", "line", "tenant", "invoice", "resolve"}

\* The lines of a job that were accepted, as keys.
KeysOf(j) == { externalId(j, n) : n \in { m \in DOMAIN Lines[j] : Lines[j][m].ok } }

\* Two lines are one transaction only if the bank gave them the same id.
SameTransaction(l, m) == l.id # "" /\ l.id = m.id

(***************************************************************************)
(* A sender that was told all is well need not send again: every line it   *)
(* sent has a decided row of its own, whatever other requests did with the *)
(* same lines meanwhile, and equal payments on one day are both kept.      *)
(***************************************************************************)
SatisfiedIsDecided ==
    \A j \in satisfied :
        /\ \A k \in KeysOf(j) : rows[k].status \notin {"none", "pending"}
        /\ \A m, n \in { l \in DOMAIN Lines[j] : Lines[j][l].ok } :
              m = n \/ SameTransaction(Lines[j][m], Lines[j][n])
                    \/ externalId(j, m) # externalId(j, n)

Transactions == INSTANCE BankTransactions WITH
    status <- [k \in Keys |-> rows[k].status], announced <- events

(***************************************************************************)
(* Intake, decision, review and event writing do only what BankTransactions *)
(* allows: one decision, one correction, one announcement of a match.      *)
(***************************************************************************)
MovesAsTransactions == Transactions!Init /\ [][Transactions!Next]_(Transactions!vars)

(***************************************************************************)
(* They implement it, its liveness included: no row stays pending for ever *)
(* while its sender keeps sending.                                         *)
(***************************************************************************)
ImplementsTransactions == Transactions!Spec
=============================================================================
