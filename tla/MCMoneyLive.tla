---------------------------- MODULE MCMoneyLive ----------------------------
(***************************************************************************)
(* What must happen to money in the end: an instance of PaymentIntake, and *)
(* beside it two of Billing, small enough for liveness.  A behaviour plays *)
(* one scenario, that is one of the instances; PaymentIntake does not      *)
(* leave its initial state in the others, and the variables of Billing     *)
(* stay at NoValue in the first.                                           *)
(***************************************************************************)
EXTENDS PaymentIntake, TLC

CONSTANTS NoValue,
          payment          \* a bank transaction of Billing

VARIABLES scenario,
    today, settings, invoices, snapshots, documents, payments, bank, matched, processed,
    templates, edits, runs, lockHeld

billingVars == <<today, settings, invoices, snapshots, documents, payments, bank, matched,
                 processed, templates, edits, runs, lockHeld>>
suiteVars == <<scenario, vars, billingVars>>

-----------------------------------------------------------------------------
(* A file with a malformed line and two equal payments the bank gave no    *)
(* id, and a webhook.                                                      *)
BankLine(ok, source, id, ocr, amount) ==
    [ok |-> ok, source |-> source, id |-> id, bankgiro |-> "bg", ocr |-> ocr, amount |-> amount]

BankLines == "file" :> <<BankLine(TRUE, "bgmax", "", TRUE, 1), BankLine(FALSE, "bgmax", "", TRUE, 0),
                         BankLine(TRUE, "bgmax", "", TRUE, 1)>>
          @@ "webhook" :> <<BankLine(TRUE, "webhook", "x", TRUE, 2)>>

BillingAnswers == {[id |-> 1, status |-> "sent", remaining |-> 1],
                   [id |-> 2, status |-> "paid", remaining |-> 0]}

(* An invoice, its reminder and a bank transaction, without faults.        *)
Debt == INSTANCE Billing WITH
    MaxOriginals <- 1, MaxTemplates <- 0, MaxDay <- 2, PaymentId <- {payment}, Amount <- {2},
    PayAmount <- {1, 2}, Fee <- {0}, Terms <- {0}, Run <- {"run"}, Editor <- {}, EditDate <- {},
    TemplateAmount <- {1}, Interval <- {1}, MaxCatchup <- 2, RunMayFail <- FALSE,
    events <- documents

(* A template three periods behind a cap of two a night.                   *)
Behind == INSTANCE Billing WITH
    MaxOriginals <- 3, MaxTemplates <- 1, MaxDay <- 2, PaymentId <- {}, Amount <- {},
    PayAmount <- {1}, Fee <- {0}, Terms <- {2}, Run <- {"run"}, Editor <- {}, EditDate <- {},
    TemplateAmount <- {1}, Interval <- {1}, MaxCatchup <- 2, RunMayFail <- FALSE,
    events <- documents

ASSUME InstanceAssumption == IntakeAssumption

-----------------------------------------------------------------------------
NoBilling == /\ today = NoValue /\ settings = NoValue /\ invoices = NoValue
             /\ snapshots = NoValue /\ documents = NoValue /\ payments = NoValue
             /\ bank = NoValue /\ matched = NoValue /\ processed = NoValue
             /\ templates = NoValue /\ edits = NoValue /\ runs = NoValue /\ lockHeld = NoValue

SuiteInit ==
    /\ Init
    /\ \/ scenario = "intake" /\ NoBilling
       \/ scenario = "debt" /\ Debt!Init
       \/ scenario = "behind" /\ Behind!Init

TakingIn(A) == scenario = "intake" /\ A /\ UNCHANGED <<scenario, billingVars>>
Owing(D, B) == /\ \/ scenario = "debt" /\ D
                  \/ scenario = "behind" /\ B
               /\ UNCHANGED <<scenario, vars>>

SuiteNext == TakingIn(Next) \/ Owing(Debt!Next, Behind!Next)

\* The fairness of the components, in the scenario that is played.
FairSuite ==
    /\ SuiteInit /\ [][SuiteNext]_suiteVars
    /\ \A r \in Requests : WF_suiteVars(TakingIn(RequestStep(r)))
    /\ \A j \in Jobs :
          SF_suiteVars(TakingIn(j \notin satisfied /\ \E r \in Requests : receive(r, j)))
    /\ WF_suiteVars(Owing(Debt!ConsumeStep, Behind!ConsumeStep))
    /\ WF_suiteVars(Owing(Debt!LockExpires, Behind!LockExpires))
    /\ WF_suiteVars(Owing(Debt!StartRun("run"), Behind!StartRun("run")))
    /\ WF_suiteVars(Owing(Debt!RunStep("run"), Behind!RunStep("run")))

-----------------------------------------------------------------------------
(* Properties of Billing; those of PaymentIntake stand there.              *)

\* What is due is done in the end: money matched to an invoice is booked
\* (payments/consumer.ts), an overdue debt is paid, credited or reminded of, and a
\* due template is billed up to the present day (automation/service.ts,
\* generateFromTemplateInTx): MatchedIsBooked, DebtIsPursued and TemplatesCatchUp
\* of Billing, each while its scenario is played.
DuesAreMet ==
    LET DueNow == /\ settings.complete /\ Behind!Live(1) /\ templates[1].active
                  /\ templates[1].next <= today
        Ahead == ~Behind!Live(1) \/ ~templates[1].active \/ templates[1].next > today
    IN  /\ (scenario = "debt" /\ bank[payment].status = "matched")
              ~> (scenario = "debt" /\ \E row \in payments : row.payment = payment)
        /\ \A i \in {1, 2} :
              (scenario = "debt" /\ Debt!StillRemindable(i) /\ invoices[i].due < today)
                ~> (scenario = "debt" /\ invoices[i].status \notin Debt!REMINDABLE)
        /\ (scenario = "behind" /\ DueNow) ~> (scenario = "behind" /\ Ahead)
=============================================================================
