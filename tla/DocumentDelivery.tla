-------------------------- MODULE DocumentDelivery --------------------------
(***************************************************************************)
(* From a sent invoice to its delivery status: billing stores a snapshot,  *)
(* the documents service renders it and queues an e-mail, the e-mail       *)
(* worker leases queued rows and talks SMTP outside every transaction, the *)
(* provider reports what became of the mail, and billing applies the       *)
(* status events, in any order.  One customer receives every invoice; the  *)
(* admin may change the address.                                           *)
(*                                                                         *)
(* The event bus is abstracted to what EventBus shows of it when nothing   *)
(* is dead-lettered: every event arrives, perhaps late.                    *)
(***************************************************************************)
EXTENDS Integers, FiniteSets, FiniteSetsExt

CONSTANTS
    Invoices,       \* invoices, credit notes and reminders: one document each
    Tasks,          \* messages the documents consumer handles at once (PREFETCH)
    Workers,        \* e-mail workers: one per documents process
    MaxAttempts,    \* MAX_ATTEMPTS of the e-mail worker
    Reports,        \* what the provider may report: <<status, bounce type>>
    MaxMailFaults,  \* bound: crashes and failures of database and SMTP
    MaxAddress      \* bound: changes of the customer's address

\* What is assumed of the constants; asserted where they get their values.
\* A provider's status outside WEBHOOK_STATUS_MAP is answered with 400.
MailAssumption ==
    /\ MaxAttempts \in Nat \ {0} /\ MaxMailFaults \in Nat /\ MaxAddress \in Nat
    /\ \A r \in Reports : r[1] \in {"delivered", "bounced", "failed"}

VARIABLES
    customer,   \* customers.email and email_valid
    snapshot,   \* invoice_snapshots: the customer as of the sending
    delivery,   \* invoices.delivery_status
    handling,   \* the documents consumer's running handlers
    documents,  \* documents rows, marked processed in the same transaction
    mail,       \* email_outbox
    worker,     \* e-mail workers
    sent,       \* Invoices -> mails the SMTP server accepted
    mailFaults, \* Invoices -> failures that may explain a further mail
    seen,       \* email_webhook_events: reports accepted
    unknown,    \* reports answered as ignored_unknown_message
    events      \* invoice.delivery_updated events not yet applied

mailVars == <<customer, snapshot, delivery, handling, documents, mail, worker, sent,
              mailFaults, seen, unknown, events>>

Order == [none |-> 0, queued |-> 1, sent |-> 2, failed |-> 3, delivered |-> 4, bounced |-> 5]
deliveryRank(st) == Order[st]

Nothing == "none"
NotSent == [addr |-> -1, valid |-> FALSE]
NotQueued == [status |-> Nothing, attempts |-> 0, due |-> FALSE, msg |-> 0]
IdleWorker == [at |-> "idle", batch |-> {}, cur |-> Nothing, msg |-> 0,
               attempts |-> [i \in Invoices |-> 0]]

MailInit ==
    /\ customer = [addr |-> 0, valid |-> TRUE]
    /\ snapshot = [i \in Invoices |-> NotSent]
    /\ delivery = [i \in Invoices |-> "none"]
    /\ handling = [t \in Tasks |-> Nothing]
    /\ documents = {}
    /\ mail = [i \in Invoices |-> NotQueued]
    /\ worker = [w \in Workers |-> IdleWorker]
    /\ sent = [i \in Invoices |-> 0]
    /\ mailFaults = [i \in Invoices |-> 0]
    /\ seen = {} /\ unknown = {} /\ events = {}

deliveryUpdated(i, st, hard) == [inv |-> i, status |-> st, hard |-> hard]
Fault(i) == /\ SumFunction(mailFaults) < MaxMailFaults
            /\ mailFaults' = [mailFaults EXCEPT ![i] = @ + 1]

-----------------------------------------------------------------------------
(* Billing. *)

\* changeAddress: email_valid is left as it is.
changeAddress ==
    /\ customer.addr < MaxAddress
    /\ customer' = [customer EXCEPT !.addr = @ + 1]
    /\ UNCHANGED <<snapshot, delivery, handling, documents, mail, worker, sent, mailFaults,
                   seen, unknown, events>>

\* The snapshot holds the address and email_valid of the moment it is sent.
sendInvoice(i) ==
    /\ snapshot[i] = NotSent
    /\ snapshot' = [snapshot EXCEPT ![i] = customer]
    /\ UNCHANGED <<customer, delivery, handling, documents, mail, worker, sent, mailFaults,
                   seen, unknown, events>>

\* array_position(order, delivery_status) < array_position(order, next)
advanceDeliveryStatus(st, next) == IF deliveryRank(st) < deliveryRank(next) THEN next ELSE st

\* Mutant of applyStatus: the last event wins.
applyStatusMutLast(e) ==
    /\ e \in events
    /\ events' = events \ {e}
    /\ delivery' = [delivery EXCEPT ![e.inv] = e.status]
    /\ customer' = [customer EXCEPT !.valid = @ /\ ~e.hard]
    /\ UNCHANGED <<snapshot, handling, documents, mail, worker, sent, mailFaults, seen,
                   unknown>>

(***************************************************************************)
(* apply: the status moves forward only; a hard bounce marks the           *)
(* customer's address, whatever it is by now.                              *)
(***************************************************************************)
applyStatus(e) ==
    /\ e \in events
    /\ events' = events \ {e}
    /\ delivery' = [delivery EXCEPT ![e.inv] = advanceDeliveryStatus(@, e.status)]
    /\ customer' = [customer EXCEPT !.valid = @ /\ ~e.hard]
    /\ UNCHANGED <<snapshot, handling, documents, mail, worker, sent, mailFaults, seen,
                   unknown>>

-----------------------------------------------------------------------------
(* The documents consumer: one handling per unacknowledged message. *)

alreadyProcessed(i) == i \in documents

\* UNIQUE (tenant_id, invoice_id, document_type), ON CONFLICT DO NOTHING: the
\* row is there afterwards, and the insert tells whether it was new.
insertDocument(i, isNew) ==
    /\ isNew = (i \notin documents)
    /\ documents' = documents \cup {i}

\* The row the worker will find: due at once, no attempt counted.
enqueueEmail(i) == [mail EXCEPT ![i] = [NotQueued EXCEPT !.status = "queued", !.due = TRUE]]

\* GET /internal/invoices/:id/snapshot; the invoice was sent with the event.
fetchSnapshot(i) == snapshot[i] # NotSent

\* Not processed yet; snapshot fetched, PDF rendered and stored under its key.
handleEvent(t, i) ==
    /\ handling[t] = Nothing /\ fetchSnapshot(i) /\ ~alreadyProcessed(i)
    /\ handling' = [handling EXCEPT ![t] = i]
    /\ UNCHANGED <<customer, snapshot, delivery, documents, mail, worker, sent, mailFaults,
                   seen, unknown, events>>

(***************************************************************************)
(* One transaction: the first to insert the documents row queues the       *)
(* e-mail, or reports failure for an address known to be invalid.          *)
(***************************************************************************)
commitDocument(t) ==
    LET i == handling[t] IN
    /\ i # Nothing
    /\ handling' = [handling EXCEPT ![t] = Nothing]
    /\ \/ /\ insertDocument(i, TRUE)
          /\ mail' = IF snapshot[i].valid THEN enqueueEmail(i) ELSE mail
          /\ events' = events \cup
                {deliveryUpdated(i, IF snapshot[i].valid THEN "queued" ELSE "failed", FALSE)}
       \/ insertDocument(i, FALSE) /\ UNCHANGED <<mail, events>>
    /\ UNCHANGED <<customer, snapshot, delivery, worker, sent, mailFaults, seen, unknown>>

\* Billing, S3 or the database fails, or the process dies: the message comes again.
handleFails(t) ==
    /\ handling[t] # Nothing /\ Fault(handling[t])
    /\ handling' = [handling EXCEPT ![t] = Nothing]
    /\ UNCHANGED <<customer, snapshot, delivery, documents, mail, worker, sent, seen, unknown,
                   events>>

-----------------------------------------------------------------------------
(* The e-mail worker. *)

Due == { i \in Invoices : mail[i].status = "queued" /\ mail[i].due }

(***************************************************************************)
(* _tick: every due row is leased by pushing next_attempt_at ahead and     *)
(* counting the attempt, in one transaction; the rows stay queued.         *)
(***************************************************************************)
leaseQueuedEmails(w) ==
    /\ worker[w].at = "idle" /\ Due # {}
    /\ mail' = [i \in Invoices |->
                   IF i \in Due
                   THEN [mail[i] EXCEPT !.due = FALSE,
                            !.attempts = IF @ < MaxAttempts THEN @ + 1 ELSE @]
                   ELSE mail[i]]
    /\ worker' = [worker EXCEPT ![w] =
           [IdleWorker EXCEPT !.at = "next", !.batch = Due,
               !.attempts = [i \in Invoices |-> IF i \in Due THEN mail'[i].attempts ELSE 0]]]
    /\ UNCHANGED <<customer, snapshot, delivery, handling, documents, sent, mailFaults, seen,
                   unknown, events>>

\* next_attempt_at is reached, whether or not the worker that leased the row is done.
leaseExpires(i) ==
    /\ mail[i].status = "queued" /\ ~mail[i].due
    /\ mail' = [mail EXCEPT ![i].due = TRUE]
    /\ UNCHANGED <<customer, snapshot, delivery, handling, documents, worker, sent,
                   mailFaults, seen, unknown, events>>

Take(w, i, at, msg) ==
    worker' = [worker EXCEPT ![w].at = at, ![w].batch = @ \ {i}, ![w].cur = i, ![w].msg = msg]

\* aiosmtplib.send returns: the mail is out under a message id of its own.
smtpAccepts(w, i) ==
    /\ worker[w].at = "next" /\ i \in worker[w].batch
    /\ sent' = [sent EXCEPT ![i] = @ + 1]
    /\ Take(w, i, "accepted", sent[i] + 1)
    /\ UNCHANGED <<customer, snapshot, delivery, handling, documents, mail, mailFaults, seen,
                   unknown, events>>

\* aiosmtplib.send raises, before or after the server took the mail.
smtpFails(w, i) ==
    /\ worker[w].at = "next" /\ i \in worker[w].batch /\ Fault(i)
    /\ sent' \in {sent, [sent EXCEPT ![i] = @ + 1]}
    /\ Take(w, i, "refused", 0)
    /\ UNCHANGED <<customer, snapshot, delivery, handling, documents, mail, seen, unknown,
                   events>>

Done(w) ==
    worker' = [worker EXCEPT ![w] =
                  IF @.batch = {} THEN IdleWorker
                  ELSE [@ EXCEPT !.at = "next", !.cur = Nothing, !.msg = 0]]

\* Mutant of onSendSuccess: the row is left to the provider's report and stays queued.
onSendSuccessMutKeepsQueued(w) ==
    /\ worker[w].at = "accepted"
    /\ mail' = [mail EXCEPT ![worker[w].cur].msg = worker[w].msg]
    /\ Done(w)
    /\ UNCHANGED <<customer, snapshot, delivery, handling, documents, sent, mailFaults, seen,
                   unknown, events>>

\* Mutant of onSendSuccess: no status event is written.
onSendSuccessMutNoEvent(w) ==
    LET i == worker[w].cur IN
    /\ worker[w].at = "accepted"
    /\ mail' = IF mail[i].status = "queued"
               THEN [mail EXCEPT ![i].status = "sent", ![i].msg = worker[w].msg] ELSE mail
    /\ Done(w)
    /\ UNCHANGED <<customer, snapshot, delivery, handling, documents, sent, mailFaults, seen,
                   unknown, events>>

\* UPDATE ... WHERE status = 'queued': no row when another worker came first.
markEmailSent(i, msg) ==
    /\ mail[i].status = "queued"
    /\ mail' = [mail EXCEPT ![i].status = "sent", ![i].msg = msg]

markEmailFailed(i) ==
    /\ mail[i].status = "queued"
    /\ mail' = [mail EXCEPT ![i].status = "failed"]

\* Only a row that was still queued is marked, and only then the event written.
onSendSuccess(w) ==
    LET i == worker[w].cur IN
    /\ worker[w].at = "accepted"
    /\ IF mail[i].status = "queued"
       THEN /\ markEmailSent(i, worker[w].msg)
            /\ events' = events \cup {deliveryUpdated(i, "sent", FALSE)}
       ELSE UNCHANGED <<mail, events>>
    /\ Done(w)
    /\ UNCHANGED <<customer, snapshot, delivery, handling, documents, sent, mailFaults, seen,
                   unknown>>

\* The bookkeeping failed three times: logged, and the row stays queued.
onSendSuccessFails(w) ==
    /\ worker[w].at = "accepted" /\ Fault(worker[w].cur)
    /\ Done(w)
    /\ UNCHANGED <<customer, snapshot, delivery, handling, documents, mail, sent, seen,
                   unknown, events>>

\* The last attempt marks the row failed; the others wait for the lease to expire.
onSendFailure(w) ==
    LET i == worker[w].cur IN
    /\ worker[w].at = "refused"
    /\ IF worker[w].attempts[i] >= MaxAttempts /\ mail[i].status = "queued"
       THEN /\ markEmailFailed(i)
            /\ events' = events \cup {deliveryUpdated(i, "failed", FALSE)}
       ELSE UNCHANGED <<mail, events>>
    /\ Done(w)
    /\ UNCHANGED <<customer, snapshot, delivery, handling, documents, sent, mailFaults, seen,
                   unknown>>

\* The process dies, or an exception leaves _tick: the rest of the batch is dropped.
workerStops(w) ==
    /\ worker[w].at # "idle"
    /\ \E i \in worker[w].batch \cup ({worker[w].cur} \ {Nothing}) : Fault(i)
    /\ worker[w].at = "accepted" => mailFaults'[worker[w].cur] > mailFaults[worker[w].cur]
    /\ worker' = [worker EXCEPT ![w] = IdleWorker]
    /\ UNCHANGED <<customer, snapshot, delivery, handling, documents, mail, sent, seen,
                   unknown, events>>

-----------------------------------------------------------------------------
(* The provider's webhook. *)

Known(i, n) == mail[i].msg = n

\* No row has the message id: acknowledged, so that the provider does not retry.
webhookUnknown(i, n, r) ==
    /\ n \in 1 .. sent[i] /\ ~Known(i, n)
    /\ unknown' = unknown \cup {<<i, n>>}
    /\ UNCHANGED <<customer, snapshot, delivery, handling, documents, mail, worker, sent,
                   mailFaults, seen, events>>

\* INSERT ... ON CONFLICT DO NOTHING: one row per event id of the provider.
webhookEventIsNew(i, n, r) == <<i, n, r>> \notin seen

lowerRanked(st) == {s \in DOMAIN Order : s # "none" /\ deliveryRank(s) < deliveryRank(st)}

\* UPDATE ... WHERE status = ANY(from): no row when the status is further along.
advanceEmailStatus(i, from, st) ==
    /\ mail[i].status \in from
    /\ mail' = [mail EXCEPT ![i].status = st]

\* A report seen before changes nothing; a new one moves the status forward only.
emailStatus(i, n, r) ==
    LET st == r[1] IN
        /\ n \in 1 .. sent[i] /\ Known(i, n) /\ webhookEventIsNew(i, n, r)
        /\ seen' = seen \cup {<<i, n, r>>}
        /\ IF mail[i].status \in lowerRanked(st)
           THEN /\ advanceEmailStatus(i, lowerRanked(st), st)
                /\ events' = events \cup {deliveryUpdated(i, st, r[2] = "hard")}
           ELSE UNCHANGED <<mail, events>>
        /\ UNCHANGED <<customer, snapshot, delivery, handling, documents, worker, sent,
                       mailFaults, unknown>>

-----------------------------------------------------------------------------
TaskStep(t) == commitDocument(t) \/ \E i \in Invoices : handleEvent(t, i)

WorkerStep(w) ==
    \/ leaseQueuedEmails(w) \/ onSendSuccess(w) \/ onSendFailure(w)
    \/ \E i \in Invoices : smtpAccepts(w, i) \/ smtpFails(w, i)

MailNext ==
    \/ changeAddress
    \/ \E i \in Invoices : sendInvoice(i) \/ leaseExpires(i)
    \/ \E e \in events : applyStatus(e)
    \/ \E t \in Tasks : TaskStep(t) \/ handleFails(t)
    \/ \E w \in Workers : WorkerStep(w) \/ onSendSuccessFails(w) \/ workerStops(w)
    \/ \E i \in Invoices, n \in 1 .. 1 + MaxMailFaults, r \in Reports :
          webhookUnknown(i, n, r) \/ emailStatus(i, n, r)

MailSpec == MailInit /\ [][MailNext]_mailVars

\* Consumers and workers run on, events arrive and leases expire.  Nothing is
\* assumed of the provider or of the admin.
MailFairSpec ==
    /\ MailSpec
    /\ \A t \in Tasks : WF_mailVars(TaskStep(t))
    /\ \A w \in Workers : WF_mailVars(WorkerStep(w))
    /\ \A i \in Invoices : WF_mailVars(leaseExpires(i))
    /\ WF_mailVars(\E e \in events : applyStatus(e))

-----------------------------------------------------------------------------
Statuses == DOMAIN Order
MailTypeOK ==
    /\ customer \in [addr : 0 .. MaxAddress, valid : BOOLEAN]
    /\ \A i \in Invoices :
         /\ delivery[i] \in Statuses /\ mail[i].status \in Statuses
         /\ mail[i].attempts \in 0 .. MaxAttempts /\ mail[i].msg \in 0 .. sent[i]
         /\ mail[i].status # Nothing => i \in documents
         /\ mail[i].status \in {"sent", "delivered", "bounced"} => mail[i].msg # 0
    /\ \A w \in Workers : worker[w].at \in {"idle", "next", "accepted", "refused"}
    /\ documents \subseteq Invoices
    /\ \A e \in events : e.inv \in documents /\ e.status \in Statuses

\* The status documents holds of an invoice: its e-mail's, or failed if none was queued.
Outcome(i) == IF i \notin documents THEN "none"
              ELSE IF mail[i].status = Nothing THEN "failed" ELSE mail[i].status

(***************************************************************************)
(* Billing's delivery_status converges on what documents knows: it never   *)
(* runs ahead, and with the events still on their way it reaches exactly   *)
(* that status, whatever the order they are applied in.                    *)
(***************************************************************************)
StatusConverges ==
    \A i \in Invoices :
        deliveryRank(Outcome(i)) =
            Max({deliveryRank(delivery[i])} \cup
                { deliveryRank(e.status) : e \in { e \in events : e.inv = i } })

(***************************************************************************)
(* "en samtidig arbetare hoppar över raden": an invoice is mailed once,    *)
(* and a further time only for a crash or failure in between.              *)
(***************************************************************************)
MailedOnce == \A i \in Invoices : sent[i] <= 1 + mailFaults[i]

(***************************************************************************)
(* Every sent invoice gets a delivery outcome in billing: its mail leaves, *)
(* or is given up.                                                         *)
(***************************************************************************)
DeliverySettles ==
    \A i \in Invoices : snapshot[i] # NotSent ~> delivery[i] \notin {"none", "queued"}

-----------------------------------------------------------------------------
(* What the code does not keep, though its documents say so: see the README. *)

(***************************************************************************)
(* A signed report is ignored as unknown only for a message id that was    *)
(* never given to a mail.                                                  *)
(***************************************************************************)
UnknownIsForeign == \A u \in unknown : u[2] > sent[u[1]]

(***************************************************************************)
(* "Hård studs stoppar framtida utskick": a hard bounce that was accepted  *)
(* and whose events are all applied leaves the address marked invalid.     *)
(***************************************************************************)
HardBounceStops ==
    events = {} /\ (\E i \in Invoices, n \in 1 .. 1 + MaxMailFaults :
                        <<i, n, <<"bounced", "hard">>>> \in seen)
        => ~customer.valid

(***************************************************************************)
(* "Känt ogiltig adress": no mail is withheld from an address that never   *)
(* bounced.                                                                *)
(***************************************************************************)
OnlyBouncedWithheld ==
    \A i \in documents : mail[i].status = Nothing =>
        \E s \in seen : s[3][2] = "hard" /\ snapshot[s[1]].addr = snapshot[i].addr
=============================================================================
