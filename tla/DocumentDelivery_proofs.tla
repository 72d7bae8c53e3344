---------------------- MODULE DocumentDelivery_proofs ----------------------
(***************************************************************************)
(* Theorems about DocumentDelivery: billing's delivery status converges on *)
(* what the documents service knows, and a single e-mail worker mails an   *)
(* invoice once, but for crashes and failures.                             *)
(***************************************************************************)
EXTENDS DocumentDelivery, TLAPS

-----------------------------------------------------------------------------
(* The order of the statuses *)

LEMMA StatusesAre ==
  Statuses = {"none", "queued", "sent", "failed", "delivered", "bounced"}
BY DEF Statuses, Order

LEMMA Ranks ==
  /\ deliveryRank("none") = 0 /\ deliveryRank("queued") = 1 /\ deliveryRank("sent") = 2
  /\ deliveryRank("failed") = 3 /\ deliveryRank("delivered") = 4 /\ deliveryRank("bounced") = 5
BY DEF deliveryRank, Order

LEMMA RankRange == \A s \in Statuses : deliveryRank(s) \in 0 .. 5
BY StatusesAre, Ranks

\* A row advances from a status that counts less, and only once it is queued.
LEMMA LowerRanked ==
  ASSUME NEW st, NEW s \in lowerRanked(st)
  PROVE  s \in Statuses \ {"none"} /\ deliveryRank(s) < deliveryRank(st)
BY DEF lowerRanked, Statuses

-----------------------------------------------------------------------------
(* Rows *)

MailRow == [status : Statuses, attempts : 0 .. MaxAttempts, due : BOOLEAN, msg : Nat]
WorkerRow == [at : {"idle", "next", "accepted", "refused"}, batch : SUBSET Invoices,
              cur : Invoices \cup {Nothing}, msg : Nat, attempts : [Invoices -> 0 .. MaxAttempts]]
StatusEvent == [inv : Invoices, status : Statuses, hard : BOOLEAN]

Typed ==
  /\ customer \in [addr : 0 .. MaxAddress, valid : BOOLEAN]
  /\ delivery \in [Invoices -> Statuses]
  /\ handling \in [Tasks -> Invoices \cup {Nothing}]
  /\ documents \in SUBSET Invoices
  /\ mail \in [Invoices -> MailRow]
  /\ worker \in [Workers -> WorkerRow]
  /\ sent \in [Invoices -> Nat]
  /\ mailFaults \in [Invoices -> Nat]
  /\ events \in SUBSET StatusEvent

\* An e-mail belongs to a document, and has a message id from the SMTP server
\* as soon as it counts as sent, and none while it is queued.
MailSound(i) ==
  /\ mail[i].status # "none" => i \in documents
  /\ mail[i].msg <= sent[i]
  /\ mail[i].status \in {"none", "queued"} => mail[i].msg = 0
  /\ mail[i].status \in {"sent", "delivered", "bounced"} => mail[i].msg # 0

\* A worker in the middle of a mail has one, and the id the server accepted it under.
WorkerSound(w) ==
  /\ worker[w].at \in {"accepted", "refused"} => worker[w].cur \in Invoices
  /\ worker[w].at = "accepted" => worker[w].msg \in 1 .. sent[worker[w].cur]

MailInv ==
  /\ Typed
  /\ \A i \in Invoices : MailSound(i)
  /\ \A w \in Workers : WorkerSound(w)
  /\ \A e \in events : e.inv \in documents

\* Billing is never ahead of the documents service, and as long as it is behind
\* the event that will bring it there is on its way.
Behind(i) ==
  /\ deliveryRank(delivery[i]) <= deliveryRank(Outcome(i))
  /\ \A e \in events : e.inv = i => deliveryRank(e.status) <= deliveryRank(Outcome(i))
  /\ \/ deliveryRank(delivery[i]) = deliveryRank(Outcome(i))
     \/ \E e \in events : e.inv = i /\ deliveryRank(e.status) = deliveryRank(Outcome(i))
ConvergeInv == \A i \in Invoices : Behind(i)

\* What a worker has leased is queued until it says otherwise itself.
LeaseSound(w) ==
  worker[w].at # "idle" =>
    /\ \A i \in worker[w].batch : mail[i].status = "queued"
    /\ worker[w].at \in {"accepted", "refused"} =>
         mail[worker[w].cur].status = "queued" /\ worker[w].cur \notin worker[w].batch

\* Nothing is out of a row that may still be mailed but what a failure explains.
Open(i) == /\ mail[i].status \in {"none", "queued"}
           /\ \A w \in Workers : worker[w].at = "accepted" => worker[w].cur # i
Counted(i) == sent[i] <= 1 + mailFaults[i] /\ (Open(i) => sent[i] <= mailFaults[i])

LeaseInv == (\A w \in Workers : LeaseSound(w)) /\ \A i \in Invoices : Counted(i)

-----------------------------------------------------------------------------
(* Types *)

LEMMA NoMailRow == ASSUME MailAssumption PROVE NotQueued \in MailRow
BY StatusesAre DEF NotQueued, MailRow, MailAssumption, Nothing

LEMMA IdleWorkerRow == ASSUME MailAssumption PROVE IdleWorker \in WorkerRow
BY DEF IdleWorker, WorkerRow, MailAssumption

LEMMA EventRow ==
  ASSUME NEW i \in Invoices, NEW st \in Statuses, NEW hard \in BOOLEAN
  PROVE  /\ deliveryUpdated(i, st, hard) \in StatusEvent
         /\ deliveryUpdated(i, st, hard).inv = i /\ deliveryUpdated(i, st, hard).status = st
BY DEF deliveryUpdated, StatusEvent

LEMMA TakeRow ==
  ASSUME Typed, NEW w \in Workers, NEW i \in Invoices, NEW at \in {"accepted", "refused"},
         NEW msg \in Nat, Take(w, i, at, msg)
  PROVE  /\ worker' \in [Workers -> WorkerRow]
         /\ worker'[w].at = at /\ worker'[w].batch = worker[w].batch \ {i}
         /\ worker'[w].cur = i /\ worker'[w].msg = msg
         /\ \A v \in Workers \ {w} : worker'[v] = worker[v]
<1> DEFINE row == [worker[w] EXCEPT !.at = at, !.batch = @ \ {i}, !.cur = i, !.msg = msg]
<1>0. worker' = [worker EXCEPT ![w] = row]
  BY DEF Take
<1>1. worker[w] \in WorkerRow
  BY DEF Typed
<1>2. /\ row \in WorkerRow /\ row.at = at /\ row.batch = worker[w].batch \ {i}
      /\ row.cur = i /\ row.msg = msg
  BY <1>1 DEF WorkerRow
<1> HIDE DEF row
<1> QED
  BY <1>0, <1>1, <1>2 DEF Typed

LEMMA DoneRow ==
  ASSUME MailAssumption, Typed, NEW w \in Workers, Done(w)
  PROVE  /\ worker' \in [Workers -> WorkerRow]
         /\ worker'[w].at \in {"idle", "next"}
         /\ worker'[w].batch \subseteq worker[w].batch
         /\ \A v \in Workers \ {w} : worker'[v] = worker[v]
<1> DEFINE next == [worker[w] EXCEPT !.at = "next", !.cur = Nothing, !.msg = 0]
           row == IF worker[w].batch = {} THEN IdleWorker ELSE next
<1>1. worker[w] \in WorkerRow /\ worker' = [worker EXCEPT ![w] = row]
  BY DEF Typed, Done
<1>2. next \in WorkerRow /\ next.at = "next" /\ next.batch = worker[w].batch
  BY <1>1 DEF WorkerRow
<1>3. IdleWorker \in WorkerRow /\ IdleWorker.at = "idle" /\ IdleWorker.batch = {}
  BY IdleWorkerRow DEF IdleWorker
<1> HIDE DEF next
<1>4. row \in WorkerRow /\ row.at \in {"idle", "next"} /\ row.batch \subseteq worker[w].batch
  BY <1>2, <1>3
<1> HIDE DEF row
<1> QED
  BY <1>1, <1>4 DEF Typed

\* Rows of email_outbox after an update: who may change what.
LEMMA LeasedRows ==
  ASSUME MailAssumption, Typed, NEW w \in Workers, leaseQueuedEmails(w)
  PROVE  /\ mail' \in [Invoices -> MailRow]
         /\ \A i \in Invoices : mail'[i].status = mail[i].status /\ mail'[i].msg = mail[i].msg
         /\ worker' \in [Workers -> WorkerRow]
         /\ worker'[w].at = "next" /\ \A i \in worker'[w].batch : mail[i].status = "queued"
         /\ \A v \in Workers \ {w} : worker'[v] = worker[v]
<1> DEFINE attempts(i) == IF mail[i].attempts < MaxAttempts THEN mail[i].attempts + 1
                          ELSE mail[i].attempts
           leased(i) == [mail[i] EXCEPT !.due = FALSE, !.attempts = attempts(i)]
           counts == [i \in Invoices |-> IF i \in Due THEN mail'[i].attempts ELSE 0]
           row == [IdleWorker EXCEPT !.at = "next", !.batch = Due, !.attempts = counts]
<1>1. mail' = [i \in Invoices |-> IF i \in Due THEN leased(i) ELSE mail[i]]
  BY DEF leaseQueuedEmails
<1>2. ASSUME NEW i \in Invoices
      PROVE  /\ mail[i] \in MailRow /\ leased(i) \in MailRow
             /\ leased(i).status = mail[i].status /\ leased(i).msg = mail[i].msg
  <2>1. mail[i] \in MailRow
    BY DEF Typed
  <2>2. attempts(i) \in 0 .. MaxAttempts
    BY <2>1 DEF MailRow, MailAssumption
  <2> HIDE DEF attempts
  <2> QED
    BY <2>1, <2>2 DEF MailRow
<1> HIDE DEF leased
<1>3. /\ mail' \in [Invoices -> MailRow]
      /\ \A i \in Invoices : mail'[i].status = mail[i].status /\ mail'[i].msg = mail[i].msg
  BY <1>1, <1>2
<1>4. counts \in [Invoices -> 0 .. MaxAttempts]
  BY <1>3 DEF MailRow, MailAssumption
<1> HIDE DEF counts
<1>5. Due \in SUBSET Invoices /\ \A i \in Due : mail[i].status = "queued"
  BY DEF Due
<1>6. row \in WorkerRow /\ row.at = "next" /\ row.batch = Due
  BY <1>4, <1>5, IdleWorkerRow DEF WorkerRow, IdleWorker
<1>7. worker' = [worker EXCEPT ![w] = row]
  BY DEF leaseQueuedEmails, counts
<1> HIDE DEF row
<1> QED
  BY <1>3, <1>5, <1>6, <1>7 DEF Typed

LEMMA EnqueuedRow ==
  ASSUME MailAssumption, Typed, NEW i \in Invoices, mail' = enqueueEmail(i)
  PROVE  /\ mail' \in [Invoices -> MailRow]
         /\ mail'[i].status = "queued" /\ mail'[i].msg = 0
         /\ \A j \in Invoices \ {i} : mail'[j] = mail[j]
<1> DEFINE row == [NotQueued EXCEPT !.status = "queued", !.due = TRUE]
<1>1. row \in MailRow /\ row.status = "queued" /\ row.msg = 0
  BY NoMailRow, StatusesAre DEF NotQueued, MailRow
<1>2. mail' = [mail EXCEPT ![i] = row]
  BY DEF enqueueEmail
<1> HIDE DEF row
<1> QED
  BY <1>1, <1>2 DEF Typed

LEMMA StatusRow ==
  ASSUME Typed, NEW i \in Invoices, NEW st \in Statuses,
         mail' = [mail EXCEPT ![i].status = st]
  PROVE  /\ mail' \in [Invoices -> MailRow]
         /\ mail'[i].status = st /\ mail'[i].msg = mail[i].msg
         /\ \A j \in Invoices \ {i} : mail'[j] = mail[j]
<1> DEFINE row == [mail[i] EXCEPT !.status = st]
<1>1. mail[i] \in MailRow
  BY DEF Typed
<1>2. row \in MailRow /\ row.status = st /\ row.msg = mail[i].msg
  BY <1>1 DEF MailRow
<1>3. mail' = [mail EXCEPT ![i] = row]
  OBVIOUS
<1> HIDE DEF row
<1> QED
  BY <1>2, <1>3 DEF Typed

LEMMA SentRow ==
  ASSUME Typed, NEW i \in Invoices, NEW msg \in Nat, markEmailSent(i, msg)
  PROVE  /\ mail' \in [Invoices -> MailRow]
         /\ mail[i].status = "queued" /\ mail'[i].status = "sent" /\ mail'[i].msg = msg
         /\ \A j \in Invoices \ {i} : mail'[j] = mail[j]
<1> DEFINE row == [mail[i] EXCEPT !.status = "sent", !.msg = msg]
<1>1. mail[i] \in MailRow
  BY DEF Typed
<1>2. row \in MailRow /\ row.status = "sent" /\ row.msg = msg
  BY <1>1, StatusesAre DEF MailRow
<1>3. mail[i].status = "queued" /\ mail' = [mail EXCEPT ![i] = row]
  BY DEF markEmailSent
<1> HIDE DEF row
<1> QED
  BY <1>2, <1>3 DEF Typed
-----------------------------------------------------------------------------
(* The types are inductive. *)

LEMMA MailInitial == ASSUME MailAssumption, MailInit PROVE MailInv
<1>1. Typed
  <2>1. customer \in [addr : 0 .. MaxAddress, valid : BOOLEAN]
    BY DEF MailInit, MailAssumption
  <2>2. mail \in [Invoices -> MailRow] /\ worker \in [Workers -> WorkerRow]
    BY NoMailRow, IdleWorkerRow DEF MailInit
  <2> QED
    BY <2>1, <2>2, StatusesAre DEF MailInit, Typed, Nothing
<1>2. \A i \in Invoices : MailSound(i)
  BY DEF MailInit, MailSound, NotQueued, Nothing
<1>3. \A w \in Workers : WorkerSound(w)
  BY DEF MailInit, WorkerSound, IdleWorker
<1> QED
  BY <1>1, <1>2, <1>3 DEF MailInv, MailInit

\* The worker w goes on: the others and what they hold stay as they are.
LEMMA OthersSound ==
  ASSUME MailInv, NEW w \in Workers, WorkerSound(w)',
         \A v \in Workers \ {w} : worker'[v] = worker[v], sent' \in [Invoices -> Nat],
         \A i \in Invoices : sent[i] <= sent'[i]
  PROVE  \A v \in Workers : WorkerSound(v)'
<1> SUFFICES ASSUME NEW v \in Workers, v # w PROVE WorkerSound(v)'
  OBVIOUS
<1>1. WorkerSound(v) /\ worker'[v] = worker[v] /\ worker[v].msg \in Nat
  BY DEF MailInv, Typed, WorkerRow
<1>2. \A i \in Invoices : sent[i] \in Nat /\ sent'[i] \in Nat /\ sent[i] <= sent'[i]
  BY DEF MailInv, Typed
<1> QED
  BY <1>1, <1>2 DEF WorkerSound

LEMMA BillingTyped ==
  ASSUME MailAssumption, MailInv,
         \/ changeAddress \/ \E i \in Invoices : sendInvoice(i)
         \/ \E e \in events : applyStatus(e)
  PROVE  MailInv'
<1>1. CASE changeAddress
  <2>1. customer' \in [addr : 0 .. MaxAddress, valid : BOOLEAN]
    BY <1>1 DEF changeAddress, MailInv, Typed, MailAssumption
  <2> QED
    BY <1>1, <2>1 DEF changeAddress, MailInv, Typed, MailSound, WorkerSound
<1>2. CASE \E i \in Invoices : sendInvoice(i)
  BY <1>2 DEF sendInvoice, MailInv, Typed, MailSound, WorkerSound
<1>3. ASSUME NEW e \in events, applyStatus(e) PROVE MailInv'
  <2>1. e.inv \in Invoices /\ e.status \in Statuses /\ e.hard \in BOOLEAN
    BY DEF MailInv, Typed, StatusEvent
  <2>2. customer' \in [addr : 0 .. MaxAddress, valid : BOOLEAN]
    BY <1>3, <2>1 DEF applyStatus, MailInv, Typed
  <2>3. delivery' \in [Invoices -> Statuses]
    BY <1>3, <2>1 DEF applyStatus, advanceDeliveryStatus, MailInv, Typed
  <2>4. events' \subseteq events
    BY <1>3 DEF applyStatus
  <2>5. UNCHANGED <<snapshot, handling, documents, mail, worker, sent, mailFaults, seen, unknown>>
    BY <1>3 DEF applyStatus
  <2> QED
    BY <2>2, <2>3, <2>4, <2>5 DEF MailInv, Typed, MailSound, WorkerSound
<1> QED
  BY <1>1, <1>2, <1>3

LEMMA FaultCounts ==
  ASSUME Typed, NEW i \in Invoices, Fault(i)
  PROVE  /\ mailFaults' \in [Invoices -> Nat] /\ mailFaults'[i] = mailFaults[i] + 1
         /\ \A j \in Invoices \ {i} : mailFaults'[j] = mailFaults[j]
BY DEF Fault, Typed

LEMMA CommitMoves ==
  ASSUME MailAssumption, MailInv, NEW t \in Tasks, commitDocument(t), handling[t] \notin documents
  PROVE  /\ handling[t] \in Invoices /\ documents' = documents \cup {handling[t]}
         /\ mail[handling[t]].status = "none" /\ mail' \in [Invoices -> MailRow]
         /\ \A j \in Invoices \ {handling[t]} : mail'[j] = mail[j]
         /\ mail'[handling[t]].msg = 0
         /\ \E st \in {"queued", "failed"} :
              /\ events' = events \cup {deliveryUpdated(handling[t], st, FALSE)}
              /\ mail'[handling[t]].status = IF st = "queued" THEN "queued" ELSE "none"
<1> DEFINE i == handling[t]
<1>1. i \in Invoices
  BY DEF commitDocument, MailInv, Typed
<1>2. mail[i].status = "none" /\ mail[i].msg = 0
  BY <1>1 DEF MailInv, MailSound
<1>3. /\ documents' = documents \cup {i}
      /\ mail' = IF snapshot[i].valid THEN enqueueEmail(i) ELSE mail
      /\ events' = events \cup
           {deliveryUpdated(i, IF snapshot[i].valid THEN "queued" ELSE "failed", FALSE)}
  BY DEF commitDocument, insertDocument
<1>4. CASE snapshot[i].valid
  <2>1. mail' = enqueueEmail(i) /\ events' = events \cup {deliveryUpdated(i, "queued", FALSE)}
    BY <1>3, <1>4
  <2>2. /\ mail' \in [Invoices -> MailRow] /\ mail'[i].status = "queued" /\ mail'[i].msg = 0
        /\ \A j \in Invoices \ {i} : mail'[j] = mail[j]
    BY <1>1, <2>1, EnqueuedRow DEF MailInv
  <2> QED
    BY <1>1, <1>2, <1>3, <2>1, <2>2
<1>5. CASE ~snapshot[i].valid
  <2>1. mail' = mail /\ events' = events \cup {deliveryUpdated(i, "failed", FALSE)}
    BY <1>3, <1>5
  <2> QED
    BY <1>1, <1>2, <1>3, <2>1 DEF MailInv, Typed
<1> QED
  BY <1>4, <1>5

LEMMA ConsumerTyped ==
  ASSUME MailAssumption, MailInv, NEW t \in Tasks, TaskStep(t) \/ handleFails(t)
  PROVE  MailInv'
<1>1. ASSUME NEW i \in Invoices, handleEvent(t, i) PROVE MailInv'
  BY <1>1 DEF handleEvent, MailInv, Typed, MailSound, WorkerSound
<1>2. CASE handleFails(t)
  <2>1. handling[t] \in Invoices
    BY <1>2 DEF handleFails, MailInv, Typed
  <2>2. mailFaults' \in [Invoices -> Nat]
    BY <1>2, <2>1, FaultCounts DEF handleFails, MailInv
  <2> QED
    BY <1>2, <2>2 DEF handleFails, MailInv, Typed, MailSound, WorkerSound
<1>3. CASE commitDocument(t)
  <2> DEFINE i == handling[t]
  <2>1. /\ handling' \in [Tasks -> Invoices \cup {Nothing}]
        /\ UNCHANGED <<customer, snapshot, delivery, worker, sent, mailFaults, seen, unknown>>
    BY <1>3 DEF commitDocument, MailInv, Typed
  <2>2. CASE i \in documents
    <3>1. documents' = documents /\ UNCHANGED <<mail, events>>
      BY <1>3, <2>2 DEF commitDocument, insertDocument
    <3> QED
      BY <2>1, <3>1 DEF MailInv, Typed, MailSound, WorkerSound
  <2>3. CASE i \notin documents
    <3>1. /\ i \in Invoices /\ documents' = documents \cup {i}
          /\ mail' \in [Invoices -> MailRow] /\ mail'[i].msg = 0
          /\ \A j \in Invoices \ {i} : mail'[j] = mail[j]
          /\ mail'[i].status \in {"none", "queued"}
      BY <1>3, <2>3, CommitMoves
    <3>2. PICK st \in {"queued", "failed"} :
             events' = events \cup {deliveryUpdated(i, st, FALSE)}
      BY <1>3, <2>3, CommitMoves
    <3>3. events' \in SUBSET StatusEvent /\ \A e \in events' : e.inv \in documents'
      <4>1. st \in Statuses
        BY StatusesAre
      <4>2. deliveryUpdated(i, st, FALSE) \in StatusEvent /\ deliveryUpdated(i, st, FALSE).inv = i
        BY <3>1, <4>1, EventRow
      <4> QED
        BY <3>1, <3>2, <4>2 DEF MailInv, Typed
    <3>4. \A j \in Invoices : MailSound(j)'
      BY <2>1, <3>1 DEF MailInv, MailSound, Typed
    <3>5. \A w \in Workers : WorkerSound(w)'
      BY <2>1 DEF MailInv, WorkerSound
    <3> QED
      BY <2>1, <3>1, <3>3, <3>4, <3>5 DEF MailInv, Typed
  <2> QED
    BY <2>2, <2>3
<1> QED
  BY <1>1, <1>2, <1>3 DEF TaskStep
\* A mail whose status advances reports it: the rows after markEmailSent,
\* markEmailFailed and advanceEmailStatus.
Reported(i, st) ==
  /\ mail' \in [Invoices -> MailRow] /\ mail'[i].status = st
  /\ \A j \in Invoices \ {i} : mail'[j] = mail[j]
  /\ mail[i].status \in Statuses \ {"none"}
  /\ deliveryRank(mail[i].status) < deliveryRank(st)
  /\ \E hard \in BOOLEAN : events' = events \cup {deliveryUpdated(i, st, hard)}

LEMMA SuccessReports ==
  ASSUME MailInv, NEW w \in Workers, onSendSuccess(w)
  PROVE  LET i == worker[w].cur
         IN  /\ i \in Invoices
             /\ \/ Reported(i, "sent") /\ mail[i].status = "queued" /\ mail'[i].msg = worker[w].msg
                \/ mail[i].status # "queued" /\ UNCHANGED <<mail, events>>
<1> DEFINE i == worker[w].cur
<1>1. i \in Invoices /\ worker[w].msg \in Nat
  BY DEF onSendSuccess, MailInv, WorkerSound, Typed, WorkerRow
<1>2. CASE mail[i].status = "queued"
  <2>1. markEmailSent(i, worker[w].msg) /\ events' = events \cup {deliveryUpdated(i, "sent", FALSE)}
    BY <1>2 DEF onSendSuccess
  <2>2. /\ mail' \in [Invoices -> MailRow]
        /\ mail'[i].status = "sent" /\ mail'[i].msg = worker[w].msg
        /\ \A j \in Invoices \ {i} : mail'[j] = mail[j]
    BY <1>1, <2>1, SentRow DEF MailInv
  <2>3. "queued" \in Statuses \ {"none"} /\ deliveryRank("queued") < deliveryRank("sent")
    BY StatusesAre, Ranks
  <2>4. \E hard \in BOOLEAN : events' = events \cup {deliveryUpdated(i, "sent", hard)}
    BY <2>1
  <2>5. Reported(i, "sent")
    BY <1>2, <2>2, <2>3, <2>4 DEF Reported
  <2> QED
    BY <1>1, <1>2, <2>2, <2>5
<1>3. CASE mail[i].status # "queued"
  BY <1>1, <1>3 DEF onSendSuccess
<1> QED
  BY <1>2, <1>3

LEMMA FailureReports ==
  ASSUME MailInv, NEW w \in Workers, onSendFailure(w)
  PROVE  LET i == worker[w].cur
         IN  /\ i \in Invoices
             /\ \/ Reported(i, "failed") /\ mail[i].status = "queued" /\ mail'[i].msg = mail[i].msg
                \/ UNCHANGED <<mail, events>>
<1> DEFINE i == worker[w].cur
<1>1. i \in Invoices
  BY DEF onSendFailure, MailInv, WorkerSound
<1>2. CASE worker[w].attempts[i] >= MaxAttempts /\ mail[i].status = "queued"
  <2>1. markEmailFailed(i) /\ events' = events \cup {deliveryUpdated(i, "failed", FALSE)}
    BY <1>2 DEF onSendFailure
  <2>2. mail' = [mail EXCEPT ![i].status = "failed"] /\ "failed" \in Statuses
    BY <2>1, StatusesAre DEF markEmailFailed
  <2>3. /\ mail' \in [Invoices -> MailRow]
        /\ mail'[i].status = "failed" /\ mail'[i].msg = mail[i].msg
        /\ \A j \in Invoices \ {i} : mail'[j] = mail[j]
    BY <1>1, <2>2, StatusRow DEF MailInv
  <2>4. "queued" \in Statuses \ {"none"} /\ deliveryRank("queued") < deliveryRank("failed")
    BY StatusesAre, Ranks
  <2>5. \E hard \in BOOLEAN : events' = events \cup {deliveryUpdated(i, "failed", hard)}
    BY <2>1
  <2>6. Reported(i, "failed")
    BY <1>2, <2>3, <2>4, <2>5 DEF Reported
  <2> QED
    BY <1>1, <1>2, <2>3, <2>6
<1>3. CASE ~(worker[w].attempts[i] >= MaxAttempts /\ mail[i].status = "queued")
  BY <1>1, <1>3 DEF onSendFailure
<1> QED
  BY <1>2, <1>3

LEMMA WebhookReports ==
  ASSUME MailAssumption, MailInv, NEW i \in Invoices, NEW n \in Nat \ {0}, NEW r \in Reports,
         emailStatus(i, n, r)
  PROVE  /\ mail[i].msg = n
         /\ \/ Reported(i, r[1]) /\ mail'[i].msg = n /\ r[1] \in {"delivered", "bounced", "failed"}
            \/ UNCHANGED <<mail, events>>
<1>1. mail[i].msg = n
  BY DEF emailStatus, Known
<1>2. r[1] \in Statuses /\ r[1] \in {"delivered", "bounced", "failed"}
  BY StatusesAre DEF MailAssumption
<1>3. CASE mail[i].status \in lowerRanked(r[1])
  <2>1. /\ mail' = [mail EXCEPT ![i].status = r[1]]
        /\ events' = events \cup {deliveryUpdated(i, r[1], r[2] = "hard")}
    BY <1>3 DEF emailStatus, advanceEmailStatus
  <2>2. (r[2] = "hard") \in BOOLEAN
    OBVIOUS
  <2>3. \E hard \in BOOLEAN : events' = events \cup {deliveryUpdated(i, r[1], hard)}
    BY <2>1, <2>2
  <2>4. Reported(i, r[1]) /\ mail'[i].msg = n
    BY <1>1, <1>2, <1>3, <2>1, <2>3, StatusRow, LowerRanked DEF MailInv, Reported
  <2> QED
    BY <1>1, <1>2, <2>4
<1>4. CASE mail[i].status \notin lowerRanked(r[1])
  BY <1>1, <1>4 DEF emailStatus
<1> QED
  BY <1>3, <1>4

LEMMA ReportedTyped ==
  ASSUME MailInv, NEW i \in Invoices, NEW st \in {"sent", "failed", "delivered", "bounced"},
         Reported(i, st), mail'[i].msg <= sent[i],
         st # "failed" => mail'[i].msg # 0,
         UNCHANGED <<documents, sent>>
  PROVE  /\ events' \in SUBSET StatusEvent /\ \A e \in events' : e.inv \in documents'
         /\ \A j \in Invoices : MailSound(j)'
<1>1. PICK hard \in BOOLEAN : events' = events \cup {deliveryUpdated(i, st, hard)}
  BY DEF Reported
<1>2. deliveryUpdated(i, st, hard) \in StatusEvent /\ deliveryUpdated(i, st, hard).inv = i
  BY StatusesAre, EventRow
<1>3. i \in documents
  BY DEF Reported, MailInv, MailSound
<1>4. events' \in SUBSET StatusEvent /\ \A e \in events' : e.inv \in documents'
  BY <1>1, <1>2, <1>3 DEF MailInv, Typed
<1>5. MailSound(i)'
  BY <1>3 DEF Reported, MailSound
<1>6. \A j \in Invoices \ {i} : MailSound(j)'
  BY DEF MailInv, Reported, MailSound
<1> QED
  BY <1>4, <1>5, <1>6
LEMMA WorkerTyped ==
  ASSUME MailAssumption, MailInv, NEW w \in Workers,
         WorkerStep(w) \/ onSendSuccessFails(w) \/ workerStops(w)
  PROVE  MailInv'
<1>1. CASE leaseQueuedEmails(w)
  <2>1. UNCHANGED <<customer, snapshot, delivery, handling, documents, sent, mailFaults, events>>
    BY <1>1 DEF leaseQueuedEmails
  <2>2. /\ mail' \in [Invoices -> MailRow]
        /\ \A i \in Invoices : mail'[i].status = mail[i].status /\ mail'[i].msg = mail[i].msg
        /\ worker' \in [Workers -> WorkerRow] /\ worker'[w].at = "next"
        /\ \A v \in Workers \ {w} : worker'[v] = worker[v]
    BY <1>1, LeasedRows DEF MailInv
  <2>3. \A i \in Invoices : MailSound(i)'
    BY <2>1, <2>2 DEF MailInv, MailSound
  <2>4. \A v \in Workers : WorkerSound(v)'
    BY <2>1, <2>2 DEF MailInv, WorkerSound
  <2> QED
    BY <2>1, <2>2, <2>3, <2>4 DEF MailInv, Typed
<1>2. ASSUME NEW i \in Invoices, smtpAccepts(w, i) PROVE MailInv'
  <2>1. /\ sent' = [sent EXCEPT ![i] = @ + 1]
        /\ UNCHANGED <<customer, snapshot, delivery, handling, documents, mail, mailFaults, events>>
    BY <1>2 DEF smtpAccepts
  <2>2. /\ sent' \in [Invoices -> Nat] /\ sent'[i] = sent[i] + 1
        /\ \A j \in Invoices : sent[j] \in Nat /\ sent[j] <= sent'[j]
    BY <2>1 DEF MailInv, Typed
  <2>3. Take(w, i, "accepted", sent[i] + 1)
    BY <1>2 DEF smtpAccepts
  <2>4. /\ worker' \in [Workers -> WorkerRow]
        /\ worker'[w].at = "accepted" /\ worker'[w].cur = i /\ worker'[w].msg = sent[i] + 1
        /\ \A v \in Workers \ {w} : worker'[v] = worker[v]
    BY <2>2, <2>3, TakeRow DEF MailInv
  <2>5. WorkerSound(w)'
    BY <2>2, <2>4 DEF WorkerSound
  <2>6. \A v \in Workers : WorkerSound(v)'
    BY <2>2, <2>4, <2>5, OthersSound
  <2>7. \A j \in Invoices : mail[j].msg \in Nat
    BY DEF MailInv, Typed, MailRow
  <2>8. \A j \in Invoices : MailSound(j)'
    BY <2>1, <2>2, <2>7 DEF MailInv, MailSound
  <2> QED
    BY <2>1, <2>2, <2>4, <2>6, <2>8 DEF MailInv, Typed
<1>3. ASSUME NEW i \in Invoices, smtpFails(w, i) PROVE MailInv'
  <2>1. /\ sent' = sent \/ sent' = [sent EXCEPT ![i] = @ + 1]
        /\ UNCHANGED <<customer, snapshot, delivery, handling, documents, mail, events>>
    BY <1>3 DEF smtpFails
  <2>2. /\ sent' \in [Invoices -> Nat]
        /\ \A j \in Invoices : sent[j] \in Nat /\ sent[j] <= sent'[j]
    BY <2>1 DEF MailInv, Typed
  <2>3. Take(w, i, "refused", 0) /\ mailFaults' \in [Invoices -> Nat]
    BY <1>3, FaultCounts DEF smtpFails, MailInv
  <2>4. /\ worker' \in [Workers -> WorkerRow]
        /\ worker'[w].at = "refused" /\ worker'[w].cur = i
        /\ \A v \in Workers \ {w} : worker'[v] = worker[v]
    BY <2>3, TakeRow DEF MailInv
  <2>5. WorkerSound(w)'
    BY <2>4 DEF WorkerSound
  <2>6. \A v \in Workers : WorkerSound(v)'
    BY <2>2, <2>4, <2>5, OthersSound
  <2>7. \A j \in Invoices : mail[j].msg \in Nat
    BY DEF MailInv, Typed, MailRow
  <2>8. \A j \in Invoices : MailSound(j)'
    BY <2>1, <2>2, <2>7 DEF MailInv, MailSound
  <2> QED
    BY <2>1, <2>2, <2>3, <2>4, <2>6, <2>8 DEF MailInv, Typed
<1>4. ASSUME Done(w) \/ worker' = [worker EXCEPT ![w] = IdleWorker], sent' = sent
      PROVE  worker' \in [Workers -> WorkerRow] /\ \A v \in Workers : WorkerSound(v)'
  <2>1. /\ worker' \in [Workers -> WorkerRow] /\ worker'[w].at \in {"idle", "next"}
        /\ \A v \in Workers \ {w} : worker'[v] = worker[v]
    <3>1. CASE Done(w)
      BY <3>1, DoneRow DEF MailInv
    <3>2. CASE worker' = [worker EXCEPT ![w] = IdleWorker]
      <4>1. IdleWorker \in WorkerRow /\ IdleWorker.at = "idle"
        BY IdleWorkerRow DEF IdleWorker
      <4> QED
        BY <3>2, <4>1 DEF MailInv, Typed
    <3> QED
      BY <1>4, <3>1, <3>2
  <2> QED
    BY <1>4, <2>1 DEF MailInv, WorkerSound
<1>5. CASE onSendSuccess(w)
  <2> DEFINE i == worker[w].cur
  <2>1. /\ Done(w) /\ worker[w].at = "accepted"
        /\ UNCHANGED <<customer, snapshot, delivery, handling, documents, sent, mailFaults>>
    BY <1>5 DEF onSendSuccess
  <2>2. CASE UNCHANGED <<mail, events>>
    BY <1>4, <2>1, <2>2 DEF MailInv, Typed, MailSound
  <2>3. CASE Reported(i, "sent") /\ mail'[i].msg = worker[w].msg
    <3>1. i \in Invoices /\ worker[w].msg <= sent[i] /\ worker[w].msg # 0
      BY <2>1 DEF MailInv, WorkerSound, Typed
    <3>2. /\ events' \in SUBSET StatusEvent /\ \A e \in events' : e.inv \in documents'
          /\ \A j \in Invoices : MailSound(j)'
      BY <2>1, <2>3, <3>1, ReportedTyped
    <3>3. mail' \in [Invoices -> MailRow]
      BY <2>3 DEF Reported
    <3> QED
      BY <1>4, <2>1, <3>2, <3>3 DEF MailInv, Typed
  <2> QED
    BY <1>5, <2>2, <2>3, SuccessReports
<1>6. CASE onSendFailure(w)
  <2> DEFINE i == worker[w].cur
  <2>1. /\ Done(w) /\ UNCHANGED <<customer, snapshot, delivery, handling, documents, sent, mailFaults>>
    BY <1>6 DEF onSendFailure
  <2>2. CASE UNCHANGED <<mail, events>>
    BY <1>4, <2>1, <2>2 DEF MailInv, Typed, MailSound
  <2>3. CASE i \in Invoices /\ Reported(i, "failed") /\ mail'[i].msg = mail[i].msg
    <3>1. mail'[i].msg <= sent[i]
      BY <2>3 DEF MailInv, MailSound
    <3>2. /\ events' \in SUBSET StatusEvent /\ \A e \in events' : e.inv \in documents'
          /\ \A j \in Invoices : MailSound(j)'
      BY <2>1, <2>3, <3>1, ReportedTyped
    <3>3. mail' \in [Invoices -> MailRow]
      BY <2>3 DEF Reported
    <3> QED
      BY <1>4, <2>1, <3>2, <3>3 DEF MailInv, Typed
  <2> QED
    BY <1>6, <2>2, <2>3, FailureReports
<1>7. CASE onSendSuccessFails(w) \/ workerStops(w)
  <2>1. UNCHANGED <<customer, snapshot, delivery, handling, documents, mail, sent, events>>
    BY <1>7 DEF onSendSuccessFails, workerStops
  <2>2. Done(w) \/ worker' = [worker EXCEPT ![w] = IdleWorker]
    BY <1>7 DEF onSendSuccessFails, workerStops
  <2>3. PICK i \in Invoices : Fault(i)
    BY <1>7 DEF onSendSuccessFails, workerStops, MailInv, WorkerSound, Typed, WorkerRow
  <2>4. mailFaults' \in [Invoices -> Nat]
    BY <2>3, FaultCounts DEF MailInv
  <2> QED
    BY <1>4, <2>1, <2>2, <2>4 DEF MailInv, Typed, MailSound
<1> QED
  BY <1>1, <1>2, <1>3, <1>5, <1>6, <1>7 DEF WorkerStep
LEMMA WebhookTyped ==
  ASSUME MailAssumption, MailInv, NEW i \in Invoices, NEW n \in Nat \ {0}, NEW r \in Reports,
         webhookUnknown(i, n, r) \/ emailStatus(i, n, r)
  PROVE  MailInv'
<1>1. CASE webhookUnknown(i, n, r)
  BY <1>1 DEF webhookUnknown, MailInv, Typed, MailSound, WorkerSound
<1>2. CASE emailStatus(i, n, r)
  <2>1. UNCHANGED <<customer, snapshot, delivery, handling, documents, worker, sent, mailFaults, unknown>>
    BY <1>2 DEF emailStatus
  <2>2. CASE UNCHANGED <<mail, events>>
    BY <2>1, <2>2 DEF MailInv, Typed, MailSound, WorkerSound
  <2>3. CASE /\ mail[i].msg = n /\ Reported(i, r[1]) /\ mail'[i].msg = n
             /\ r[1] \in {"delivered", "bounced", "failed"}
    <3>1. mail'[i].msg <= sent[i] /\ mail'[i].msg # 0
      BY <2>3 DEF MailInv, MailSound
    <3>2. /\ events' \in SUBSET StatusEvent /\ \A e \in events' : e.inv \in documents'
          /\ \A j \in Invoices : MailSound(j)'
      BY <2>1, <2>3, <3>1, ReportedTyped
    <3>3. mail' \in [Invoices -> MailRow]
      BY <2>3 DEF Reported
    <3>4. \A w \in Workers : WorkerSound(w)'
      BY <2>1 DEF MailInv, WorkerSound
    <3> QED
      BY <2>1, <3>2, <3>3, <3>4 DEF MailInv, Typed
  <2> QED
    BY <1>2, <2>2, <2>3, WebhookReports
<1> QED
  BY <1>1, <1>2

LEMMA ExpiryTyped ==
  ASSUME MailInv, NEW i \in Invoices, leaseExpires(i)
  PROVE  /\ MailInv'
         /\ \A j \in Invoices : mail'[j].status = mail[j].status
<1> DEFINE row == [mail[i] EXCEPT !.due = TRUE]
<1>1. mail[i] \in MailRow
  BY DEF MailInv, Typed
<1>2. row \in MailRow /\ row.status = mail[i].status /\ row.msg = mail[i].msg
  BY <1>1 DEF MailRow
<1>3. /\ mail' = [mail EXCEPT ![i] = row]
      /\ UNCHANGED <<customer, snapshot, delivery, handling, documents, worker, sent, mailFaults, seen,
                     unknown, events>>
  BY DEF leaseExpires
<1> HIDE DEF row
<1>4. /\ mail' \in [Invoices -> MailRow]
      /\ \A j \in Invoices : mail'[j].status = mail[j].status /\ mail'[j].msg = mail[j].msg
  BY <1>2, <1>3 DEF MailInv, Typed
<1> QED
  BY <1>3, <1>4 DEF MailInv, Typed, MailSound, WorkerSound

LEMMA MailStep == ASSUME MailAssumption, MailInv, [MailNext]_mailVars PROVE MailInv'
<1>1. CASE UNCHANGED mailVars
  BY <1>1 DEF mailVars, MailInv, Typed, MailSound, WorkerSound
<1>2. ASSUME NEW i \in Invoices, NEW n \in 1 .. 1 + MaxMailFaults, NEW r \in Reports,
             webhookUnknown(i, n, r) \/ emailStatus(i, n, r)
      PROVE  MailInv'
  <2>1. n \in Nat \ {0}
    BY DEF MailAssumption
  <2> QED
    BY <1>2, <2>1, WebhookTyped
<1> QED
  BY <1>1, <1>2, BillingTyped, ConsumerTyped, WorkerTyped, ExpiryTyped DEF MailNext

(***************************************************************************)
(* The types, for every number of invoices, handlers and workers.          *)
(***************************************************************************)
THEOREM DeliveryTypes == ASSUME MailAssumption PROVE MailSpec => []MailTypeOK
<1>1. MailInit => MailInv
  BY MailInitial
<1>2. MailInv /\ [MailNext]_mailVars => MailInv'
  BY MailStep
<1>3. MailInv => MailTypeOK
  <2> SUFFICES ASSUME MailInv PROVE MailTypeOK
    OBVIOUS
  <2>1. \A i \in Invoices : mail[i].msg \in 0 .. sent[i]
    BY DEF MailInv, Typed, MailRow, MailSound
  <2>2. \A i \in Invoices : mail[i].status \in Statuses /\ mail[i].attempts \in 0 .. MaxAttempts
    BY DEF MailInv, Typed, MailRow
  <2>3. \A w \in Workers : worker[w].at \in {"idle", "next", "accepted", "refused"}
    BY DEF MailInv, Typed, WorkerRow
  <2>4. \A e \in events : e.inv \in documents /\ e.status \in Statuses
    BY DEF MailInv, Typed, StatusEvent
  <2> QED
    BY <2>1, <2>2, <2>3, <2>4 DEF MailTypeOK, MailInv, Typed, MailSound, Nothing
<1> QED
  BY <1>1, <1>2, <1>3, PTL DEF MailSpec
-----------------------------------------------------------------------------
(* Convergence *)

LEMMA OutcomeRange ==
  ASSUME MailInv, NEW i \in Invoices
  PROVE  Outcome(i) \in Statuses /\ deliveryRank(Outcome(i)) \in 0 .. 5
<1>1. mail[i].status \in Statuses
  BY DEF MailInv, Typed, MailRow
<1>2. Outcome(i) \in Statuses
  BY <1>1, StatusesAre DEF Outcome
<1> QED
  BY <1>2, RankRange

LEMMA ConvergeInitial == ASSUME MailInit PROVE ConvergeInv
BY DEF MailInit, ConvergeInv, Behind, Outcome, deliveryRank, Order

\* Nothing is decided, and nothing applied.
LEMMA QuietConverges ==
  ASSUME ConvergeInv, UNCHANGED <<delivery, events>>,
         \A i \in Invoices : Outcome(i)' = Outcome(i)
  PROVE  ConvergeInv'
BY DEF ConvergeInv, Behind

\* The documents service decides and tells billing in the same transaction.
LEMMA DecidedConverges ==
  ASSUME MailInv, ConvergeInv, NEW i \in Invoices, NEW st \in Statuses, NEW hard \in BOOLEAN,
         delivery' = delivery, events' = events \cup {deliveryUpdated(i, st, hard)},
         Outcome(i)' = st, deliveryRank(Outcome(i)) <= deliveryRank(st),
         \A j \in Invoices \ {i} : Outcome(j)' = Outcome(j)
  PROVE  ConvergeInv'
<1> DEFINE d == deliveryUpdated(i, st, hard)
<1>1. d.inv = i /\ d.status = st /\ events' = events \cup {d}
  BY EventRow
<1> HIDE DEF d
<1>2. deliveryRank(st) \in 0 .. 5 /\ deliveryRank(Outcome(i)) \in 0 .. 5
  BY RankRange, OutcomeRange
<1>3. \A s \in Statuses : deliveryRank(s) \in 0 .. 5
  BY RankRange
<1>4. delivery[i] \in Statuses /\ \A e \in events : e.status \in Statuses
  BY DEF MailInv, Typed, StatusEvent
<1>5. Behind(i)'
  <2>1. deliveryRank(delivery[i]) <= deliveryRank(st)
    BY <1>2, <1>3, <1>4 DEF ConvergeInv, Behind
  <2>2. \A e \in events : e.inv = i => deliveryRank(e.status) <= deliveryRank(st)
    BY <1>2, <1>3, <1>4 DEF ConvergeInv, Behind
  <2> QED
    BY <1>1, <1>2, <2>1, <2>2 DEF Behind, deliveryRank, Order
<1>6. ASSUME NEW j \in Invoices \ {i} PROVE Behind(j)'
  <2>1. Behind(j) /\ Outcome(j)' = Outcome(j)
    BY DEF ConvergeInv
  <2> QED
    BY <1>1, <2>1 DEF Behind
<1> QED
  BY <1>5, <1>6 DEF ConvergeInv

LEMMA ReportedConverges ==
  ASSUME MailInv, ConvergeInv, NEW i \in Invoices,
         NEW st \in {"sent", "failed", "delivered", "bounced"},
         Reported(i, st), UNCHANGED <<delivery, documents>>
  PROVE  ConvergeInv'
<1>1. PICK hard \in BOOLEAN : events' = events \cup {deliveryUpdated(i, st, hard)}
  BY DEF Reported
<1>2. i \in documents /\ Outcome(i) = mail[i].status
  BY DEF Reported, MailInv, MailSound, Outcome, Nothing
<1>3. st \in Statuses \ {"none"} /\ Outcome(i)' = st
  BY <1>2, StatusesAre DEF Reported, Outcome, Nothing
<1>4. deliveryRank(Outcome(i)) <= deliveryRank(st)
  BY <1>2, <1>3, OutcomeRange, RankRange DEF Reported
<1>5. \A j \in Invoices \ {i} : Outcome(j)' = Outcome(j)
  BY DEF Reported, Outcome
<1> QED
  BY <1>1, <1>3, <1>4, <1>5, DecidedConverges

LEMMA ApplyConverges ==
  ASSUME MailInv, ConvergeInv, NEW e \in events, applyStatus(e)
  PROVE  ConvergeInv'
<1> DEFINE i == e.inv
<1>1. i \in Invoices /\ e.status \in Statuses
  BY DEF MailInv, Typed, StatusEvent
<1>2. /\ events' = events \ {e} /\ UNCHANGED <<documents, mail>>
      /\ delivery' = [delivery EXCEPT ![i] = advanceDeliveryStatus(@, e.status)]
  BY DEF applyStatus
<1>3. delivery'[i] = advanceDeliveryStatus(delivery[i], e.status)
      /\ \A j \in Invoices \ {i} : delivery'[j] = delivery[j]
  BY <1>1, <1>2 DEF MailInv, Typed
<1>4. \A j \in Invoices : Outcome(j)' = Outcome(j)
  BY <1>2 DEF Outcome
<1>5. ASSUME NEW j \in Invoices \ {i} PROVE Behind(j)'
  <2>1. Behind(j) /\ delivery'[j] = delivery[j] /\ Outcome(j)' = Outcome(j)
    BY <1>3, <1>4 DEF ConvergeInv
  <2> QED
    BY <1>2, <2>1 DEF Behind
<1>6. Behind(i)'
  <2> DEFINE o == deliveryRank(Outcome(i))
             d == deliveryRank(delivery[i])
             s == deliveryRank(e.status)
  <2>1. o \in Nat /\ d \in Nat /\ s \in Nat
    BY <1>1, OutcomeRange, RankRange DEF MailInv, Typed
  <2>2. d <= o /\ s <= o /\ \A f \in events : f.inv = i => deliveryRank(f.status) <= o
    BY <1>1 DEF ConvergeInv, Behind
  <2>3. deliveryRank(delivery'[i]) = IF d < s THEN s ELSE d
    BY <1>3 DEF advanceDeliveryStatus
  <2>4. d = o \/ \E f \in events : f.inv = i /\ deliveryRank(f.status) = o
    BY <1>1 DEF ConvergeInv, Behind
  <2>5. deliveryRank(Outcome(i)') = o
    BY <1>1, <1>4
  <2> HIDE DEF o, d, s
  <2>6. deliveryRank(delivery'[i]) <= o
    BY <2>1, <2>2, <2>3
  <2>7. deliveryRank(delivery'[i]) = o
        \/ \E f \in events' : f.inv = i /\ deliveryRank(f.status) = o
    <3>1. CASE d = o \/ s = o
      BY <2>1, <2>2, <2>3, <3>1
    <3>2. CASE d # o /\ s # o
      <4>1. PICK f \in events : f.inv = i /\ deliveryRank(f.status) = o
        BY <2>4, <3>2
      <4>2. f # e
        BY <3>2, <4>1 DEF s
      <4> QED
        BY <1>2, <4>1, <4>2
    <3> QED
      BY <3>1, <3>2
  <2> QED
    BY <1>2, <2>2, <2>5, <2>6, <2>7 DEF Behind, deliveryRank
<1> QED
  BY <1>5, <1>6 DEF ConvergeInv
LEMMA ConvergeStep ==
  ASSUME MailAssumption, MailInv, ConvergeInv, [MailNext]_mailVars PROVE ConvergeInv'
<1>1. ASSUME UNCHANGED <<delivery, events, documents>>,
             \A i \in Invoices : mail'[i].status = mail[i].status
      PROVE  ConvergeInv'
  BY <1>1, QuietConverges DEF Outcome
<1>2. CASE UNCHANGED mailVars
  BY <1>1, <1>2 DEF mailVars
<1>3. CASE changeAddress \/ \E i \in Invoices : sendInvoice(i)
  BY <1>1, <1>3 DEF changeAddress, sendInvoice
<1>4. ASSUME NEW i \in Invoices, leaseExpires(i) PROVE ConvergeInv'
  BY <1>1, <1>4, ExpiryTyped DEF leaseExpires
<1>5. CASE \E e \in events : applyStatus(e)
  BY <1>5, ApplyConverges
<1>6. ASSUME NEW t \in Tasks, TaskStep(t) \/ handleFails(t) PROVE ConvergeInv'
  <2>1. CASE handleFails(t) \/ \E i \in Invoices : handleEvent(t, i)
    BY <1>1, <2>1 DEF handleFails, handleEvent
  <2>2. CASE commitDocument(t)
    <3>1. CASE handling[t] \in documents
      <4>1. UNCHANGED <<delivery, events, documents, mail>>
        BY <2>2, <3>1 DEF commitDocument, insertDocument
      <4> QED
        BY <1>1, <4>1
    <3>2. ASSUME NEW i \in Invoices \ documents, handling[t] = i PROVE ConvergeInv'
      <4>1. /\ documents' = documents \cup {i} /\ delivery' = delivery
            /\ \A j \in Invoices \ {i} : mail'[j] = mail[j]
        BY <2>2, <3>2, CommitMoves DEF commitDocument
      <4>2. PICK st \in {"queued", "failed"} :
              /\ events' = events \cup {deliveryUpdated(i, st, FALSE)}
              /\ mail'[i].status = IF st = "queued" THEN "queued" ELSE "none"
        BY <2>2, <3>2, CommitMoves
      <4>3. Outcome(i) = "none"
        BY DEF Outcome
      <4>4. Outcome(i)' = st
        BY <4>1, <4>2 DEF Outcome, Nothing
      <4>5. \A j \in Invoices \ {i} : Outcome(j)' = Outcome(j)
        BY <4>1 DEF Outcome
      <4>6. st \in Statuses /\ deliveryRank(Outcome(i)) <= deliveryRank(st)
        BY <4>3, StatusesAre, Ranks
      <4> QED
        BY <4>1, <4>2, <4>4, <4>5, <4>6, DecidedConverges
    <3>3. handling[t] \in Invoices
      BY <2>2 DEF commitDocument, MailInv, Typed
    <3> QED
      BY <3>1, <3>2, <3>3
  <2> QED
    BY <1>6, <2>1, <2>2 DEF TaskStep
<1>7. ASSUME NEW w \in Workers, WorkerStep(w) \/ onSendSuccessFails(w) \/ workerStops(w)
      PROVE  ConvergeInv'
  <2>1. CASE leaseQueuedEmails(w)
    BY <1>1, <2>1, LeasedRows DEF leaseQueuedEmails, MailInv
  <2>2. CASE \/ onSendSuccessFails(w) \/ workerStops(w)
             \/ \E i \in Invoices : smtpAccepts(w, i) \/ smtpFails(w, i)
    BY <1>1, <2>2 DEF onSendSuccessFails, workerStops, smtpAccepts, smtpFails
  <2>3. CASE onSendSuccess(w)
    <3>1. UNCHANGED <<delivery, documents>>
      BY <2>3 DEF onSendSuccess
    <3> QED
      BY <1>1, <2>3, <3>1, SuccessReports, ReportedConverges
  <2>4. CASE onSendFailure(w)
    <3>1. UNCHANGED <<delivery, documents>>
      BY <2>4 DEF onSendFailure
    <3> QED
      BY <1>1, <2>4, <3>1, FailureReports, ReportedConverges
  <2> QED
    BY <1>7, <2>1, <2>2, <2>3, <2>4 DEF WorkerStep
<1>8. ASSUME NEW i \in Invoices, NEW n \in 1 .. 1 + MaxMailFaults, NEW r \in Reports,
             webhookUnknown(i, n, r) \/ emailStatus(i, n, r)
      PROVE  ConvergeInv'
  <2>1. CASE webhookUnknown(i, n, r)
    BY <1>1, <2>1 DEF webhookUnknown
  <2>2. CASE emailStatus(i, n, r)
    <3>1. UNCHANGED <<delivery, documents>>
      BY <2>2 DEF emailStatus
    <3>2. n \in Nat \ {0}
      BY DEF MailAssumption
    <3> QED
      BY <1>1, <2>2, <3>1, <3>2, WebhookReports, ReportedConverges
  <2> QED
    BY <1>8, <2>1, <2>2
<1> QED
  BY <1>2, <1>3, <1>4, <1>5, <1>6, <1>7, <1>8 DEF MailNext

LEMMA MaxIs ==
  ASSUME NEW S \in SUBSET Nat, NEW m \in S, \A x \in S : x <= m
  PROVE  Max(S) = m
<1>1. \A y \in S : m >= y
  OBVIOUS
<1>2. Max(S) \in S /\ \A y \in S : Max(S) >= y
  BY <1>1 DEF Max
<1>3. Max(S) \in Nat /\ m \in Nat /\ Max(S) <= m /\ Max(S) >= m
  BY <1>2
<1> QED
  BY <1>3

(***************************************************************************)
(* Billing's delivery status and the events on their way amount to exactly *)
(* what the documents service knows, for any number of invoices, handlers  *)
(* and e-mail workers, in whatever order the events are applied            *)
(* (billing/deliveries/repository.ts, documents/webhooks.py).              *)
(***************************************************************************)
THEOREM StatusConvergesHolds == ASSUME MailAssumption PROVE MailSpec => []StatusConverges
<1>1. MailInit => MailInv /\ ConvergeInv
  BY MailInitial, ConvergeInitial
<1>2. (MailInv /\ ConvergeInv) /\ [MailNext]_mailVars => (MailInv /\ ConvergeInv)'
  BY MailStep, ConvergeStep
<1>3. MailInv /\ ConvergeInv => StatusConverges
  <2> SUFFICES ASSUME MailInv, ConvergeInv, NEW i \in Invoices
               PROVE  deliveryRank(Outcome(i)) =
                        Max({deliveryRank(delivery[i])} \cup
                            { deliveryRank(e.status) : e \in { e \in events : e.inv = i } })
    BY DEF StatusConverges
  <2> DEFINE o == deliveryRank(Outcome(i))
             S == {deliveryRank(delivery[i])} \cup
                  { deliveryRank(e.status) : e \in { e \in events : e.inv = i } }
  <2>1. \A s \in Statuses : deliveryRank(s) \in Nat
    BY RankRange
  <2>2. delivery[i] \in Statuses /\ \A e \in events : e.status \in Statuses
    BY DEF MailInv, Typed, StatusEvent
  <2>3. S \in SUBSET Nat
    BY <2>1, <2>2
  <2>4. o \in S /\ \A x \in S : x <= o
    BY DEF ConvergeInv, Behind
  <2> HIDE DEF o, S
  <2>5. Max(S) = o
    BY <2>3, <2>4, MaxIs
  <2> QED
    BY <2>5 DEF o, S
<1> QED
  BY <1>1, <1>2, <1>3, PTL DEF MailSpec
-----------------------------------------------------------------------------
(* One e-mail worker *)

LEMMA LeaseInitial == ASSUME MailInit PROVE LeaseInv
<1>1. \A w \in Workers : worker[w].at = "idle"
  BY DEF MailInit, IdleWorker
<1> QED
  BY <1>1 DEF MailInit, LeaseInv, LeaseSound, Counted

LEMMA CountsNat ==
  ASSUME MailInv, NEW i \in Invoices
  PROVE  sent[i] \in Nat /\ mailFaults[i] \in Nat
BY DEF MailInv, Typed

\* Steps in which the worker takes no part and no row is reopened.
LEMMA QuietLease ==
  ASSUME MailInv, LeaseInv, UNCHANGED <<worker, sent>>,
         \A i \in Invoices : mailFaults'[i] \in Nat /\ mailFaults[i] <= mailFaults'[i],
         \A i \in Invoices :
           /\ mail[i].status = "queued" => mail'[i].status = "queued"
           /\ mail'[i].status \in {"none", "queued"} => mail[i].status \in {"none", "queued"}
  PROVE  LeaseInv'
<1>1. \A i \in Invoices : Counted(i)'
  <2> SUFFICES ASSUME NEW i \in Invoices PROVE Counted(i)'
    OBVIOUS
  <2>1. Counted(i) /\ (Open(i)' => Open(i))
    BY DEF LeaseInv, Open
  <2> QED
    BY <2>1, CountsNat DEF Counted
<1>2. ASSUME NEW w \in Workers PROVE LeaseSound(w)'
  <2>1. LeaseSound(w) /\ WorkerSound(w) /\ worker[w].batch \subseteq Invoices
    BY DEF LeaseInv, MailInv, Typed, WorkerRow
  <2> QED
    BY <2>1 DEF LeaseSound, WorkerSound
<1> QED
  BY <1>1, <1>2 DEF LeaseInv

\* What is left to show when the only worker moves.
LEMMA OnlyWorker ==
  ASSUME \A v, w \in Workers : v = w, NEW w \in Workers, LeaseSound(w)',
         \A i \in Invoices : Counted(i)'
  PROVE  LeaseInv'
BY DEF LeaseInv

LEMMA OpenForOne ==
  ASSUME \A v, w \in Workers : v = w, NEW w \in Workers, NEW i \in Invoices
  PROVE  /\ Open(i) <=> /\ mail[i].status \in {"none", "queued"}
                        /\ worker[w].at = "accepted" => worker[w].cur # i
         /\ Open(i)' <=> /\ mail'[i].status \in {"none", "queued"}
                         /\ worker'[w].at = "accepted" => worker'[w].cur # i
BY DEF Open

LEMMA LeaseLease ==
  ASSUME MailAssumption, \A v, w \in Workers : v = w, MailInv, LeaseInv,
         NEW w \in Workers, leaseQueuedEmails(w)
  PROVE  LeaseInv'
<1>1. /\ \A i \in Invoices : mail'[i].status = mail[i].status
      /\ worker'[w].at = "next" /\ worker' \in [Workers -> WorkerRow]
      /\ \A i \in worker'[w].batch : mail[i].status = "queued"
  BY LeasedRows DEF MailInv
<1>2. worker[w].at = "idle" /\ UNCHANGED <<sent, mailFaults>>
  BY DEF leaseQueuedEmails
<1>3. worker'[w].batch \subseteq Invoices
  BY <1>1 DEF WorkerRow
<1>4. LeaseSound(w)'
  BY <1>1, <1>3 DEF LeaseSound
<1>5. \A i \in Invoices : Counted(i)'
  BY <1>1, <1>2, OpenForOne DEF LeaseInv, Counted
<1> QED
  BY <1>4, <1>5, OnlyWorker

LEMMA SmtpLease ==
  ASSUME MailAssumption, \A v, w \in Workers : v = w, MailInv, LeaseInv,
         NEW w \in Workers, NEW i \in Invoices, smtpAccepts(w, i) \/ smtpFails(w, i)
  PROVE  LeaseInv'
<1>1. /\ worker[w].at = "next" /\ i \in worker[w].batch /\ mail' = mail
      /\ worker[w].batch \subseteq Invoices
  BY DEF smtpAccepts, smtpFails, MailInv, Typed, WorkerRow
<1>2. mail[i].status = "queued" /\ \A j \in worker[w].batch : mail[j].status = "queued"
  BY <1>1 DEF LeaseInv, LeaseSound
<1>3. sent[i] <= mailFaults[i] /\ sent[i] \in Nat /\ mailFaults[i] \in Nat
  BY <1>1, <1>2, OpenForOne, CountsNat DEF LeaseInv, Counted
<1>4. PICK at \in {"accepted", "refused"}, msg \in Nat : Take(w, i, at, msg)
  BY <1>3 DEF smtpAccepts, smtpFails
<1>5. /\ worker'[w].at = at /\ worker'[w].batch = worker[w].batch \ {i} /\ worker'[w].cur = i
  BY <1>4, TakeRow DEF MailInv
<1>6. LeaseSound(w)'
  BY <1>1, <1>2, <1>5 DEF LeaseSound
<1>7. /\ \A j \in Invoices \ {i} : sent'[j] = sent[j] /\ mailFaults'[j] = mailFaults[j]
      /\ \/ at = "accepted" /\ sent'[i] = sent[i] + 1 /\ mailFaults'[i] = mailFaults[i]
         \/ sent'[i] \in {sent[i], sent[i] + 1} /\ mailFaults'[i] = mailFaults[i] + 1
  <2>1. CASE smtpAccepts(w, i)
    <3>1. sent' = [sent EXCEPT ![i] = @ + 1] /\ mailFaults' = mailFaults
      BY <2>1 DEF smtpAccepts
    <3>2. Take(w, i, "accepted", sent[i] + 1)
      BY <2>1 DEF smtpAccepts
    <3>3. worker'[w].at = "accepted"
      BY <1>3, <3>2, TakeRow DEF MailInv
    <3> QED
      BY <1>5, <3>1, <3>3 DEF MailInv, Typed
  <2>2. CASE smtpFails(w, i)
    <3>1. sent' \in {sent, [sent EXCEPT ![i] = @ + 1]} /\ Fault(i)
      BY <2>2 DEF smtpFails
    <3>2. mailFaults'[i] = mailFaults[i] + 1 /\ \A j \in Invoices \ {i} : mailFaults'[j] = mailFaults[j]
      BY <3>1, FaultCounts DEF MailInv
    <3> QED
      BY <3>1, <3>2 DEF MailInv, Typed
  <2> QED
    BY <2>1, <2>2
<1>8. Counted(i)'
  BY <1>3, <1>5, <1>7, OpenForOne DEF Counted
<1>9. ASSUME NEW j \in Invoices \ {i} PROVE Counted(j)'
  <2>1. Counted(j) /\ sent'[j] = sent[j] /\ mailFaults'[j] = mailFaults[j]
    BY <1>7 DEF LeaseInv
  <2>2. Open(j)' => Open(j)
    BY <1>1, OpenForOne
  <2> QED
    BY <2>1, <2>2 DEF Counted
<1> QED
  BY <1>6, <1>8, <1>9, OnlyWorker

\* The worker is done with the mail it had: w goes on or stops.
LEMMA ReleaseLease ==
  ASSUME \A v, w \in Workers : v = w, MailInv, LeaseInv, NEW w \in Workers, worker[w].at # "idle",
         worker'[w].at \in {"idle", "next"}, worker'[w].batch \subseteq worker[w].batch,
         sent' = sent, \A i \in Invoices : mailFaults'[i] \in Nat /\ mailFaults[i] <= mailFaults'[i],
         \A i \in Invoices : \/ mail'[i] = mail[i]
                             \/ /\ worker[w].at \in {"accepted", "refused"} /\ i = worker[w].cur
                                /\ mail'[i].status \in {"sent", "failed"},
         worker[w].at = "accepted" =>
           LET i == worker[w].cur
           IN  mail'[i].status = "sent" \/ mailFaults[i] < mailFaults'[i]
  PROVE  LeaseInv'
<1>1. /\ worker[w].batch \subseteq Invoices
      /\ worker[w].at \in {"accepted", "refused"} => worker[w].cur \in Invoices
  BY DEF MailInv, Typed, WorkerRow, WorkerSound
<1>2. LeaseSound(w)
  BY DEF LeaseInv
<1>3. \A i \in worker'[w].batch : mail'[i].status = "queued"
  BY <1>1, <1>2 DEF LeaseSound
<1>4. LeaseSound(w)'
  BY <1>3 DEF LeaseSound
<1>5. ASSUME NEW i \in Invoices PROVE Counted(i)'
  <2>1. Counted(i) /\ sent[i] \in Nat /\ mailFaults[i] \in Nat /\ mailFaults'[i] \in Nat
    BY CountsNat DEF LeaseInv
  <2>2. CASE worker[w].at = "accepted" /\ worker[w].cur = i
    <3>1. mail'[i].status = "sent" \/ mailFaults[i] < mailFaults'[i]
      BY <2>2
    <3>2. mail'[i].status = "sent" => ~Open(i)'
      BY OpenForOne
    <3> QED
      BY <2>1, <3>1, <3>2 DEF Counted
  <2>3. CASE ~(worker[w].at = "accepted" /\ worker[w].cur = i)
    <3>1. Open(i)' => Open(i)
      BY <2>3, OpenForOne
    <3> QED
      BY <2>1, <3>1 DEF Counted
  <2> QED
    BY <2>2, <2>3
<1> QED
  BY <1>4, <1>5, OnlyWorker
LEMMA WorkerLease ==
  ASSUME MailAssumption, \A v, w \in Workers : v = w, MailInv, LeaseInv,
         NEW w \in Workers, WorkerStep(w) \/ onSendSuccessFails(w) \/ workerStops(w)
  PROVE  LeaseInv'
<1>1. CASE leaseQueuedEmails(w)
  BY <1>1, LeaseLease
<1>2. CASE \E i \in Invoices : smtpAccepts(w, i) \/ smtpFails(w, i)
  BY <1>2, SmtpLease
<1>3. ASSUME Done(w)
      PROVE  worker'[w].at \in {"idle", "next"} /\ worker'[w].batch \subseteq worker[w].batch
  BY <1>3, DoneRow DEF MailInv
<1>4. CASE onSendSuccess(w)
  <2> DEFINE i == worker[w].cur
  <2>1. Done(w) /\ worker[w].at = "accepted" /\ sent' = sent /\ mailFaults' = mailFaults
    BY <1>4 DEF onSendSuccess
  <2>2. i \in Invoices /\ mail[i].status = "queued"
    BY <2>1 DEF LeaseInv, LeaseSound, MailInv, WorkerSound
  <2>3. Reported(i, "sent")
    BY <1>4, <2>2, SuccessReports
  <2>4. mail'[i].status = "sent" /\ \A j \in Invoices \ {i} : mail'[j] = mail[j]
    BY <2>3 DEF Reported
  <2>5. \A j \in Invoices : mailFaults'[j] \in Nat /\ mailFaults[j] <= mailFaults'[j]
    BY <2>1, CountsNat
  <2> QED
    BY <1>3, <2>1, <2>4, <2>5, ReleaseLease
<1>5. CASE onSendFailure(w)
  <2> DEFINE i == worker[w].cur
  <2>1. Done(w) /\ worker[w].at = "refused" /\ sent' = sent /\ mailFaults' = mailFaults
    BY <1>5 DEF onSendFailure
  <2>2. \A j \in Invoices : mail'[j] = mail[j] \/ (j = i /\ mail'[j].status = "failed")
    BY <1>5, FailureReports DEF Reported
  <2>3. \A j \in Invoices : mailFaults'[j] \in Nat /\ mailFaults[j] <= mailFaults'[j]
    BY <2>1, CountsNat
  <2> QED
    BY <1>3, <2>1, <2>2, <2>3, ReleaseLease
<1>6. CASE onSendSuccessFails(w) \/ workerStops(w)
  <2>1. UNCHANGED <<mail, sent>> /\ worker[w].at # "idle"
    BY <1>6 DEF onSendSuccessFails, workerStops
  <2>2. /\ worker'[w].at \in {"idle", "next"} /\ worker'[w].batch \subseteq worker[w].batch
    <3>1. CASE onSendSuccessFails(w)
      BY <1>3, <3>1 DEF onSendSuccessFails
    <3>2. CASE workerStops(w)
      <4>1. worker' = [worker EXCEPT ![w] = IdleWorker]
        BY <3>2 DEF workerStops
      <4>2. IdleWorker.at = "idle" /\ IdleWorker.batch = {}
        BY DEF IdleWorker
      <4> QED
        BY <4>1, <4>2 DEF MailInv, Typed
    <3> QED
      BY <1>6, <3>1, <3>2
  <2>3. PICK i \in Invoices :
          Fault(i) /\ (worker[w].at = "accepted" /\ onSendSuccessFails(w) => i = worker[w].cur)
    BY <1>6 DEF onSendSuccessFails, workerStops, MailInv, WorkerSound, Typed, WorkerRow
  <2>4. /\ mailFaults'[i] = mailFaults[i] + 1 /\ \A j \in Invoices \ {i} : mailFaults'[j] = mailFaults[j]
    BY <2>3, FaultCounts DEF MailInv
  <2>5. \A j \in Invoices : mailFaults'[j] \in Nat /\ mailFaults[j] <= mailFaults'[j]
    BY <2>4, CountsNat
  <2>6. worker[w].at = "accepted" => mailFaults[worker[w].cur] < mailFaults'[worker[w].cur]
    <3>1. CASE onSendSuccessFails(w)
      BY <2>3, <2>4, <3>1, CountsNat
    <3>2. CASE workerStops(w)
      <4>1. worker[w].at = "accepted" =>
              worker[w].cur \in Invoices /\ mailFaults'[worker[w].cur] > mailFaults[worker[w].cur]
        BY <3>2 DEF workerStops, MailInv, WorkerSound
      <4> QED
        BY <2>5, <4>1, CountsNat
    <3> QED
      BY <1>6, <3>1, <3>2
  <2> QED
    BY <2>1, <2>2, <2>5, <2>6, ReleaseLease
<1> QED
  BY <1>1, <1>2, <1>4, <1>5, <1>6 DEF WorkerStep

LEMMA LeaseStep ==
  ASSUME MailAssumption, \A v, w \in Workers : v = w, MailInv, LeaseInv, [MailNext]_mailVars
  PROVE  LeaseInv'
<1>1. ASSUME UNCHANGED <<worker, sent, mailFaults>>,
             \A i \in Invoices : mail'[i].status = mail[i].status
      PROVE  LeaseInv'
  BY <1>1, QuietLease, CountsNat
<1>2. CASE UNCHANGED mailVars
  BY <1>1, <1>2 DEF mailVars
<1>3. CASE changeAddress \/ \E i \in Invoices : sendInvoice(i)
  BY <1>1, <1>3 DEF changeAddress, sendInvoice
<1>4. ASSUME NEW i \in Invoices, leaseExpires(i) PROVE LeaseInv'
  BY <1>1, <1>4, ExpiryTyped DEF leaseExpires
<1>5. ASSUME NEW e \in events, applyStatus(e) PROVE LeaseInv'
  BY <1>1, <1>5 DEF applyStatus
<1>6. ASSUME NEW t \in Tasks, TaskStep(t) \/ handleFails(t) PROVE LeaseInv'
  <2>1. CASE \E i \in Invoices : handleEvent(t, i)
    BY <1>1, <2>1 DEF handleEvent
  <2>2. CASE handleFails(t)
    <3>1. handling[t] \in Invoices /\ Fault(handling[t]) /\ UNCHANGED <<mail, worker, sent>>
      BY <2>2 DEF handleFails, MailInv, Typed
    <3>2. \A i \in Invoices : mailFaults'[i] \in Nat /\ mailFaults[i] <= mailFaults'[i]
      BY <3>1, FaultCounts, CountsNat DEF MailInv
    <3> QED
      BY <3>1, <3>2, QuietLease
  <2>3. CASE commitDocument(t)
    <3>1. UNCHANGED <<worker, sent, mailFaults>>
      BY <2>3 DEF commitDocument
    <3>2. CASE handling[t] \in documents
      BY <1>1, <2>3, <3>1, <3>2 DEF commitDocument, insertDocument
    <3>3. CASE handling[t] \notin documents
      <4>1. /\ handling[t] \in Invoices /\ mail[handling[t]].status = "none"
            /\ \A j \in Invoices \ {handling[t]} : mail'[j] = mail[j]
        BY <2>3, <3>3, CommitMoves
      <4>2. \A i \in Invoices : mailFaults'[i] \in Nat /\ mailFaults[i] <= mailFaults'[i]
        BY <3>1, CountsNat
      <4> QED
        BY <3>1, <4>1, <4>2, QuietLease
    <3> QED
      BY <3>2, <3>3
  <2> QED
    BY <1>6, <2>1, <2>2, <2>3 DEF TaskStep
<1>7. ASSUME NEW w \in Workers, WorkerStep(w) \/ onSendSuccessFails(w) \/ workerStops(w)
      PROVE  LeaseInv'
  BY <1>7, WorkerLease
<1>8. ASSUME NEW i \in Invoices, NEW n \in 1 .. 1 + MaxMailFaults, NEW r \in Reports,
             webhookUnknown(i, n, r) \/ emailStatus(i, n, r)
      PROVE  LeaseInv'
  <2>1. CASE webhookUnknown(i, n, r)
    BY <1>1, <2>1 DEF webhookUnknown
  <2>2. CASE emailStatus(i, n, r)
    <3>1. UNCHANGED <<worker, sent, mailFaults>> /\ n \in Nat \ {0}
      BY <2>2 DEF emailStatus, MailAssumption
    <3>2. CASE UNCHANGED <<mail, events>>
      BY <1>1, <3>1, <3>2
    <3>3. CASE /\ mail[i].msg = n /\ Reported(i, r[1])
               /\ r[1] \in {"delivered", "bounced", "failed"}
      <4>1. mail[i].status \notin {"none", "queued"}
        BY <3>1, <3>3 DEF MailInv, MailSound
      <4>2. /\ mail'[i].status \notin {"none", "queued"}
            /\ \A j \in Invoices \ {i} : mail'[j] = mail[j]
        BY <3>3 DEF Reported
      <4>3. \A j \in Invoices : mailFaults'[j] \in Nat /\ mailFaults[j] <= mailFaults'[j]
        BY <3>1, CountsNat
      <4> QED
        BY <3>1, <4>1, <4>2, <4>3, QuietLease
    <3> QED
      BY <2>2, <3>1, <3>2, <3>3, WebhookReports
  <2> QED
    BY <1>8, <2>1, <2>2
<1> QED
  BY <1>2, <1>3, <1>4, <1>5, <1>6, <1>7, <1>8 DEF MailNext

(***************************************************************************)
(* Where one e-mail worker runs, an invoice is mailed once, and a further  *)
(* time only for a crash or failure in between, however many handlers and  *)
(* webhooks run beside it (documents/email_worker.py).  Two workers share  *)
(* rows whose lease has expired, and mail them twice.                      *)
(***************************************************************************)
THEOREM MailedOnceHolds ==
  ASSUME MailAssumption, \A v, w \in Workers : v = w
  PROVE  MailSpec => []MailedOnce
<1>1. MailInit => MailInv /\ LeaseInv
  BY MailInitial, LeaseInitial
<1>2. (MailInv /\ LeaseInv) /\ [MailNext]_mailVars => (MailInv /\ LeaseInv)'
  BY MailStep, LeaseStep
<1>3. LeaseInv => MailedOnce
  BY DEF LeaseInv, Counted, MailedOnce
<1> QED
  BY <1>1, <1>2, <1>3, PTL DEF MailSpec
=============================================================================
