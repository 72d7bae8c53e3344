------------------------------ MODULE EventBus ------------------------------
(***************************************************************************)
(* One event flow of the system, from the transactional outbox of the      *)
(* sending service over RabbitMQ to the consumer of the receiving service: *)
(*                                                                         *)
(*   payments  -> billing    (payments/consumer.ts)    Republish "confirmed"*)
(*   documents -> billing    (deliveries/consumer.ts)  "unconfirmed"       *)
(*   billing   -> documents  (consumer.py)             "ackAnyway"         *)
(*                                                                         *)
(* The three consumers are the same algorithm; they differ in how the      *)
(* original is acknowledged when a copy is published for the next attempt. *)
(* The two publishers (shared/outbox, documents/outbox.py) differ in       *)
(* whether the payload is validated before it is published.                *)
(*                                                                         *)
(* Clocks are left out: a row that backs off may be due at any later poll. *)
(***************************************************************************)
EXTENDS Integers, FiniteSets

CONSTANTS
    Events,             \* event ids, numbered in the order they are written
    Malformed,          \* events no consumer can handle: payload breaks its
                        \* schema, or billing has no snapshot for it
    Publishers,         \* publisher loops on one outbox (service replicas)
    Tasks,              \* messages consumed at once: prefetch x replicas
    PublishMax,         \* MAX_ATTEMPTS of the outbox
    ConsumeMax,         \* MAX_ATTEMPTS of the consumer
    Republish,          \* how the consumer republishes
    CheckedAtSource,    \* does the publisher validate the payload?
    MaxFaults           \* bound: crashes and lost connections

\* What is assumed of the constants; asserted where they get their values.
BusAssumption ==
    /\ Events \subseteq Nat /\ Malformed \subseteq Events
    /\ PublishMax \in Nat \ {0} /\ ConsumeMax \in Nat \ {0} /\ MaxFaults \in Nat
    /\ Republish \in {"confirmed", "unconfirmed", "ackAnyway"}
    /\ CheckedAtSource \in BOOLEAN

VARIABLES
    outbox,       \* event_outbox: Events -> [st, attempts]
    batch,        \* publisher's open transaction: [todo, marks, open]
    queue,        \* durable queue: Events -> (x-attempts -> copies)
    transit,      \* copies handed to a channel without confirm, same shape
    task,         \* messages delivered and not acknowledged
    processed,    \* processed_events of the consumer
    effects,      \* Events -> times the handler's transaction took effect
    dlq,          \* events.dlq
    dropped,      \* invalid events acknowledged with an error log
    faults        \* crashes and lost connections so far

vars == <<outbox, batch, queue, transit, task, processed, effects, dlq,
          dropped, faults>>
publisherVars == <<outbox, batch>>
consumerVars == <<transit, task, processed, effects, dlq, dropped>>

Attempt == 0 .. ConsumeMax - 1
Idle == [step |-> "idle", ev |-> 0, att |-> 0]
Closed == [open |-> FALSE, todo |-> {}, marks |-> <<>>]
Row(st, n) == [st |-> st, attempts |-> n]
NoCopies == [e \in Events |-> [a \in Attempt |-> 0]]

Added(bag, e, a) == [bag EXCEPT ![e][a] = @ + 1]
Removed(bag, e, a) == [bag EXCEPT ![e][a] = @ - 1]

Init ==
    /\ outbox = [e \in Events |-> Row("absent", 0)]
    /\ batch = [p \in Publishers |-> Closed]
    /\ queue = NoCopies
    /\ transit = NoCopies
    /\ task = [t \in Tasks |-> Idle]
    /\ processed = {}
    /\ effects = [e \in Events |-> 0]
    /\ dlq = {}
    /\ dropped = {}
    /\ faults = 0

-----------------------------------------------------------------------------
(* The sending service and its outbox. *)

(***************************************************************************)
(* writeEvent inside the business transaction: the row exists exactly when *)
(* that transaction has committed.                                         *)
(***************************************************************************)
writeEvent(e) ==
    /\ outbox[e].st = "absent"
    /\ outbox' = [outbox EXCEPT ![e] = Row("waiting", 0)]
    /\ UNCHANGED <<batch, queue, consumerVars, faults>>

\* Rows the open transactions hold FOR UPDATE.
Locked == UNION { batch[p].todo \cup DOMAIN batch[p].marks : p \in Publishers }

\* Poll: claim a batch of due rows that no other publisher holds.
tickBegin(p) ==
    /\ ~batch[p].open
    /\ \E due \in SUBSET { e \in Events : outbox[e].st = "waiting" } :
         /\ due \ Locked # {}
         /\ batch' = [batch EXCEPT ![p] = [open |-> TRUE, todo |-> due \ Locked,
                                           marks |-> <<>>]]
    /\ UNCHANGED <<outbox, queue, consumerVars, faults>>

\* ORDER BY occurred_at
First(p, e) == e \in batch[p].todo /\ \A f \in batch[p].todo : e <= f

Marked(p, e, row, rest) ==
    batch' = [batch EXCEPT ![p] =
        [open |-> TRUE, todo |-> rest,
         marks |-> [f \in DOMAIN @.marks \cup {e} |->
                        IF f = e THEN row ELSE @.marks[f]]]]

\* attempts + 1, or failed_at once MAX_ATTEMPTS is reached
AfterFailure(e) ==
    LET n == outbox[e].attempts + 1
    IN  IF n >= PublishMax THEN Row("failed", n) ELSE Row("waiting", n)

Rejected(e) == CheckedAtSource /\ e \in Malformed

\* The broker confirmed; the UPDATE of published_at is still uncommitted.
publishConfirmed(p, e) ==
    /\ First(p, e) /\ ~Rejected(e)
    /\ queue' = Added(queue, e, 0)
    /\ Marked(p, e, Row("published", outbox[e].attempts), batch[p].todo \ {e})
    /\ UNCHANGED <<outbox, consumerVars, faults>>

\* The broker refused, or the channel is closed: this row backs off.
publishRefused(p, e) ==
    /\ First(p, e) /\ ~Rejected(e)
    /\ Marked(p, e, AfterFailure(e), batch[p].todo \ {e})
    /\ UNCHANGED <<outbox, queue, consumerVars, faults>>

\* No confirm in PUBLISH_CONFIRM_TIMEOUT_MS: the message may have arrived;
\* the rest of the batch waits for the next poll.
publishTimeout(p, e) ==
    /\ First(p, e) /\ ~Rejected(e)
    /\ queue' \in {queue, Added(queue, e, 0)}
    /\ Marked(p, e, AfterFailure(e), {})
    /\ UNCHANGED <<outbox, consumerVars, faults>>

\* documents/outbox.py: a schema error is permanent and is dead-lettered at once.
deadLetterInvalid(p, e) ==
    /\ First(p, e) /\ Rejected(e)
    /\ Marked(p, e, Row("failed", outbox[e].attempts + 1), batch[p].todo \ {e})
    /\ UNCHANGED <<outbox, queue, consumerVars, faults>>

\* Mutant of tickCommit: a row whose publish failed is marked published too.
tickCommitMutAll(p) ==
    /\ batch[p].open /\ batch[p].todo = {}
    /\ outbox' = [e \in Events |->
                    IF e \in DOMAIN batch[p].marks
                    THEN Row("published", outbox[e].attempts) ELSE outbox[e]]
    /\ batch' = [batch EXCEPT ![p] = Closed]
    /\ UNCHANGED <<queue, consumerVars, faults>>

tickCommit(p) ==
    /\ batch[p].open /\ batch[p].todo = {}
    /\ outbox' = [e \in Events |->
                    IF e \in DOMAIN batch[p].marks THEN batch[p].marks[e]
                                                   ELSE outbox[e]]
    /\ batch' = [batch EXCEPT ![p] = Closed]
    /\ UNCHANGED <<queue, consumerVars, faults>>

\* The process dies or the database refuses: the marks are rolled back,
\* the messages already confirmed stay on the queue.
tickAbort(p) ==
    /\ batch[p].open
    /\ faults < MaxFaults
    /\ faults' = faults + 1
    /\ batch' = [batch EXCEPT ![p] = Closed]
    /\ UNCHANGED <<outbox, queue, consumerVars>>

-----------------------------------------------------------------------------
(* The consumer. *)

Step(t, s) == task' = [task EXCEPT ![t].step = s]

deliver(t) ==
    /\ task[t].step = "idle"
    /\ \E e \in Events, a \in Attempt :
         /\ queue[e][a] > 0
         /\ queue' = Removed(queue, e, a)
         /\ task' = [task EXCEPT ![t] = [step |-> "handling", ev |-> e, att |-> a]]
    /\ UNCHANGED <<publisherVars, transit, processed, effects, dlq, dropped, faults>>

\* Mutant of apply: the event is marked processed in a transaction of its
\* own, so the insert no longer tells the duplicate from the first.
applyMutNoDedup(t) ==
    /\ task[t].step = "handling" /\ task[t].ev \notin Malformed
    /\ effects' = [effects EXCEPT ![task[t].ev] = @ + 1]
    /\ processed' = processed \cup {task[t].ev}
    /\ Step(t, "acking")
    /\ UNCHANGED <<publisherVars, queue, transit, dlq, dropped, faults>>

\* INSERT INTO processed_events ... ON CONFLICT DO NOTHING
markProcessed(e) == processed' = processed \cup {e}

(***************************************************************************)
(* The handler's transaction: processed_events and the effect together,    *)
(* nothing when the event id is already there.                             *)
(***************************************************************************)
apply(t) ==
    /\ task[t].step = "handling" /\ task[t].ev \notin Malformed
    /\ LET e == task[t].ev IN
         /\ effects' = [effects EXCEPT ![e] = IF e \in processed THEN @ ELSE @ + 1]
         /\ markProcessed(e)
    /\ Step(t, "acking")
    /\ UNCHANGED <<publisherVars, queue, transit, dlq, dropped, faults>>

\* EnvelopeValidationError / PayloadValidationError: logged and acknowledged.
reject(t) ==
    /\ task[t].step = "handling" /\ task[t].ev \in Malformed
    /\ dropped' = dropped \cup {task[t].ev}
    /\ Step(t, "acking")
    /\ UNCHANGED <<publisherVars, queue, transit, processed, effects, dlq, faults>>

\* Mutant of deadLetter: ack instead of nack.
deadLetterMutAck(t) ==
    /\ task[t].step = "handling" /\ task[t].ev \notin Malformed
    /\ task[t].att + 1 >= ConsumeMax
    /\ task' = [task EXCEPT ![t] = Idle]
    /\ UNCHANGED <<publisherVars, queue, transit, processed, effects, dlq, dropped, faults>>

\* Any other error, the last allowed attempt: nack without requeue.
deadLetter(t) ==
    /\ task[t].step = "handling" /\ task[t].ev \notin Malformed
    /\ task[t].att + 1 >= ConsumeMax
    /\ dlq' = dlq \cup {task[t].ev}
    /\ task' = [task EXCEPT ![t] = Idle]
    /\ UNCHANGED <<publisherVars, queue, transit, processed, effects, dropped, faults>>

\* Any other error, attempts left: wait REQUEUE_DELAY, then republish.
transientError(t) ==
    /\ task[t].step = "handling" /\ task[t].ev \notin Malformed
    /\ task[t].att + 1 < ConsumeMax
    /\ Step(t, "retrying")
    /\ UNCHANGED <<publisherVars, queue, transit, processed, effects, dlq, dropped, faults>>

\* The copy is confirmed before the original is acknowledged.
republishWithAttempt(t) ==
    /\ task[t].step = "retrying" /\ Republish # "unconfirmed"
    /\ queue' = Added(queue, task[t].ev, task[t].att + 1)
    /\ Step(t, "acking")
    /\ UNCHANGED <<publisherVars, transit, processed, effects, dlq, dropped, faults>>

(***************************************************************************)
(* No confirm: the copy may be on the queue or not.  payments/consumer.ts  *)
(* leaves the original unacknowledged; consumer.py acknowledges it.        *)
(***************************************************************************)
republishFails(t) ==
    /\ task[t].step = "retrying" /\ Republish # "unconfirmed"
    /\ faults < MaxFaults
    /\ faults' = faults + 1
    /\ queue' \in {queue, Added(queue, task[t].ev, task[t].att + 1)}
    /\ Step(t, IF Republish = "confirmed" THEN "unacked" ELSE "acking")
    /\ UNCHANGED <<publisherVars, transit, processed, effects, dlq, dropped>>

\* deliveries/consumer.ts: publish into the channel's buffer, ack at once.
republishUnconfirmed(t) ==
    /\ task[t].step = "retrying" /\ Republish = "unconfirmed"
    /\ transit' = Added(transit, task[t].ev, task[t].att + 1)
    /\ task' = [task EXCEPT ![t] = Idle]
    /\ UNCHANGED <<publisherVars, queue, processed, effects, dlq, dropped, faults>>

ack(t) ==
    /\ task[t].step = "acking"
    /\ task' = [task EXCEPT ![t] = Idle]
    /\ UNCHANGED <<publisherVars, queue, transit, processed, effects, dlq, dropped, faults>>

\* The broker gives every unacknowledged message back to the queue.
Redeliver(t) ==
    /\ queue' = Added(queue, task[t].ev, task[t].att)
    /\ task' = [task EXCEPT ![t] = Idle]
    /\ UNCHANGED <<publisherVars, transit, processed, effects, dlq, dropped>>

connectionLost(t) ==
    /\ task[t].step \in {"handling", "acking", "retrying"}
    /\ faults < MaxFaults
    /\ faults' = faults + 1
    /\ Redeliver(t)

\* A message left unacknowledged comes back when the connection is replaced.
reconnect(t) ==
    /\ task[t].step = "unacked"
    /\ Redeliver(t)
    /\ UNCHANGED faults

\* The broker takes the unconfirmed copy, or dies with it.
brokerAccepts ==
    /\ \E e \in Events, a \in Attempt :
         /\ transit[e][a] > 0
         /\ transit' = Removed(transit, e, a)
         /\ queue' = Added(queue, e, a)
    /\ UNCHANGED <<publisherVars, task, processed, effects, dlq, dropped, faults>>

brokerLoses ==
    /\ faults < MaxFaults
    /\ faults' = faults + 1
    /\ \E e \in Events, a \in Attempt :
         /\ transit[e][a] > 0
         /\ transit' = Removed(transit, e, a)
    /\ UNCHANGED <<publisherVars, queue, task, processed, effects, dlq, dropped>>

-----------------------------------------------------------------------------
PublisherStep(p) ==
    \/ tickBegin(p) \/ tickCommit(p)
    \/ \E e \in Events : \/ publishConfirmed(p, e) \/ publishRefused(p, e)
                         \/ publishTimeout(p, e) \/ deadLetterInvalid(p, e)

TaskStep(t) ==
    \/ deliver(t) \/ apply(t) \/ reject(t) \/ deadLetter(t) \/ transientError(t)
    \/ republishWithAttempt(t) \/ republishUnconfirmed(t) \/ ack(t) \/ reconnect(t)

Settled == /\ \A e \in Events : outbox[e].st \in {"published", "failed"}
           /\ \A p \in Publishers : ~batch[p].open
           /\ \A t \in Tasks : task[t] = Idle
           /\ queue = NoCopies /\ transit = NoCopies

Next ==
    \/ \E e \in Events : writeEvent(e)
    \/ \E p \in Publishers : PublisherStep(p) \/ tickAbort(p)
    \/ \E t \in Tasks : TaskStep(t) \/ republishFails(t) \/ connectionLost(t)
    \/ brokerAccepts \/ brokerLoses
    \/ Settled /\ UNCHANGED vars

Spec == Init /\ [][Next]_vars

(***************************************************************************)
(* Polls are timers, deliveries are the broker's, and a dead process is    *)
(* restarted: every step but writing and failing is eventually taken.      *)
(***************************************************************************)
FairSpec ==
    /\ Spec
    /\ \A p \in Publishers : WF_vars(PublisherStep(p))
    /\ \A t \in Tasks : WF_vars(TaskStep(t))
    /\ WF_vars(brokerAccepts)

-----------------------------------------------------------------------------
\* Some copy of the event is still in the pipeline, unpublished or unacknowledged.
Live(e) ==
    \/ outbox[e].st = "waiting"
    \/ \E a \in Attempt : queue[e][a] > 0 \/ transit[e][a] > 0
    \/ \E t \in Tasks : task[t].ev = e /\ task[t].step # "idle"

\* GET /internal/ops/alerts: failed outbox rows and the depth of events.dlq.
Alerted(e) == outbox[e].st = "failed" \/ e \in dlq

TypeOK ==
    /\ outbox \in [Events -> [st : {"absent", "waiting", "published", "failed"},
                              attempts : 0 .. PublishMax]]
    /\ \A p \in Publishers : /\ batch[p].open \in BOOLEAN
                             /\ batch[p].todo \subseteq Events
                             /\ DOMAIN batch[p].marks \subseteq Events
    /\ queue \in [Events -> [Attempt -> Nat]]
    /\ transit \in [Events -> [Attempt -> Nat]]
    /\ task \in [Tasks -> [step : {"idle", "handling", "acking", "retrying", "unacked"},
                           ev : Events \cup {0}, att : Attempt]]
    /\ processed \subseteq Events /\ dlq \subseteq Events /\ dropped \subseteq Events
    /\ effects \in [Events -> Nat]
    /\ faults \in 0 .. MaxFaults

(***************************************************************************)
(* No event disappears: every event a committed transaction wrote is still *)
(* on its way, has taken effect, was refused as malformed, or shows up in  *)
(* the operators' alerts.  Broken by an ack before the copy is safe.       *)
(***************************************************************************)
NothingLost ==
    \A e \in Events :
        outbox[e].st # "absent" =>
            Live(e) \/ e \in processed \/ e \in dropped \/ Alerted(e)

(***************************************************************************)
(* Publisher retries, duplicate claims of a row, lost acks and republished *)
(* copies notwithstanding, the handler takes effect at most once.          *)
(***************************************************************************)
AppliedOnce == \A e \in Events : effects[e] <= 1

(***************************************************************************)
(* Both, for the flow that confirms its copies before it acknowledges the  *)
(* original; a flow that does not may lose a copy with the broker, and     *)
(* still never applies one twice.                                          *)
(***************************************************************************)
NothingLostOrDoubled ==
    /\ Republish = "confirmed" => NothingLost
    /\ AppliedOnce

\* The refinement: how far each event has come, as EventDelivery sees it.
DeliveryStatus ==
    [e \in Events |->
        IF outbox[e].st = "absent" THEN "unwritten"
        ELSE IF e \in processed THEN "applied"
        ELSE IF e \in dropped THEN "buried"
        ELSE IF Live(e) THEN "pending"
        ELSE IF Alerted(e) THEN "buried"
        ELSE "lost"]

Delivery == INSTANCE EventDelivery WITH status <- DeliveryStatus

\* Whatever the outbox, the broker and the consumer do is a step of EventDelivery,
\* or nothing the services can see.
MovesAsDelivery == Delivery!Init /\ [][Delivery!Next]_DeliveryStatus

\* And every event is settled: they implement EventDelivery.
ImplementsDelivery == Delivery!Spec
=============================================================================
