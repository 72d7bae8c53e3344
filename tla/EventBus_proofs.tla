-------------------------- MODULE EventBus_proofs --------------------------
(***************************************************************************)
(* What holds of EventBus for every set of events, every number of         *)
(* publishers, consumers and attempts, and every sequence of crashes: its  *)
(* types, that nothing is lost or applied twice, and that each of its      *)
(* steps is a step of EventDelivery.                                       *)
(***************************************************************************)
EXTENDS EventBus, TLAPS

Rows == [st : {"absent", "waiting", "published", "failed"}, attempts : 0 .. PublishMax]
MarkSets == UNION {[D -> Rows] : D \in SUBSET Events}
Batches == [open : BOOLEAN, todo : SUBSET Events, marks : MarkSets]

\* What the open transaction of a publisher holds FOR UPDATE.
Claims(p) == batch[p].todo \cup DOMAIN batch[p].marks

BatchTyped == batch \in [Publishers -> Batches]

\* A row is claimed by one publisher at a time, and only while it waits.
ClaimsApart ==
    /\ \A p \in Publishers : \A e \in Claims(p) : outbox[e].st = "waiting"
    /\ \A p, q \in Publishers : p # q => Claims(p) \cap Claims(q) = {}

\* A row that waits has an attempt left, also as an uncommitted mark has it.
AttemptsLeft ==
    /\ \A e \in Events : outbox[e].st = "waiting" => outbox[e].attempts < PublishMax
    /\ \A p \in Publishers : \A e \in DOMAIN batch[p].marks :
         /\ batch[p].marks[e].st # "absent"
         /\ batch[p].marks[e].st = "waiting" => batch[p].marks[e].attempts < PublishMax

PublisherInv == BatchTyped /\ ClaimsApart /\ AttemptsLeft

\* A message being consumed is of an event, and one that waits for its
\* republication has an attempt left.
TasksSound ==
    \A t \in Tasks :
        /\ task[t].step # "idle" => task[t].ev \in Events
        /\ task[t].step = "retrying" => task[t].att + 1 < ConsumeMax

\* The effect and the row of processed_events are one transaction.
EffectsMarked == \A e \in Events : effects[e] = IF e \in processed THEN 1 ELSE 0

ConsumerInv == TasksSound /\ EffectsMarked

\* A copy the consumer still owes an answer for: an original whose copy is
\* confirmed, and which is only to be acknowledged, does not count.
Kept(e) ==
    \/ \E a \in Attempt : queue[e][a] > 0
    \/ \E t \in Tasks : task[t].ev = e /\ task[t].step \in {"handling", "retrying", "unacked"}
    \/ e \in processed \/ e \in dropped \/ e \in dlq

\* An event is published, or about to be, only with a copy that is kept.
PublishedKept ==
    /\ \A e \in Events : outbox[e].st = "published" => Kept(e)
    /\ \A p \in Publishers : \A e \in DOMAIN batch[p].marks :
         batch[p].marks[e].st = "published" => Kept(e)

BusInv == TypeOK /\ PublisherInv /\ ConsumerInv
KeptInv == Republish = "confirmed" => PublishedKept

\* An event that is not written has left no trace, and only events no
\* consumer can handle are dropped.
NoTraces ==
    /\ dropped \subseteq Malformed /\ processed \cap Malformed = {}
    /\ \A e \in Events : outbox[e].st = "absent" => e \notin processed \cup dropped /\ ~Live(e)

-----------------------------------------------------------------------------
(* Types, the publishers' claims and the consumers' bookkeeping.           *)

LEMMA PublisherFrame ==
  ASSUME PublisherInv, UNCHANGED publisherVars PROVE PublisherInv'
  BY DEF PublisherInv, BatchTyped, ClaimsApart, AttemptsLeft, Claims, publisherVars

LEMMA ConsumerFrame ==
  ASSUME ConsumerInv, UNCHANGED consumerVars PROVE ConsumerInv'
  BY DEF ConsumerInv, TasksSound, EffectsMarked, consumerVars

LEMMA ClosedTyped == BusAssumption => Closed \in Batches
<1>1. <<>> \in [{} -> Rows]
  OBVIOUS
<1> QED
  BY <1>1 DEF Closed, Batches, MarkSets

\* What a mark does to the batch of a publisher.
LEMMA MarkedIs ==
  ASSUME BatchTyped, NEW p \in Publishers, NEW e \in batch[p].todo, NEW row \in Rows,
         NEW rest \in SUBSET batch[p].todo, Marked(p, e, row, rest)
  PROVE  /\ BatchTyped'
         /\ \A q \in Publishers \ {p} : batch'[q] = batch[q]
         /\ batch'[p].todo = rest
         /\ DOMAIN batch'[p].marks = DOMAIN batch[p].marks \cup {e}
         /\ batch'[p].marks[e] = row
         /\ \A f \in DOMAIN batch[p].marks : f # e => batch'[p].marks[f] = batch[p].marks[f]
<1> DEFINE m == [f \in DOMAIN batch[p].marks \cup {e} |->
                   IF f = e THEN row ELSE batch[p].marks[f]]
           b == [open |-> TRUE, todo |-> rest, marks |-> m]
<1>1. batch[p] \in Batches
  BY DEF BatchTyped
<1>2. PICK D \in SUBSET Events : batch[p].marks \in [D -> Rows]
  BY <1>1 DEF Batches, MarkSets
<1>3. e \in Events /\ rest \subseteq Events
  BY <1>1 DEF Batches
<1>4. m \in [D \cup {e} -> Rows]
  BY <1>2
<1>5. D \cup {e} \in SUBSET Events
  BY <1>2, <1>3
<1>6. m \in MarkSets
  BY <1>4, <1>5 DEF MarkSets
<1>7. b \in Batches
  BY <1>3, <1>6 DEF Batches
<1>8. batch' = [batch EXCEPT ![p] = b]
  BY DEF Marked
<1> HIDE DEF m
<1>9. /\ BatchTyped'
      /\ \A q \in Publishers \ {p} : batch'[q] = batch[q]
      /\ batch'[p] = b
  BY <1>7, <1>8 DEF BatchTyped
<1> QED
  BY <1>9 DEF m

\* A publisher that marks a row it claims disturbs nobody.
LEMMA MarkingKeepsClaims ==
  ASSUME PublisherInv, UNCHANGED outbox,
         NEW p \in Publishers, NEW e \in batch[p].todo, NEW row \in Rows,
         NEW rest \in SUBSET batch[p].todo, Marked(p, e, row, rest),
         row.st # "absent", row.st = "waiting" => row.attempts < PublishMax
  PROVE  PublisherInv'
<1> USE DEF PublisherInv
<1>1. /\ BatchTyped'
      /\ \A q \in Publishers \ {p} : batch'[q] = batch[q]
      /\ batch'[p].todo = rest
      /\ DOMAIN batch'[p].marks = DOMAIN batch[p].marks \cup {e}
      /\ batch'[p].marks[e] = row
      /\ \A f \in DOMAIN batch[p].marks : f # e => batch'[p].marks[f] = batch[p].marks[f]
  BY MarkedIs
<1>2. \A q \in Publishers : Claims(q)' \subseteq Claims(q)
  BY <1>1 DEF Claims
<1>3. ClaimsApart'
  BY <1>2 DEF ClaimsApart
<1>4. AttemptsLeft'
  BY <1>1 DEF AttemptsLeft
<1> QED
  BY <1>1, <1>3, <1>4

LEMMA AfterFailureIs ==
  ASSUME BusAssumption, TypeOK, PublisherInv, NEW p \in Publishers, NEW e \in batch[p].todo
  PROVE  /\ AfterFailure(e) \in Rows
         /\ AfterFailure(e).st \in {"waiting", "failed"}
         /\ AfterFailure(e).st = "waiting" => AfterFailure(e).attempts < PublishMax
         /\ Row("published", outbox[e].attempts) \in Rows
         /\ Row("failed", outbox[e].attempts + 1) \in Rows
<1>1. e \in Events /\ outbox[e].st = "waiting"
  BY DEF PublisherInv, BatchTyped, Batches, ClaimsApart, Claims
<1>2. outbox[e].attempts \in Nat /\ outbox[e].attempts < PublishMax /\ PublishMax \in Nat
  BY <1>1 DEF PublisherInv, AttemptsLeft, TypeOK, BusAssumption
<1> QED
  BY <1>2 DEF AfterFailure, Row, Rows

\* One more copy of an event.
LEMMA AddedIs ==
  ASSUME NEW bag \in [Events -> [Attempt -> Nat]], NEW e \in Events, NEW a \in Attempt
  PROVE  /\ Added(bag, e, a) \in [Events -> [Attempt -> Nat]]
         /\ Added(bag, e, a)[e][a] > 0
         /\ \A f \in Events, b \in Attempt : Added(bag, e, a)[f][b] >= bag[f][b]
         /\ \A f \in Events : f # e => Added(bag, e, a)[f] = bag[f]
<1>1. Added(bag, e, a) = [bag EXCEPT ![e] = [bag[e] EXCEPT ![a] = bag[e][a] + 1]]
  BY DEF Added
<1> QED
  BY <1>1

LEMMA RemovedIs ==
  ASSUME NEW bag \in [Events -> [Attempt -> Nat]], NEW e \in Events, NEW a \in Attempt,
         bag[e][a] > 0
  PROVE  /\ Removed(bag, e, a) \in [Events -> [Attempt -> Nat]]
         /\ \A f \in Events, b \in Attempt : Removed(bag, e, a)[f][b] <= bag[f][b]
         /\ \A f \in Events : f # e => Removed(bag, e, a)[f] = bag[f]
<1>1. Removed(bag, e, a) = [bag EXCEPT ![e] = [bag[e] EXCEPT ![a] = bag[e][a] - 1]]
  BY DEF Removed
<1> QED
  BY <1>1

LEMMA AttemptZero == BusAssumption => 0 \in Attempt /\ Attempt \subseteq Nat
  BY DEF BusAssumption, Attempt

LEMMA InitInv == BusAssumption /\ Init => BusInv /\ KeptInv /\ NoTraces
<1> SUFFICES ASSUME BusAssumption, Init PROVE BusInv /\ KeptInv /\ NoTraces
  OBVIOUS
<1>1. 0 \in Attempt /\ 0 \in 0 .. PublishMax
  BY AttemptZero DEF BusAssumption
<1>2. TypeOK
  <2>1. outbox \in [Events -> [st : {"absent", "waiting", "published", "failed"},
                              attempts : 0 .. PublishMax]]
    BY <1>1 DEF Init, Row
  <2>2. \A p \in Publishers : /\ batch[p].open \in BOOLEAN
                              /\ batch[p].todo \subseteq Events
                              /\ DOMAIN batch[p].marks \subseteq Events
    <3>1. Closed.open \in BOOLEAN /\ Closed.todo = {} /\ DOMAIN Closed.marks = {}
      BY DEF Closed
    <3>2. \A p \in Publishers : batch[p] = Closed
      BY DEF Init
    <3> QED
      BY <3>1, <3>2
  <2>3. queue \in [Events -> [Attempt -> Nat]] /\ transit \in [Events -> [Attempt -> Nat]]
    BY DEF Init, NoCopies
  <2>4. task \in [Tasks -> [step : {"idle", "handling", "acking", "retrying", "unacked"},
                           ev : Events \cup {0}, att : Attempt]]
    BY <1>1 DEF Init, Idle
  <2> QED
    BY <2>1, <2>2, <2>3, <2>4 DEF Init, TypeOK, BusAssumption
<1>3. PublisherInv
  BY ClosedTyped DEF Init, PublisherInv, BatchTyped, ClaimsApart, AttemptsLeft, Claims, Closed, Row
<1>4. ConsumerInv
  BY DEF Init, ConsumerInv, TasksSound, EffectsMarked, Idle
<1>5. KeptInv
  BY DEF Init, KeptInv, PublishedKept, Row, Closed
<1>6. NoTraces
  BY DEF Init, NoTraces, Live, Row, NoCopies, Idle
<1> QED
  BY <1>2, <1>3, <1>4, <1>5, <1>6 DEF BusInv

\* The steps of a publisher.
LEMMA PublisherSteps ==
  ASSUME BusAssumption, BusInv, NEW p \in Publishers, PublisherStep(p) \/ tickAbort(p)
  PROVE  BusInv'
<1> USE DEF BusInv
<1>1. CASE tickBegin(p)
  <2>1. PICK due \in SUBSET {e \in Events : outbox[e].st = "waiting"} :
          batch' = [batch EXCEPT ![p] = [open |-> TRUE, todo |-> due \ Locked, marks |-> <<>>]]
    BY <1>1 DEF tickBegin
  <2>2. [open |-> TRUE, todo |-> due \ Locked, marks |-> <<>>] \in Batches
    BY ClosedTyped DEF Closed, Batches
  <2>3. BatchTyped'
    BY <2>1, <2>2 DEF PublisherInv, BatchTyped
  <2>4. \A q \in Publishers \ {p} : Claims(q)' = Claims(q)
    BY <2>1 DEF Claims, PublisherInv, BatchTyped
  <2>5. Claims(p)' = due \ Locked
    BY <2>1 DEF Claims, PublisherInv, BatchTyped
  <2>6. \A q \in Publishers \ {p} : Claims(p)' \cap Claims(q) = {}
    BY <2>5 DEF Locked, Claims
  <2>7. ClaimsApart'
    BY <2>4, <2>5, <2>6, <1>1 DEF tickBegin, PublisherInv, ClaimsApart
  <2>8. AttemptsLeft'
    BY <2>1, <1>1 DEF tickBegin, PublisherInv, BatchTyped, AttemptsLeft
  <2>9. \A q \in Publishers : /\ batch'[q].open \in BOOLEAN
                              /\ batch'[q].todo \subseteq Events
                              /\ DOMAIN batch'[q].marks \subseteq Events
    BY <2>3 DEF BatchTyped, Batches, MarkSets
  <2>10. TypeOK'
    BY <2>9, <1>1 DEF tickBegin, TypeOK, consumerVars
  <2> QED
    BY <2>3, <2>7, <2>8, <2>10, <1>1, ConsumerFrame DEF tickBegin, PublisherInv
<1>2. CASE tickCommit(p)
  <2>1. BatchTyped'
    BY <1>2, ClosedTyped DEF tickCommit, PublisherInv, BatchTyped
  <2>2. \A q \in Publishers \ {p} : batch'[q] = batch[q]
    BY <1>2 DEF tickCommit, PublisherInv, BatchTyped
  <2>3. batch'[p] = Closed
    BY <1>2 DEF tickCommit, PublisherInv, BatchTyped
  <2>4. Claims(p)' = {}
    BY <2>3 DEF Claims, Closed
  <2>5. \A e \in Events \ DOMAIN batch[p].marks : outbox'[e] = outbox[e]
    BY <1>2 DEF tickCommit
  <2>6. \A e \in DOMAIN batch[p].marks : e \in Events /\ outbox'[e] = batch[p].marks[e]
    BY <1>2 DEF tickCommit, TypeOK
  <2>7. \A q \in Publishers \ {p} : Claims(q)' = Claims(q) /\ Claims(q) \cap Claims(p) = {}
    BY <2>2 DEF Claims, PublisherInv, ClaimsApart
  <2>8. ClaimsApart'
    <3>1. ASSUME NEW q \in Publishers, NEW e \in Claims(q)' PROVE outbox'[e].st = "waiting"
      <4>1. q # p /\ e \in Claims(q)
        BY <3>1, <2>4, <2>7
      <4>2. e \in Events /\ e \notin DOMAIN batch[p].marks /\ outbox[e].st = "waiting"
        BY <4>1, <2>7 DEF Claims, PublisherInv, ClaimsApart, BatchTyped, TypeOK
      <4> QED
        BY <4>2, <2>5
    <3>2. ASSUME NEW q \in Publishers, NEW r \in Publishers, q # r
          PROVE  Claims(q)' \cap Claims(r)' = {}
      BY <3>2, <2>4, <2>7 DEF PublisherInv, ClaimsApart
    <3> QED
      BY <3>1, <3>2 DEF ClaimsApart
  <2>9. AttemptsLeft'
    <3>1. ASSUME NEW e \in Events, outbox'[e].st = "waiting" PROVE outbox'[e].attempts < PublishMax
      BY <3>1, <2>5, <2>6 DEF PublisherInv, AttemptsLeft
    <3>2. ASSUME NEW q \in Publishers, NEW e \in DOMAIN batch'[q].marks
          PROVE  /\ batch'[q].marks[e].st # "absent"
                 /\ batch'[q].marks[e].st = "waiting" => batch'[q].marks[e].attempts < PublishMax
      <4>1. q # p
        BY <2>3 DEF Closed
      <4> QED
        BY <4>1, <2>2 DEF PublisherInv, AttemptsLeft
    <3> QED
      BY <3>1, <3>2 DEF AttemptsLeft
  <2>10. outbox' \in [Events -> Rows]
    <3>1. batch[p].marks \in MarkSets
      BY DEF PublisherInv, BatchTyped, Batches
    <3>2. \A e \in DOMAIN batch[p].marks : batch[p].marks[e] \in Rows
      BY <3>1 DEF MarkSets
    <3> QED
      BY <3>2, <1>2 DEF tickCommit, TypeOK, Rows
  <2>11. \A q \in Publishers : /\ batch'[q].open \in BOOLEAN
                              /\ batch'[q].todo \subseteq Events
                              /\ DOMAIN batch'[q].marks \subseteq Events
    BY <2>1 DEF BatchTyped, Batches, MarkSets
  <2>12. TypeOK'
    BY <2>10, <2>11, <1>2 DEF tickCommit, TypeOK, consumerVars, Rows
  <2> QED
    BY <2>1, <2>8, <2>9, <2>12, <1>2, ConsumerFrame DEF tickCommit, PublisherInv
<1>3. CASE tickAbort(p)
  <2>1. batch' = [batch EXCEPT ![p] = Closed] /\ outbox' = outbox
    BY <1>3 DEF tickAbort
  <2>2. PublisherInv'
    BY <2>1, ClosedTyped DEF PublisherInv, BatchTyped, ClaimsApart, AttemptsLeft, Claims, Closed
  <2>3. \A q \in Publishers : /\ batch'[q].open \in BOOLEAN
                              /\ batch'[q].todo \subseteq Events
                              /\ DOMAIN batch'[q].marks \subseteq Events
    BY <2>2 DEF PublisherInv, BatchTyped, Batches, MarkSets
  <2>4. faults' \in 0 .. MaxFaults
    BY <1>3 DEF tickAbort, TypeOK, BusAssumption
  <2>5. TypeOK'
    BY <1>3, <2>1, <2>3, <2>4 DEF tickAbort, TypeOK, consumerVars
  <2> QED
    BY <2>2, <2>5, <1>3, ConsumerFrame DEF tickAbort
<1>4. ASSUME NEW e \in Events,
             \/ publishConfirmed(p, e) \/ publishRefused(p, e)
             \/ publishTimeout(p, e) \/ deadLetterInvalid(p, e)
      PROVE  BusInv'
  <2>1. e \in batch[p].todo /\ UNCHANGED <<outbox, consumerVars, faults>>
    BY <1>4 DEF publishConfirmed, publishRefused, publishTimeout, deadLetterInvalid, First
  <2>2. PICK row \in Rows, rest \in SUBSET batch[p].todo :
          /\ Marked(p, e, row, rest)
          /\ row.st # "absent" /\ (row.st = "waiting" => row.attempts < PublishMax)
    <3>1. CASE publishConfirmed(p, e)
      BY <3>1, <2>1, AfterFailureIs DEF publishConfirmed, Row
    <3>2. CASE publishRefused(p, e) \/ publishTimeout(p, e)
      BY <3>2, <2>1, AfterFailureIs DEF publishRefused, publishTimeout
    <3>3. CASE deadLetterInvalid(p, e)
      <4>1. Row("failed", outbox[e].attempts + 1) \in Rows
        BY <2>1, AfterFailureIs
      <4>2. Row("failed", outbox[e].attempts + 1).st = "failed"
        BY DEF Row
      <4>3. Marked(p, e, Row("failed", outbox[e].attempts + 1), batch[p].todo \ {e})
        BY <3>3 DEF deadLetterInvalid
      <4> QED
        BY <4>1, <4>2, <4>3
    <3> QED
      BY <1>4, <3>1, <3>2, <3>3
  <2>3. PublisherInv'
    BY <2>1, <2>2, MarkingKeepsClaims
  <2>4. queue' \in [Events -> [Attempt -> Nat]]
    <3>1. Added(queue, e, 0) \in [Events -> [Attempt -> Nat]]
      BY AddedIs, AttemptZero DEF TypeOK
    <3>2. queue' = queue \/ queue' = Added(queue, e, 0)
      BY <1>4 DEF publishConfirmed, publishRefused, publishTimeout, deadLetterInvalid
    <3> QED
      BY <3>1, <3>2 DEF TypeOK
  <2>5. \A q \in Publishers : /\ batch'[q].open \in BOOLEAN
                              /\ batch'[q].todo \subseteq Events
                              /\ DOMAIN batch'[q].marks \subseteq Events
    BY <2>3 DEF PublisherInv, BatchTyped, Batches, MarkSets
  <2>6. TypeOK'
    BY <2>1, <2>4, <2>5 DEF TypeOK, consumerVars
  <2> QED
    BY <2>1, <2>3, <2>6, ConsumerFrame
<1> QED
  BY <1>1, <1>2, <1>3, <1>4 DEF PublisherStep

\* A consumer's message goes to another step.
LEMMA StepIs ==
  ASSUME BusInv, NEW t \in Tasks, NEW s \in {"idle", "handling", "acking", "retrying", "unacked"},
         Step(t, s), task[t].step # "idle"
  PROVE  /\ task' \in [Tasks -> [step : {"idle", "handling", "acking", "retrying", "unacked"},
                                 ev : Events \cup {0}, att : Attempt]]
         /\ task'[t].step = s /\ task'[t].ev = task[t].ev /\ task'[t].att = task[t].att
         /\ \A u \in Tasks \ {t} : task'[u] = task[u]
         /\ (s = "retrying" => task[t].att + 1 < ConsumeMax) => TasksSound'
<1>1. task' = [task EXCEPT ![t] = [task[t] EXCEPT !.step = s]]
  BY DEF Step
<1>2. task[t] \in [step : {"idle", "handling", "acking", "retrying", "unacked"},
                   ev : Events \cup {0}, att : Attempt]
  BY DEF BusInv, TypeOK
<1>3. [task[t] EXCEPT !.step = s] \in
         [step : {"idle", "handling", "acking", "retrying", "unacked"},
          ev : Events \cup {0}, att : Attempt]
  BY <1>2
<1>4. /\ task'[t].step = s /\ task'[t].ev = task[t].ev /\ task'[t].att = task[t].att
      /\ \A u \in Tasks \ {t} : task'[u] = task[u]
  BY <1>1, <1>2 DEF BusInv, TypeOK
<1>5. task' \in [Tasks -> [step : {"idle", "handling", "acking", "retrying", "unacked"},
                           ev : Events \cup {0}, att : Attempt]]
  BY <1>1, <1>3 DEF BusInv, TypeOK
<1>6. (s = "retrying" => task[t].att + 1 < ConsumeMax) => TasksSound'
  BY <1>4 DEF BusInv, ConsumerInv, TasksSound
<1> QED
  BY <1>4, <1>5, <1>6

\* A consumer is done with its message.
LEMMA DoneIs ==
  ASSUME BusAssumption, BusInv, NEW t \in Tasks, task' = [task EXCEPT ![t] = Idle]
  PROVE  /\ task' \in [Tasks -> [step : {"idle", "handling", "acking", "retrying", "unacked"},
                                 ev : Events \cup {0}, att : Attempt]]
         /\ task'[t] = Idle
         /\ \A u \in Tasks \ {t} : task'[u] = task[u]
         /\ TasksSound'
<1>1. Idle \in [step : {"idle", "handling", "acking", "retrying", "unacked"},
                ev : Events \cup {0}, att : Attempt]
  BY AttemptZero DEF Idle
<1>2. task' \in [Tasks -> [step : {"idle", "handling", "acking", "retrying", "unacked"},
                           ev : Events \cup {0}, att : Attempt]]
  BY <1>1 DEF BusInv, TypeOK
<1>3. task'[t] = Idle /\ \A u \in Tasks \ {t} : task'[u] = task[u]
  BY DEF BusInv, TypeOK
<1>4. TasksSound'
  BY <1>3 DEF BusInv, ConsumerInv, TasksSound, Idle
<1> QED
  BY <1>2, <1>3, <1>4

\* The copy a consumer holds, and the one it would publish.
LEMMA CopyTyped ==
  ASSUME BusAssumption, BusInv, NEW t \in Tasks, task[t].step # "idle"
  PROVE  /\ task[t].ev \in Events /\ task[t].att \in Attempt
         /\ task[t].att + 1 < ConsumeMax => task[t].att + 1 \in Attempt
         /\ task[t].step = "retrying" => task[t].att + 1 \in Attempt
<1>1. task[t].ev \in Events /\ task[t].att \in Attempt
  BY DEF BusInv, ConsumerInv, TasksSound, TypeOK
<1>2. task[t].att + 1 < ConsumeMax => task[t].att + 1 \in Attempt
  BY <1>1 DEF Attempt, BusAssumption
<1> QED
  BY <1>1, <1>2 DEF BusInv, ConsumerInv, TasksSound

\* The steps of a consumer.
LEMMA TaskSteps ==
  ASSUME BusAssumption, BusInv, NEW t \in Tasks,
         TaskStep(t) \/ republishFails(t) \/ connectionLost(t)
  PROVE  BusInv'
<1> DEFINE TaskTypes == [Tasks -> [step : {"idle", "handling", "acking", "retrying", "unacked"},
                                   ev : Events \cup {0}, att : Attempt]]
           Bags == [Events -> [Attempt -> Nat]]
<1>1. SUFFICES /\ UNCHANGED publisherVars
               /\ queue' \in Bags /\ transit' \in Bags /\ task' \in TaskTypes
               /\ processed' \subseteq Events /\ dlq' \subseteq Events /\ dropped' \subseteq Events
               /\ effects' \in [Events -> Nat] /\ faults' \in 0 .. MaxFaults
               /\ TasksSound' /\ EffectsMarked'
  BY PublisherFrame DEF BusInv, TypeOK, ConsumerInv, publisherVars
<1>2. /\ queue \in Bags /\ transit \in Bags /\ task \in TaskTypes
      /\ processed \subseteq Events /\ dlq \subseteq Events /\ dropped \subseteq Events
      /\ effects \in [Events -> Nat] /\ faults \in 0 .. MaxFaults
      /\ TasksSound /\ EffectsMarked
  BY DEF BusInv, TypeOK, ConsumerInv
<1>3. UNCHANGED <<processed, effects>> => EffectsMarked'
  BY <1>2 DEF EffectsMarked
<1>4. faults < MaxFaults => faults + 1 \in 0 .. MaxFaults
  BY <1>2 DEF BusAssumption
<1>5. CASE deliver(t)
  <2>1. PICK e \in Events, a \in Attempt :
          /\ queue[e][a] > 0
          /\ queue' = Removed(queue, e, a)
          /\ task' = [task EXCEPT ![t] = [step |-> "handling", ev |-> e, att |-> a]]
    BY <1>5 DEF deliver
  <2>2. queue' \in Bags
    BY <1>2, <2>1, RemovedIs
  <2>3. task' \in TaskTypes
    BY <1>2, <2>1
  <2>4. TasksSound'
    BY <1>2, <2>1 DEF TasksSound
  <2> QED
    BY <1>2, <1>3, <1>5, <2>2, <2>3, <2>4 DEF deliver
<1>6. CASE apply(t)
  <2>1. task[t].step # "idle" /\ Step(t, "acking")
    BY <1>6 DEF apply
  <2>2. task[t].ev \in Events
    BY <2>1, CopyTyped
  <2>3. effects' = [effects EXCEPT ![task[t].ev] =
                      IF task[t].ev \in processed THEN @ ELSE @ + 1]
        /\ processed' = processed \cup {task[t].ev}
    BY <1>6 DEF apply, markProcessed
  <2>4. effects' \in [Events -> Nat] /\ processed' \subseteq Events
    BY <1>2, <2>2, <2>3
  <2>5. EffectsMarked'
    BY <1>2, <2>2, <2>3 DEF EffectsMarked
  <2> QED
    BY <1>2, <1>6, <2>1, <2>4, <2>5, StepIs DEF apply
<1>7. CASE reject(t)
  <2>1. task[t].step # "idle" /\ Step(t, "acking")
    BY <1>7 DEF reject
  <2>2. task[t].ev \in Events
    BY <2>1, CopyTyped
  <2> QED
    BY <1>2, <1>3, <1>7, <2>1, <2>2, StepIs DEF reject
<1>8. CASE deadLetter(t)
  <2>1. task[t].ev \in Events
    BY <1>8, CopyTyped DEF deadLetter
  <2> QED
    BY <1>2, <1>3, <1>8, <2>1, DoneIs DEF deadLetter
<1>9. CASE transientError(t)
  BY <1>2, <1>3, <1>9, StepIs DEF transientError
<1>10. CASE republishWithAttempt(t)
  <2>1. task[t].step = "retrying" /\ Step(t, "acking")
    BY <1>10 DEF republishWithAttempt
  <2>2. queue' \in Bags
    BY <1>2, <1>10, <2>1, CopyTyped, AddedIs DEF republishWithAttempt
  <2> QED
    BY <1>2, <1>3, <1>10, <2>1, <2>2, StepIs DEF republishWithAttempt
<1>11. CASE republishFails(t)
  <2>1. /\ task[t].step = "retrying"
        /\ Step(t, IF Republish = "confirmed" THEN "unacked" ELSE "acking")
    BY <1>11 DEF republishFails
  <2>2. Added(queue, task[t].ev, task[t].att + 1) \in Bags
    BY <1>2, <2>1, CopyTyped, AddedIs
  <2>3. queue' \in Bags
    BY <1>2, <1>11, <2>2 DEF republishFails
  <2>4. task' \in TaskTypes /\ TasksSound'
    BY <2>1, StepIs
  <2> QED
    BY <1>2, <1>3, <1>4, <1>11, <2>3, <2>4 DEF republishFails
<1>12. CASE republishUnconfirmed(t)
  <2>1. transit' \in Bags
    BY <1>2, <1>12, CopyTyped, AddedIs DEF republishUnconfirmed
  <2> QED
    BY <1>2, <1>3, <1>12, <2>1, DoneIs DEF republishUnconfirmed
<1>13. CASE ack(t)
  BY <1>2, <1>3, <1>13, DoneIs DEF ack
<1>14. CASE reconnect(t) \/ connectionLost(t)
  <2>1. task[t].step # "idle" /\ Redeliver(t)
    BY <1>14 DEF reconnect, connectionLost
  <2>2. queue' \in Bags
    BY <1>2, <2>1, CopyTyped, AddedIs DEF Redeliver
  <2>3. task' \in TaskTypes /\ TasksSound'
    BY <2>1, DoneIs DEF Redeliver
  <2>4. faults' \in 0 .. MaxFaults
    BY <1>2, <1>4, <1>14 DEF reconnect, connectionLost
  <2> QED
    BY <1>2, <1>3, <2>1, <2>2, <2>3, <2>4 DEF Redeliver
<1> QED
  BY <1>5, <1>6, <1>7, <1>8, <1>9, <1>10, <1>11, <1>12, <1>13, <1>14 DEF TaskStep

LEMMA NextKeepsInv ==
  ASSUME BusAssumption, BusInv, [Next]_vars PROVE BusInv'
<1>1. ASSUME NEW e \in Events, writeEvent(e) PROVE BusInv'
  <2>1. outbox' = [outbox EXCEPT ![e] = [st |-> "waiting", attempts |-> 0]] /\ outbox[e].st = "absent"
    BY <1>1 DEF writeEvent, Row
  <2>2. TypeOK'
    BY <1>1, <2>1 DEF writeEvent, BusInv, TypeOK, consumerVars, BusAssumption
  <2>3. PublisherInv'
    BY <1>1, <2>1 DEF writeEvent, BusInv, TypeOK, PublisherInv, BatchTyped, ClaimsApart, AttemptsLeft,
       Claims, BusAssumption
  <2> QED
    BY <1>1, <2>2, <2>3, ConsumerFrame DEF writeEvent, BusInv
<1>2. ASSUME NEW p \in Publishers, PublisherStep(p) \/ tickAbort(p) PROVE BusInv'
  BY <1>2, PublisherSteps
<1>3. ASSUME NEW t \in Tasks, TaskStep(t) \/ republishFails(t) \/ connectionLost(t) PROVE BusInv'
  BY <1>3, TaskSteps
<1>4. CASE brokerAccepts \/ brokerLoses
  <2>1. UNCHANGED <<publisherVars, task, processed, effects, dlq, dropped>>
    BY <1>4 DEF brokerAccepts, brokerLoses
  <2>2. PublisherInv' /\ ConsumerInv'
    BY <2>1, PublisherFrame DEF BusInv, ConsumerInv, TasksSound, EffectsMarked
  <2> queue \in [Events -> [Attempt -> Nat]] /\ transit \in [Events -> [Attempt -> Nat]]
    BY DEF BusInv, TypeOK
  <2>3. transit' \in [Events -> [Attempt -> Nat]]
    BY <1>4, RemovedIs DEF brokerAccepts, brokerLoses
  <2>4. queue' \in [Events -> [Attempt -> Nat]]
    BY <1>4, AddedIs DEF brokerAccepts, brokerLoses
  <2>5. faults' \in 0 .. MaxFaults
    BY <1>4 DEF brokerAccepts, brokerLoses, BusInv, TypeOK, BusAssumption
  <2>6. TypeOK'
    BY <2>1, <2>3, <2>4, <2>5 DEF BusInv, TypeOK, publisherVars
  <2> QED
    BY <2>2, <2>6 DEF BusInv
<1>5. CASE UNCHANGED vars
  <2>1. UNCHANGED <<publisherVars, consumerVars, queue, faults>>
    BY <1>5 DEF vars, publisherVars, consumerVars
  <2>2. TypeOK'
    BY <2>1 DEF BusInv, TypeOK, publisherVars, consumerVars
  <2> QED
    BY <2>1, <2>2, PublisherFrame, ConsumerFrame DEF BusInv
<1> QED
  BY <1>1, <1>2, <1>3, <1>4, <1>5 DEF Next

-----------------------------------------------------------------------------
(* Nothing is lost.                                                        *)

\* A copy is kept when the step only takes the message of one consumer.
LEMMA KeptElsewhere ==
  ASSUME NEW e \in Events, Kept(e), NEW t \in Tasks,
         \A a \in Attempt : queue[e][a] > 0 => queue'[e][a] > 0,
         \A u \in Tasks \ {t} : task'[u] = task[u],
         processed \subseteq processed', dropped \subseteq dropped', dlq \subseteq dlq',
         (task[t].ev = e /\ task[t].step \in {"handling", "retrying", "unacked"}) => Kept(e)'
  PROVE  Kept(e)'
<1>1. CASE \E u \in Tasks \ {t} :
             task[u].ev = e /\ task[u].step \in {"handling", "retrying", "unacked"}
  BY <1>1 DEF Kept
<1> QED
  BY <1>1 DEF Kept

\* One copy more in the queue hides no other.
LEMMA AddedKeeps ==
  ASSUME BusInv, NEW e \in Events, NEW a \in Attempt, queue' = Added(queue, e, a)
  PROVE  /\ \A f \in Events, b \in Attempt : queue[f][b] > 0 => queue'[f][b] > 0
         /\ queue'[e][a] > 0
<1>1. queue \in [Events -> [Attempt -> Nat]]
  BY DEF BusInv, TypeOK
<1>2. queue' \in [Events -> [Attempt -> Nat]]
  BY <1>1, AddedIs
<1>3. /\ queue'[e][a] > 0
      /\ \A f \in Events, b \in Attempt : queue'[f][b] >= queue[f][b]
  BY <1>1, AddedIs
<1>4. ASSUME NEW f \in Events, NEW b \in Attempt, queue[f][b] > 0 PROVE queue'[f][b] > 0
  <2>1. queue[f][b] \in Nat /\ queue'[f][b] \in Nat
    BY <1>1, <1>2
  <2> QED
    BY <2>1, <1>3, <1>4
<1> QED
  BY <1>3, <1>4

\* No step loses the last copy of an event when copies are confirmed.
LEMMA KeptStays ==
  ASSUME BusAssumption, BusInv, Republish = "confirmed", [Next]_vars, NEW e \in Events, Kept(e)
  PROVE  Kept(e)'
<1>1. CASE UNCHANGED <<queue, task, processed, dropped, dlq>>
  BY <1>1 DEF Kept
<1>2. ASSUME NEW p \in Publishers, PublisherStep(p) \/ tickAbort(p) PROVE Kept(e)'
  <2>1. UNCHANGED <<task, processed, dropped, dlq>>
    BY <1>2 DEF PublisherStep, tickBegin, tickCommit, tickAbort, publishConfirmed, publishRefused,
       publishTimeout, deadLetterInvalid, consumerVars
  <2>2. queue' = queue \/ \E f \in Events : queue' = Added(queue, f, 0)
    BY <1>2 DEF PublisherStep, tickBegin, tickCommit, tickAbort, publishConfirmed, publishRefused,
       publishTimeout, deadLetterInvalid
  <2> QED
    BY <1>1, <2>1, <2>2, AddedKeeps, AttemptZero DEF Kept
<1>3. ASSUME NEW t \in Tasks, TaskStep(t) \/ republishFails(t) \/ connectionLost(t) PROVE Kept(e)'
  <2>1. CASE deliver(t)
    <3>1. PICK f \in Events, a \in Attempt :
            /\ queue[f][a] > 0
            /\ queue' = Removed(queue, f, a)
            /\ task' = [task EXCEPT ![t] = [step |-> "handling", ev |-> f, att |-> a]]
      BY <2>1 DEF deliver
    <3>2. /\ task'[t].ev = f /\ task'[t].step = "handling"
          /\ \A u \in Tasks \ {t} : task'[u] = task[u]
      BY <3>1 DEF BusInv, TypeOK
    <3>3. CASE e = f
      BY <3>2, <3>3 DEF Kept
    <3>4. CASE e # f
      <4> queue \in [Events -> [Attempt -> Nat]]
        BY DEF BusInv, TypeOK
      <4>1. queue'[e] = queue[e]
        BY <3>1, <3>4, RemovedIs
      <4> QED
        BY <4>1, <3>2, <2>1, KeptElsewhere DEF deliver
    <3> QED
      BY <3>3, <3>4
  <2>2. CASE apply(t)
    <3>1. \A u \in Tasks \ {t} : task'[u] = task[u]
      BY <2>2, StepIs DEF apply
    <3>2. task[t].ev = e => Kept(e)'
      BY <2>2 DEF apply, markProcessed, Kept
    <3> QED
      BY <2>2, <3>1, <3>2, KeptElsewhere DEF apply, markProcessed
  <2>3. CASE reject(t)
    <3>1. \A u \in Tasks \ {t} : task'[u] = task[u]
      BY <2>3, StepIs DEF reject
    <3>2. task[t].ev = e => Kept(e)'
      BY <2>3 DEF reject, Kept
    <3> QED
      BY <2>3, <3>1, <3>2, KeptElsewhere DEF reject
  <2>4. CASE deadLetter(t)
    <3>1. \A u \in Tasks \ {t} : task'[u] = task[u]
      BY <2>4, DoneIs DEF deadLetter
    <3>2. task[t].ev = e => Kept(e)'
      BY <2>4 DEF deadLetter, Kept
    <3> QED
      BY <2>4, <3>1, <3>2, KeptElsewhere DEF deadLetter
  <2>5. CASE transientError(t)
    <3>1. /\ task'[t].step = "retrying" /\ task'[t].ev = task[t].ev
          /\ \A u \in Tasks \ {t} : task'[u] = task[u]
      BY <2>5, StepIs DEF transientError
    <3>2. task[t].ev = e => Kept(e)'
      BY <3>1 DEF Kept
    <3> QED
      BY <2>5, <3>1, <3>2, KeptElsewhere DEF transientError
  <2>6. CASE republishWithAttempt(t)
    <3>1. \A u \in Tasks \ {t} : task'[u] = task[u]
      BY <2>6, StepIs DEF republishWithAttempt
    <3>2. task[t].ev \in Events /\ task[t].att + 1 \in Attempt
      BY <2>6, CopyTyped DEF republishWithAttempt
    <3>3. /\ \A f \in Events, b \in Attempt : queue[f][b] > 0 => queue'[f][b] > 0
          /\ queue'[task[t].ev][task[t].att + 1] > 0
      BY <2>6, <3>2, AddedKeeps DEF republishWithAttempt
    <3>4. task[t].ev = e => Kept(e)'
      BY <3>2, <3>3 DEF Kept
    <3> QED
      BY <2>6, <3>1, <3>3, <3>4, KeptElsewhere DEF republishWithAttempt
  <2>7. CASE republishFails(t)
    <3>1. /\ task'[t].step = "unacked" /\ task'[t].ev = task[t].ev
          /\ \A u \in Tasks \ {t} : task'[u] = task[u]
      BY <2>7, StepIs DEF republishFails
    <3>2. task[t].ev = e => Kept(e)'
      BY <3>1 DEF Kept
    <3>3. task[t].ev \in Events /\ task[t].att + 1 \in Attempt
      BY <2>7, CopyTyped DEF republishFails
    <3>4. \A f \in Events, b \in Attempt : queue[f][b] > 0 => queue'[f][b] > 0
      BY <2>7, <3>3, AddedKeeps DEF republishFails
    <3> QED
      BY <2>7, <3>1, <3>2, <3>4, KeptElsewhere DEF republishFails
  <2>8. CASE ack(t)
    <3>1. \A u \in Tasks \ {t} : task'[u] = task[u]
      BY <2>8, DoneIs DEF ack
    <3> QED
      BY <2>8, <3>1, KeptElsewhere DEF ack
  <2>9. CASE reconnect(t) \/ connectionLost(t)
    <3>1. task[t].step # "idle" /\ Redeliver(t)
      BY <2>9 DEF reconnect, connectionLost
    <3>2. \A u \in Tasks \ {t} : task'[u] = task[u]
      BY <3>1, DoneIs DEF Redeliver
    <3>3. task[t].ev \in Events /\ task[t].att \in Attempt
      BY <3>1, CopyTyped
    <3>4. /\ \A f \in Events, b \in Attempt : queue[f][b] > 0 => queue'[f][b] > 0
          /\ queue'[task[t].ev][task[t].att] > 0
      BY <3>1, <3>3, AddedKeeps DEF Redeliver
    <3>5. task[t].ev = e => Kept(e)'
      BY <3>3, <3>4 DEF Kept
    <3> QED
      BY <3>1, <3>2, <3>4, <3>5, KeptElsewhere DEF Redeliver
  <2> QED
    BY <1>3, <2>1, <2>2, <2>3, <2>4, <2>5, <2>6, <2>7, <2>8, <2>9 DEF TaskStep, republishUnconfirmed
<1>4. CASE brokerAccepts
  BY <1>4, AddedKeeps DEF brokerAccepts, Kept
<1>5. CASE brokerLoses \/ UNCHANGED vars
  BY <1>1, <1>5 DEF brokerLoses, vars
<1>6. CASE \E f \in Events : writeEvent(f)
  BY <1>1, <1>6 DEF writeEvent, consumerVars
<1> QED
  BY <1>2, <1>3, <1>4, <1>5, <1>6 DEF Next

\* An event becomes published only with a copy that is kept.
LEMMA NextKeepsKept ==
  ASSUME BusAssumption, BusInv, KeptInv, [Next]_vars PROVE KeptInv'
<1> SUFFICES ASSUME Republish = "confirmed" PROVE PublishedKept'
  BY DEF KeptInv
<1>1. \A e \in Events : Kept(e) => Kept(e)'
  BY KeptStays
<1>2. PublishedKept
  BY DEF KeptInv
<1>3. \A p \in Publishers : DOMAIN batch[p].marks \subseteq Events
  BY DEF BusInv, TypeOK
<1>4. CASE UNCHANGED publisherVars
  BY <1>1, <1>2, <1>3, <1>4 DEF PublishedKept, publisherVars
<1>5. ASSUME NEW e \in Events, writeEvent(e) PROVE PublishedKept'
  <2>1. /\ UNCHANGED batch
        /\ \A f \in Events : outbox'[f].st = "published" => outbox[f].st = "published"
    BY <1>5 DEF writeEvent, Row, BusInv, TypeOK
  <2> QED
    BY <1>1, <1>2, <1>3, <2>1 DEF PublishedKept
<1>6. ASSUME NEW p \in Publishers, PublisherStep(p) \/ tickAbort(p) PROVE PublishedKept'
  <2>1. CASE tickBegin(p)
    <3>1. UNCHANGED outbox /\ DOMAIN batch'[p].marks = {}
          /\ \A q \in Publishers \ {p} : batch'[q] = batch[q]
      BY <2>1 DEF tickBegin, BusInv, PublisherInv, BatchTyped
    <3> QED
      BY <1>1, <1>2, <1>3, <3>1 DEF PublishedKept
  <2>2. CASE tickCommit(p) \/ tickAbort(p)
    <3>1. batch' = [batch EXCEPT ![p] = Closed] /\ DOMAIN Closed.marks = {}
      BY <2>2 DEF tickCommit, tickAbort, Closed
    <3>2. DOMAIN batch'[p].marks = {} /\ \A q \in Publishers \ {p} : batch'[q] = batch[q]
      BY <3>1 DEF BusInv, PublisherInv, BatchTyped
    <3>3. \A e \in Events : \/ outbox'[e] = outbox[e]
                            \/ e \in DOMAIN batch[p].marks /\ outbox'[e] = batch[p].marks[e]
      BY <2>2 DEF tickCommit, tickAbort
    <3>4. \A e \in Events : outbox'[e].st = "published" => Kept(e)
      BY <1>2, <3>3 DEF PublishedKept
    <3>5. \A q \in Publishers : \A e \in DOMAIN batch'[q].marks :
            e \in Events /\ (batch'[q].marks[e].st = "published" => Kept(e))
      BY <1>2, <1>3, <3>2 DEF PublishedKept
    <3> QED
      BY <1>1, <3>4, <3>5 DEF PublishedKept
  <2>3. ASSUME NEW e \in Events,
               \/ publishConfirmed(p, e) \/ publishRefused(p, e)
               \/ publishTimeout(p, e) \/ deadLetterInvalid(p, e)
        PROVE  PublishedKept'
    <3>1. e \in batch[p].todo /\ UNCHANGED outbox
      BY <2>3 DEF publishConfirmed, publishRefused, publishTimeout, deadLetterInvalid, First
    <3>2. PICK row \in Rows, rest \in SUBSET batch[p].todo :
            /\ Marked(p, e, row, rest)
            /\ row.st = "published" => queue' = Added(queue, e, 0)
      <4>1. CASE publishConfirmed(p, e)
        BY <4>1, <3>1, AfterFailureIs DEF publishConfirmed, BusInv
      <4>2. CASE publishRefused(p, e) \/ publishTimeout(p, e)
        BY <4>2, <3>1, AfterFailureIs DEF publishRefused, publishTimeout, BusInv
      <4>3. CASE deadLetterInvalid(p, e)
        <5>1. Row("failed", outbox[e].attempts + 1) \in Rows
          BY <3>1, AfterFailureIs DEF BusInv
        <5>2. Row("failed", outbox[e].attempts + 1).st = "failed"
          BY DEF Row
        <5>3. Marked(p, e, Row("failed", outbox[e].attempts + 1), batch[p].todo \ {e})
          BY <4>3 DEF deadLetterInvalid
        <5> QED
          BY <5>1, <5>2, <5>3
      <4> QED
        BY <2>3, <4>1, <4>2, <4>3
    <3>3. row.st = "published" => Kept(e)'
      BY <3>2, AddedKeeps, AttemptZero DEF Kept
    <3>4. /\ \A q \in Publishers \ {p} : batch'[q] = batch[q]
          /\ DOMAIN batch'[p].marks = DOMAIN batch[p].marks \cup {e}
          /\ batch'[p].marks[e] = row
          /\ \A f \in DOMAIN batch[p].marks : f # e => batch'[p].marks[f] = batch[p].marks[f]
      BY <3>1, <3>2, MarkedIs DEF BusInv, PublisherInv
    <3> QED
      BY <1>1, <1>2, <1>3, <3>1, <3>3, <3>4 DEF PublishedKept
  <2> QED
    BY <1>6, <2>1, <2>2, <2>3 DEF PublisherStep
<1>7. ASSUME NEW t \in Tasks, TaskStep(t) \/ republishFails(t) \/ connectionLost(t)
      PROVE  UNCHANGED publisherVars
  BY <1>7 DEF TaskStep, deliver, apply, reject, deadLetter, transientError, republishWithAttempt,
     republishUnconfirmed, ack, reconnect, Redeliver, republishFails, connectionLost, publisherVars
<1>8. CASE brokerAccepts \/ brokerLoses \/ UNCHANGED vars
  BY <1>4, <1>8 DEF brokerAccepts, brokerLoses, vars, publisherVars
<1> QED
  BY <1>4, <1>5, <1>6, <1>7, <1>8 DEF Next

LEMMA InvImplies ==
  ASSUME BusInv, KeptInv PROVE NothingLostOrDoubled
<1>1. AppliedOnce
  BY DEF BusInv, ConsumerInv, EffectsMarked, AppliedOnce
<1>2. ASSUME Republish = "confirmed", NEW e \in Events, outbox[e].st # "absent"
      PROVE  Live(e) \/ e \in processed \/ e \in dropped \/ Alerted(e)
  <2>1. outbox[e].st \in {"waiting", "published", "failed"}
    BY <1>2 DEF BusInv, TypeOK
  <2>2. CASE outbox[e].st = "published"
    BY <1>2, <2>2 DEF KeptInv, PublishedKept, Kept, Live, Alerted
  <2> QED
    BY <2>1, <2>2 DEF Live, Alerted
<1> QED
  BY <1>1, <1>2 DEF NothingLostOrDoubled, NothingLost

(***************************************************************************)
(* Types, for every flow of the system and every sequence of faults.       *)
(***************************************************************************)
THEOREM BusTypes == ASSUME BusAssumption PROVE Spec => []TypeOK
<1>1. Init => BusInv
  BY InitInv
<1>2. BusInv /\ [Next]_vars => BusInv'
  BY NextKeepsInv
<1>3. BusInv => TypeOK
  BY DEF BusInv
<1> QED
  BY <1>1, <1>2, <1>3, PTL DEF Spec

(***************************************************************************)
(* However the publishers and consumers interleave and fail, no handler    *)
(* takes effect twice, and the flow that confirms its copies loses nothing *)
(* (shared/outbox, payments/consumer.ts, deliveries/consumer.ts,           *)
(* documents/consumer.py).                                                 *)
(***************************************************************************)
THEOREM DeliveredOnce == ASSUME BusAssumption PROVE Spec => []NothingLostOrDoubled
<1>1. Init => BusInv /\ KeptInv
  BY InitInv
<1>2. BusInv /\ KeptInv /\ [Next]_vars => BusInv' /\ KeptInv'
  BY NextKeepsInv, NextKeepsKept
<1>3. BusInv /\ KeptInv => NothingLostOrDoubled
  BY InvImplies
<1> QED
  BY <1>1, <1>2, <1>3, PTL DEF Spec

-----------------------------------------------------------------------------
(* Every step is one of EventDelivery, or changes nothing it can see.      *)

\* Where the copies of an event are after a step they were before it.
LEMMA CopiesFrom ==
  ASSUME BusAssumption, BusInv, [Next]_vars, NEW e \in Events, Live(e)'
  PROVE  Live(e) \/ writeEvent(e)
<1>1. ASSUME UNCHANGED <<queue, transit, task>>, outbox'[e].st = "waiting" => outbox[e].st = "waiting"
      PROVE  Live(e)
  BY <1>1 DEF Live
<1>2. /\ queue \in [Events -> [Attempt -> Nat]] /\ transit \in [Events -> [Attempt -> Nat]]
  BY DEF BusInv, TypeOK
<1> DEFINE TaskTypes == [Tasks -> [step : {"idle", "handling", "acking", "retrying", "unacked"},
                                   ev : Events \cup {0}, att : Attempt]]
<1>9. task \in TaskTypes
  BY DEF BusInv, TypeOK
<1>3. ASSUME NEW f \in Events, writeEvent(f) PROVE Live(e) \/ writeEvent(e)
  <2>1. CASE e # f
    BY <1>1, <1>3, <2>1 DEF writeEvent, consumerVars, BusInv, TypeOK
  <2> QED
    BY <1>3, <2>1
<1>4. ASSUME NEW p \in Publishers, PublisherStep(p) \/ tickAbort(p) PROVE Live(e)
  <2>1. CASE tickBegin(p) \/ tickAbort(p)
    BY <1>1, <2>1 DEF tickBegin, tickAbort, consumerVars
  <2>2. CASE tickCommit(p)
    <3>1. outbox'[e].st = "waiting" => outbox[e].st = "waiting"
      BY <2>2 DEF tickCommit, BusInv, PublisherInv, ClaimsApart, Claims
    <3> QED
      BY <1>1, <2>2, <3>1 DEF tickCommit, consumerVars
  <2>3. ASSUME NEW f \in Events,
               \/ publishConfirmed(p, f) \/ publishRefused(p, f)
               \/ publishTimeout(p, f) \/ deadLetterInvalid(p, f)
        PROVE  Live(e)
    <3>1. outbox[f].st = "waiting"
      BY <2>3 DEF publishConfirmed, publishRefused, publishTimeout, deadLetterInvalid, First,
         BusInv, PublisherInv, ClaimsApart, Claims
    <3>2. CASE e = f
      BY <3>1, <3>2 DEF Live
    <3>3. CASE e # f
      <4>1. UNCHANGED <<outbox, transit, task>>
        BY <2>3 DEF publishConfirmed, publishRefused, publishTimeout, deadLetterInvalid, consumerVars
      <4>2. queue' = queue \/ queue' = Added(queue, f, 0)
        BY <2>3 DEF publishConfirmed, publishRefused, publishTimeout, deadLetterInvalid
      <4>3. queue'[e] = queue[e]
        BY <1>2, <3>3, <4>2, AddedIs, AttemptZero
      <4> QED
        BY <4>1, <4>3 DEF Live
    <3> QED
      BY <3>2, <3>3
  <2> QED
    BY <1>4, <2>1, <2>2, <2>3 DEF PublisherStep
<1>5. ASSUME NEW t \in Tasks, TaskStep(t) \/ republishFails(t) \/ connectionLost(t) PROVE Live(e)
  <2>1. UNCHANGED outbox
    BY <1>5 DEF TaskStep, deliver, apply, reject, deadLetter, transientError, republishWithAttempt,
       republishUnconfirmed, ack, reconnect, Redeliver, republishFails, connectionLost, publisherVars
  <2>2. CASE deliver(t)
    <3>1. PICK f \in Events, a \in Attempt :
            /\ queue[f][a] > 0
            /\ queue' = Removed(queue, f, a)
            /\ task' = [task EXCEPT ![t] = [step |-> "handling", ev |-> f, att |-> a]]
      BY <2>2 DEF deliver
    <3>2. CASE e = f
      BY <3>1, <3>2 DEF Live
    <3>3. CASE e # f
      <4>1. queue'[e] = queue[e]
        BY <1>2, <3>1, <3>3, RemovedIs
      <4>2. UNCHANGED transit
        BY <2>2 DEF deliver
      <4>3. \A u \in Tasks : task'[u].ev = e => task'[u] = task[u]
        BY <1>9, <3>1, <3>3
      <4> QED
        BY <2>1, <4>1, <4>2, <4>3 DEF Live
    <3> QED
      BY <3>2, <3>3
  <2>3. CASE ~deliver(t)
    <3>1. task[t].step # "idle" /\ task[t].ev \in Events
      BY <1>5, <2>3, CopyTyped DEF TaskStep, apply, reject, deadLetter, transientError,
         republishWithAttempt, republishUnconfirmed, ack, reconnect, republishFails, connectionLost
    <3>2. CASE e = task[t].ev
      BY <3>1, <3>2 DEF Live
    <3>3. CASE e # task[t].ev
      <4>1. \/ UNCHANGED <<queue, transit>>
            \/ \E a \in Attempt : queue' = Added(queue, task[t].ev, a) /\ UNCHANGED transit
            \/ \E a \in Attempt : transit' = Added(transit, task[t].ev, a) /\ UNCHANGED queue
        BY <1>5, <2>3, <3>1, CopyTyped
           DEF TaskStep, apply, reject, deadLetter, transientError, republishWithAttempt,
           republishUnconfirmed, ack, reconnect, Redeliver, republishFails, connectionLost
      <4>2. queue'[e] = queue[e] /\ transit'[e] = transit[e]
        <5> e # task[t].ev /\ task[t].ev \in Events
          BY <3>1, <3>3
        <5>1. \A a \in Attempt : /\ Added(queue, task[t].ev, a)[e] = queue[e]
                                 /\ Added(transit, task[t].ev, a)[e] = transit[e]
          BY <1>2, AddedIs
        <5> QED
          BY <4>1, <5>1
      <4>3. task' = [task EXCEPT ![t] = Idle] \/ \E s : task' = [task EXCEPT ![t].step = s]
        BY <1>5, <2>3 DEF TaskStep, Step, apply, reject, deadLetter, transientError,
           republishWithAttempt, republishUnconfirmed, ack, reconnect, Redeliver, republishFails,
           connectionLost
      <4>4. /\ \A u \in Tasks \ {t} : task'[u] = task[u]
            /\ task'[t].ev = task[t].ev \/ task'[t].step = "idle"
        BY <1>9, <4>3 DEF Idle
      <4> QED
        BY <2>1, <3>3, <4>2, <4>4 DEF Live
    <3> QED
      BY <3>2, <3>3
  <2> QED
    BY <2>2, <2>3
<1>6. CASE brokerAccepts
  <2>1. PICK f \in Events, a \in Attempt :
          /\ transit[f][a] > 0
          /\ transit' = Removed(transit, f, a)
          /\ queue' = Added(queue, f, a)
    BY <1>6 DEF brokerAccepts
  <2>2. CASE e = f
    BY <2>1, <2>2 DEF Live
  <2>3. CASE e # f
    <3>1. queue'[e] = queue[e] /\ transit'[e] = transit[e]
      BY <1>2, <2>1, <2>3, AddedIs, RemovedIs
    <3>2. UNCHANGED <<outbox, task>>
      BY <1>6 DEF brokerAccepts, publisherVars
    <3> QED
      BY <3>1, <3>2 DEF Live
  <2> QED
    BY <2>2, <2>3
<1>7. CASE brokerLoses
  <2>1. PICK f \in Events, a \in Attempt : transit[f][a] > 0 /\ transit' = Removed(transit, f, a)
    BY <1>7 DEF brokerLoses
  <2>2. CASE e = f
    BY <2>1, <2>2 DEF Live
  <2>3. CASE e # f
    BY <1>2, <1>7, <2>1, <2>3, RemovedIs DEF brokerLoses, publisherVars, Live
  <2> QED
    BY <2>2, <2>3
<1>8. CASE UNCHANGED vars
  BY <1>1, <1>8 DEF vars
<1> QED
  BY <1>3, <1>4, <1>5, <1>6, <1>7, <1>8 DEF Next

\* Rows are not unwritten, failures not forgotten, and only a live event that
\* no consumer can handle is dropped.
LEMMA Monotone ==
  ASSUME BusAssumption, BusInv, NoTraces, [Next]_vars, NEW e \in Events
  PROVE  /\ outbox[e].st = "absent" /\ ~writeEvent(e) => outbox'[e].st = "absent"
         /\ outbox'[e].st = "absent" => outbox[e].st = "absent"
         /\ outbox[e].st = "failed" => outbox'[e].st = "failed"
         /\ dlq \subseteq dlq' /\ processed \subseteq processed' /\ dropped \subseteq dropped'
         /\ e \in dropped' \ dropped => Live(e) /\ e \in Malformed
         /\ e \in processed' \ processed =>
              \E t \in Tasks : apply(t) /\ task[t].ev = e /\ Live(e) /\ e \notin Malformed
<1> DEFINE Outbox == /\ outbox[e].st = "absent" /\ ~writeEvent(e) => outbox'[e].st = "absent"
                     /\ outbox'[e].st = "absent" => outbox[e].st = "absent"
                     /\ outbox[e].st = "failed" => outbox'[e].st = "failed"
           Sets == /\ dlq \subseteq dlq' /\ processed \subseteq processed' /\ dropped \subseteq dropped'
                   /\ e \in dropped' \ dropped => Live(e) /\ e \in Malformed
                   /\ e \in processed' \ processed =>
                        \E t \in Tasks : apply(t) /\ task[t].ev = e /\ Live(e) /\ e \notin Malformed
<1>1. ASSUME NEW f \in Events, writeEvent(f) PROVE Outbox /\ Sets
  <2>1. outbox' = [outbox EXCEPT ![f] = [st |-> "waiting", attempts |-> 0]] /\ outbox[f].st = "absent"
    BY <1>1 DEF writeEvent, Row
  <2>2. outbox[f] # outbox'[f] /\ (f # e => outbox'[e] = outbox[e])
    BY <2>1 DEF BusInv, TypeOK
  <2>3. Outbox
    BY <1>1, <2>1, <2>2 DEF BusInv, TypeOK
  <2> QED
    BY <1>1, <2>3 DEF writeEvent, consumerVars
<1>2. ASSUME NEW p \in Publishers, PublisherStep(p) \/ tickAbort(p) PROVE Outbox /\ Sets
  <2>1. UNCHANGED <<dlq, processed, dropped>>
    BY <1>2 DEF PublisherStep, tickBegin, tickCommit, tickAbort, publishConfirmed, publishRefused,
       publishTimeout, deadLetterInvalid, consumerVars
  <2>2. CASE tickCommit(p)
    <3>1. \/ outbox'[e] = outbox[e]
          \/ e \in DOMAIN batch[p].marks /\ outbox'[e] = batch[p].marks[e]
      BY <2>2 DEF tickCommit
    <3>2. e \in DOMAIN batch[p].marks => outbox[e].st = "waiting" /\ batch[p].marks[e].st # "absent"
      BY DEF BusInv, PublisherInv, ClaimsApart, AttemptsLeft, Claims
    <3> QED
      BY <2>1, <3>1, <3>2
  <2>3. CASE ~tickCommit(p)
    <3>1. UNCHANGED outbox
      BY <1>2, <2>3 DEF PublisherStep, tickBegin, tickAbort, publishConfirmed, publishRefused,
         publishTimeout, deadLetterInvalid
    <3> QED
      BY <2>1, <3>1
  <2> QED
    BY <2>2, <2>3
<1>3. ASSUME NEW t \in Tasks, TaskStep(t) \/ republishFails(t) \/ connectionLost(t)
      PROVE  Outbox /\ Sets
  <2>1. UNCHANGED outbox
    BY <1>3 DEF TaskStep, deliver, apply, reject, deadLetter, transientError, republishWithAttempt,
       republishUnconfirmed, ack, reconnect, Redeliver, republishFails, connectionLost, publisherVars
  <2>2. CASE apply(t)
    BY <2>1, <2>2 DEF apply, markProcessed, Live
  <2>3. CASE reject(t)
    BY <2>1, <2>3 DEF reject, Live
  <2>4. CASE ~apply(t) /\ ~reject(t)
    <3>1. UNCHANGED <<processed, dropped>> /\ dlq \subseteq dlq'
      BY <1>3, <2>4 DEF TaskStep, deliver, deadLetter, transientError, republishWithAttempt,
         republishUnconfirmed, ack, reconnect, Redeliver, republishFails, connectionLost
    <3> QED
      BY <2>1, <3>1
  <2> QED
    BY <2>2, <2>3, <2>4
<1>4. CASE brokerAccepts \/ brokerLoses \/ UNCHANGED vars
  <2>1. UNCHANGED <<outbox, dlq, processed, dropped>>
    BY <1>4 DEF brokerAccepts, brokerLoses, vars, publisherVars
  <2> QED
    BY <2>1
<1> QED
  BY <1>1, <1>2, <1>3, <1>4 DEF Next

LEMMA NextKeepsNoTraces ==
  ASSUME BusAssumption, BusInv, NoTraces, [Next]_vars PROVE NoTraces'
<1>1. processed \subseteq Events /\ dropped \subseteq Events /\ processed' \subseteq Events
      /\ dropped' \subseteq Events
  BY NextKeepsInv DEF BusInv, TypeOK
<1>2. dropped' \subseteq Malformed /\ processed' \cap Malformed = {}
  BY <1>1, Monotone DEF NoTraces
<1>3. ASSUME NEW e \in Events, outbox'[e].st = "absent"
      PROVE  e \notin processed' \cup dropped' /\ ~Live(e)'
  <2>1. outbox[e].st = "absent" /\ e \notin processed \cup dropped /\ ~Live(e)
    BY <1>3, Monotone DEF NoTraces
  <2>2. ~writeEvent(e)
    BY <1>3 DEF writeEvent, Row, BusInv, TypeOK
  <2> QED
    BY <2>1, <2>2, Monotone, CopiesFrom
<1> QED
  BY <1>2, <1>3 DEF NoTraces

\* What EventDelivery sees of an event that is not written and not applied in
\* the step: nothing, or that it was given up.
LEMMA BuriedAtMost ==
  ASSUME BusAssumption, Republish = "confirmed", BusInv, KeptInv, NoTraces, [Next]_vars,
         NEW e \in Events, ~writeEvent(e), e \in processed' => e \in processed
  PROVE  \/ DeliveryStatus'[e] = DeliveryStatus[e]
         \/ DeliveryStatus[e] = "pending" /\ DeliveryStatus'[e] = "buried"
<1>1. outbox'[e].st = "absent" <=> outbox[e].st = "absent"
  BY Monotone
<1>2. e \in processed' <=> e \in processed
  BY Monotone
<1>3. (e \in dropped => e \in dropped') /\ (e \in dropped' \ dropped => Live(e))
  BY Monotone
<1>4. Live(e)' => Live(e)
  BY CopiesFrom
<1>5. Alerted(e) => Alerted(e)'
  BY Monotone DEF Alerted
<1>6. outbox'[e].st # "absent" =>
        Live(e)' \/ e \in processed' \/ e \in dropped' \/ Alerted(e)'
  <2>1. BusInv' /\ KeptInv'
    BY NextKeepsInv, NextKeepsKept
  <2>2. (BusInv /\ KeptInv)' => NothingLostOrDoubled'
    BY InvImplies, PTL
  <2> QED
    BY <2>1, <2>2 DEF NothingLostOrDoubled, NothingLost
<1>7. outbox[e].st # "absent" =>
        Live(e) \/ e \in processed \/ e \in dropped \/ Alerted(e)
  BY InvImplies DEF NothingLostOrDoubled, NothingLost
<1>8. DeliveryStatus[e] = IF outbox[e].st = "absent" THEN "unwritten"
                          ELSE IF e \in processed THEN "applied"
                          ELSE IF e \in dropped THEN "buried"
                          ELSE IF Live(e) THEN "pending"
                          ELSE IF Alerted(e) THEN "buried" ELSE "lost"
  BY DEF DeliveryStatus
<1>9. DeliveryStatus'[e] = IF outbox'[e].st = "absent" THEN "unwritten"
                           ELSE IF e \in processed' THEN "applied"
                           ELSE IF e \in dropped' THEN "buried"
                           ELSE IF Live(e)' THEN "pending"
                           ELSE IF Alerted(e)' THEN "buried" ELSE "lost"
  BY DEF DeliveryStatus
<1> QED
  BY <1>1, <1>2, <1>3, <1>4, <1>5, <1>6, <1>7, <1>8, <1>9

LEMMA StepIsDeliveryStep ==
  ASSUME BusAssumption, Republish = "confirmed", BusInv, KeptInv, NoTraces, [Next]_vars
  PROVE  [Delivery!Next]_DeliveryStatus
<1> DEFINE Same(e) == DeliveryStatus'[e] = DeliveryStatus[e]
           Buried(e) == DeliveryStatus[e] = "pending" /\ DeliveryStatus'[e] = "buried"
<1>1. /\ DeliveryStatus = [e \in Events |-> DeliveryStatus[e]]
      /\ DeliveryStatus' = [e \in Events |-> DeliveryStatus'[e]]
  BY DEF DeliveryStatus
<1>2. CASE \E e \in Events : writeEvent(e)
  <2>1. PICK e \in Events : writeEvent(e)
    BY <1>2
  <2>2. outbox[e].st = "absent" /\ outbox' = [outbox EXCEPT ![e] = [st |-> "waiting", attempts |-> 0]]
    BY <2>1 DEF writeEvent, Row
  <2>3. UNCHANGED <<queue, transit, task, processed, dropped, dlq>>
    BY <2>1 DEF writeEvent, consumerVars
  <2>4. ASSUME NEW f \in Events, f # e PROVE Same(f)
    <3>1. outbox'[f] = outbox[f]
      BY <2>2, <2>4
    <3>2. (Live(f)' <=> Live(f)) /\ (Alerted(f)' <=> Alerted(f))
      BY <2>3, <3>1 DEF Live, Alerted
    <3> QED
      BY <2>3, <3>1, <3>2 DEF DeliveryStatus
  <2>5. DeliveryStatus[e] = "unwritten"
    BY <2>2 DEF DeliveryStatus
  <2>6. outbox'[e].st = "waiting"
    BY <2>2 DEF BusInv, TypeOK
  <2>7. Live(e)'
    BY <2>6 DEF Live
  <2>8. e \notin processed /\ e \notin dropped
    BY <2>2 DEF NoTraces
  <2>9. DeliveryStatus'[e] = "pending"
    BY <2>3, <2>6, <2>7, <2>8 DEF DeliveryStatus
  <2>10. Delivery!Write(e)
    BY <1>1, <2>4, <2>5, <2>9 DEF Delivery!Write, Delivery!Move
  <2> QED
    BY <2>10 DEF Delivery!Next
<1>3. CASE \E t \in Tasks : apply(t)
  <2>1. PICK t \in Tasks : apply(t)
    BY <1>3
  <2> DEFINE e == task[t].ev
  <2>2. e \in Events /\ task[t].step = "handling" /\ e \notin Malformed
    BY <2>1, CopyTyped DEF apply
  <2>3. UNCHANGED <<outbox, queue, transit, dropped, dlq>> /\ processed' = processed \cup {e}
    BY <2>1 DEF apply, markProcessed, publisherVars
  <2>4. /\ task'[t].step = "acking" /\ task'[t].ev = e
        /\ \A u \in Tasks \ {t} : task'[u] = task[u]
    BY <2>1, StepIs DEF apply
  <2>5. \A f \in Events : (Live(f)' <=> Live(f)) /\ (Alerted(f)' <=> Alerted(f))
    BY <2>2, <2>3, <2>4 DEF Live, Alerted
  <2>6. \A f \in Events : f # e => Same(f)
    BY <2>3, <2>5 DEF DeliveryStatus
  <2>7. Live(e) /\ outbox[e].st # "absent" /\ e \notin dropped
    BY <2>2 DEF Live, NoTraces
  <2>8. DeliveryStatus'[e] = "applied" /\ DeliveryStatus[e] \in {"pending", "applied"}
    BY <2>2, <2>3, <2>7 DEF DeliveryStatus
  <2>9. CASE DeliveryStatus[e] = "applied"
    <3>1. \A f \in Events : Same(f)
      BY <2>6, <2>8, <2>9
    <3> QED
      BY <1>1, <3>1
  <2>10. CASE DeliveryStatus[e] = "pending"
    <3>1. Delivery!Apply(e)
      BY <1>1, <2>2, <2>6, <2>8, <2>10 DEF Delivery!Apply, Delivery!Move
    <3> QED
      BY <2>2, <3>1 DEF Delivery!Next, Delivery!Settle
  <2> QED
    BY <2>8, <2>9, <2>10
<1>4. CASE (\A e \in Events : ~writeEvent(e)) /\ (\A t \in Tasks : ~apply(t))
  <2>1. \A e \in Events : e \in processed' => e \in processed
    BY <1>4, Monotone
  <2>2. \A e \in Events : Same(e) \/ Buried(e)
    BY <1>4, <2>1, BuriedAtMost
  <2>3. CASE \A e \in Events : Same(e)
    BY <1>1, <2>3
  <2>4. CASE \E e \in Events : ~Same(e)
    <3>1. PICK e \in Events : ~Same(e)
      BY <2>4
    <3> DEFINE S == {f \in Events : ~Same(f)}
    <3>2. \A f \in S : Buried(f)
      BY <2>2
    <3>3. Delivery!Bury(S)
      BY <1>1, <3>2 DEF Delivery!Bury, Delivery!Move
    <3>4. Delivery!Settle(e)
      BY <3>1, <3>3 DEF Delivery!Settle
    <3> QED
      BY <3>1, <3>4 DEF Delivery!Next
  <2> QED
    BY <2>3, <2>4
<1> QED
  BY <1>2, <1>3, <1>4

LEMMA InitIsDeliveryInit == ASSUME Init PROVE Delivery!Init
  BY DEF Init, Row, DeliveryStatus, Delivery!Init

(***************************************************************************)
(* The outbox, the broker and the consumer implement EventDelivery: every  *)
(* step moves one event on as it promises, gives several up where an       *)
(* operator sees them, or is not visible to the services.                  *)
(***************************************************************************)
THEOREM BusImplementsDelivery ==
  ASSUME BusAssumption, Republish = "confirmed"
  PROVE  Spec => MovesAsDelivery
<1>1. Init => BusInv /\ KeptInv /\ NoTraces /\ Delivery!Init
  BY InitInv, InitIsDeliveryInit
<1>2. BusInv /\ KeptInv /\ NoTraces /\ [Next]_vars => BusInv' /\ KeptInv' /\ NoTraces'
  BY NextKeepsInv, NextKeepsKept, NextKeepsNoTraces
<1>3. BusInv /\ KeptInv /\ NoTraces /\ [Next]_vars => [Delivery!Next]_DeliveryStatus
  BY StepIsDeliveryStep
<1> QED
  BY <1>1, <1>2, <1>3, PTL DEF Spec, MovesAsDelivery
=============================================================================
