------------------------------ MODULE MCEvents ------------------------------
(***************************************************************************)
(* The three event flows for TLC: an instance of EventBus from payments to *)
(* billing, and beside it instances for the two flows that acknowledge a   *)
(* message before its copy is confirmed.  A behaviour plays one scenario,  *)
(* that is one of the flows; the first does not leave its initial state in *)
(* the others, and the variables of the others stay at NoValue in it.      *)
(***************************************************************************)
EXTENDS EventBus, TLC

CONSTANTS NoValue,
          x1, y1, y2              \* publisher and messages of the other flows

VARIABLES scenario,
    rows, poll, waiting, unconfirmed, consuming, handled, applied, buried, refused, lost

otherVars == <<rows, poll, waiting, unconfirmed, consuming, handled, applied, buried,
               refused, lost>>
suiteVars == <<scenario, vars, otherVars>>

-----------------------------------------------------------------------------
(* documents -> billing: unconfirmed copies, payload checked at the source. *)
Deliveries == INSTANCE EventBus WITH
    Events <- {1, 2}, Malformed <- {2}, Publishers <- {x1}, Tasks <- {y1, y2},
    PublishMax <- 2, ConsumeMax <- 2, Republish <- "unconfirmed", CheckedAtSource <- TRUE,
    MaxFaults <- 2, outbox <- rows, batch <- poll, queue <- waiting, transit <- unconfirmed,
    task <- consuming, processed <- handled, effects <- applied, dlq <- buried,
    dropped <- refused, faults <- lost

(* billing -> documents: the original is acknowledged, confirmed or not.   *)
Renderings == INSTANCE EventBus WITH
    Events <- {1}, Malformed <- {}, Publishers <- {x1}, Tasks <- {y1, y2},
    PublishMax <- 1, ConsumeMax <- 3, Republish <- "ackAnyway", CheckedAtSource <- FALSE,
    MaxFaults <- 2, outbox <- rows, batch <- poll, queue <- waiting, transit <- unconfirmed,
    task <- consuming, processed <- handled, effects <- applied, dlq <- buried,
    dropped <- refused, faults <- lost

ASSUME InstanceAssumption ==
    BusAssumption /\ Deliveries!BusAssumption /\ Renderings!BusAssumption

-----------------------------------------------------------------------------
NoOther == /\ rows = NoValue /\ poll = NoValue /\ waiting = NoValue /\ unconfirmed = NoValue
           /\ consuming = NoValue /\ handled = NoValue /\ applied = NoValue
           /\ buried = NoValue /\ refused = NoValue /\ lost = NoValue

SuiteInit ==
    /\ Init
    /\ \/ scenario = "payments" /\ NoOther
       \/ scenario = "deliveries" /\ Deliveries!Init
       \/ scenario = "renderings" /\ Renderings!Init

Paying(A) == scenario = "payments" /\ A /\ UNCHANGED <<scenario, otherVars>>

SuiteNext ==
    \/ Paying(Next)
    \/ scenario = "deliveries" /\ Deliveries!Next /\ UNCHANGED <<scenario, vars>>
    \/ scenario = "renderings" /\ Renderings!Next /\ UNCHANGED <<scenario, vars>>

\* FairSpec of the first flow, when it is played.
FairSuite ==
    /\ SuiteInit /\ [][SuiteNext]_suiteVars
    /\ \A p \in Publishers : WF_suiteVars(Paying(PublisherStep(p)))
    /\ \A t \in Tasks : WF_suiteVars(Paying(TaskStep(t)))
    /\ WF_suiteVars(Paying(brokerAccepts))

-----------------------------------------------------------------------------
(* What every flow promises.  From payments to billing each event that was *)
(* written is applied or buried in the end (ImplementsDelivery); the other *)
(* two may lose an event with the broker (deliveries/consumer.ts,          *)
(* consumer.py), and still never apply one twice.                          *)
EveryFlowDelivers ==
    /\ ImplementsDelivery
    /\ [](scenario = "deliveries" => Deliveries!AppliedOnce)
    /\ [](scenario = "renderings" => Renderings!AppliedOnce)
=============================================================================
