---------------------------- MODULE EventDelivery ----------------------------
(***************************************************************************)
(* What the event bus promises a service that writes an event in its       *)
(* business transaction: the event is applied by its consumer exactly      *)
(* once, or it ends where an operator can see it.  It is never applied     *)
(* twice and it never disappears.  EventBus implements this.               *)
(***************************************************************************)
CONSTANT Events

VARIABLE status        \* Events -> how far the event has come

Init == status = [e \in Events |-> "unwritten"]

\* A step moves a set of events: one batch may give up several at once.
Move(S, from, to) ==
    /\ \A e \in S : status[e] = from
    /\ status' = [e \in Events |-> IF e \in S THEN to ELSE status[e]]

Write(e) == Move({e}, "unwritten", "pending")
Apply(e) == Move({e}, "pending", "applied")
Bury(S)  == Move(S, "pending", "buried")

Settle(e) == Apply(e) \/ \E S \in SUBSET Events : e \in S /\ Bury(S)

Next == \E e \in Events : Write(e) \/ Settle(e)

Spec == Init /\ [][Next]_status /\ \A e \in Events : WF_status(Settle(e))
==============================================================================
