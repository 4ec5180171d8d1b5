----------------------------- MODULE Admission -----------------------------
(***************************************************************************)
(* What the work coordinator promises to the handlers and workers of the   *)
(* daemon (the contract of crates/cli/src/mcp/work.rs), without the queue, *)
(* the counters, the callbacks and the notifications that implement it: an *)
(* order to execute is placed, begins or is withdrawn, and finishes.  It   *)
(* begins only while there is room for it in its lane and for its project, *)
(* never for a control whose cancel() has returned, and never after the    *)
(* coordinator was closed.  WorkCoordinator implements this module.        *)
(***************************************************************************)
EXTENDS Naturals, FiniteSets

CONSTANTS Calls, Controls, Projects, Classes,
          Lane,       \* the bounds per class
          NoOrder

VARIABLES order,      \* the order of each call, from its placing to its end
          executing,  \* the calls whose order has begun
          cancelled,  \* the controls whose cancel() has returned
          shut        \* the coordinator admits no more

vars == <<order, executing, cancelled, shut>>

Orders == [project : Projects, class : Classes, control : Controls]

Init ==
    /\ order = [c \in Calls |-> NoOrder]
    /\ executing = {}
    /\ cancelled = {}
    /\ shut = FALSE

Place(c, o) ==
    /\ order[c] = NoOrder
    /\ order' = [order EXCEPT ![c] = o]
    /\ UNCHANGED <<executing, cancelled, shut>>

Room(o) ==
    LET lane == {c \in executing : order[c].class = o.class}
    IN  /\ Cardinality(lane) < Lane[o.class].running
        /\ Cardinality({c \in lane : order[c].project = o.project})
             < Lane[o.class].runningPerProject

Begin(c) ==
    /\ order[c] # NoOrder /\ c \notin executing
    /\ ~shut
    /\ order[c].control \notin cancelled
    /\ Room(order[c])
    /\ executing' = executing \cup {c}
    /\ UNCHANGED <<order, cancelled, shut>>

Withdraw(c) ==
    /\ order[c] # NoOrder /\ c \notin executing
    /\ order' = [order EXCEPT ![c] = NoOrder]
    /\ UNCHANGED <<executing, cancelled, shut>>

Finish(c) ==
    /\ c \in executing
    /\ executing' = executing \ {c}
    /\ order' = [order EXCEPT ![c] = NoOrder]
    /\ UNCHANGED <<cancelled, shut>>

CancelReturns(k) ==
    /\ cancelled' = cancelled \cup {k}
    /\ UNCHANGED <<order, executing, shut>>

\* The control's last holder is gone; its identity may be used again.
Forget(k) ==
    /\ \A c \in Calls : order[c] # NoOrder => order[c].control # k
    /\ cancelled' = cancelled \ {k}
    /\ UNCHANGED <<order, executing, shut>>

Shut ==
    /\ shut' = TRUE
    /\ UNCHANGED <<order, executing, cancelled>>

Next ==
    \/ \E c \in Calls, o \in Orders : Place(c, o)
    \/ \E c \in Calls : Begin(c) \/ Withdraw(c) \/ Finish(c)
    \/ \E k \in Controls : CancelReturns(k) \/ Forget(k)
    \/ Shut

Spec == Init /\ [][Next]_vars
=============================================================================
