---------------------------- MODULE WorkControl ----------------------------
(***************************************************************************)
(* WorkControl (crates/protocol/src/work.rs): the cancellation token that  *)
(* the daemon's request handlers, cache producers, SQLite connections and  *)
(* native inference runs share.                                            *)
(*                                                                         *)
(* The token is a reason (an atomic, 0 until the first cancel wins its     *)
(* compare-exchange) and a map of callbacks under a mutex.  cancel() is    *)
(* three separate steps: win the exchange, clone the callbacks under the   *)
(* mutex, run the clones with no lock held.  Every step below is one       *)
(* atomic access, so a registration, a deregistration and the steps of a   *)
(* canceller interleave as they do in the code.  The module only supplies  *)
(* the state and the steps; the modules that use a WorkControl (RunControl,*)
(* WorkCoordinator) say who takes them and what a callback does.           *)
(***************************************************************************)
EXTENDS Naturals

CONSTANTS Controls,   \* the WorkControl objects
          Callbacks,  \* identities of registered callbacks (next_callback ids)
          Reasons,    \* StopReason
          NoReason    \* reason == 0

ASSUME NoReasonAssumption == NoReason \notin Reasons

VARIABLES reason,     \* Inner.reason
          stage,      \* where the one winning cancel() of each control is
          callbacks,  \* Inner.callbacks
          snapshot    \* the clones the winning cancel() has yet to run

ctlVars == <<reason, stage, callbacks, snapshot>>

\* quiet: not cancelled; won: reason set, callbacks not cloned yet;
\* firing: running the clones; done: cancel() has returned.
Stages == {"quiet", "won", "firing", "done"}

CtlTypeOK ==
    /\ reason \in [Controls -> Reasons \cup {NoReason}]
    /\ stage \in [Controls -> Stages]
    /\ callbacks \in [Controls -> SUBSET Callbacks]
    /\ snapshot \in [Controls -> SUBSET Callbacks]

CtlInit ==
    /\ reason = [k \in Controls |-> NoReason]
    /\ stage = [k \in Controls |-> "quiet"]
    /\ callbacks = [k \in Controls |-> {}]
    /\ snapshot = [k \in Controls |-> {}]

\* cancel: the compare-exchange that succeeds.  A cancel that finds a reason
\* already set returns without doing anything, which is a stuttering step.
Cancel(k, r) ==
    /\ reason[k] = NoReason
    /\ reason' = [reason EXCEPT ![k] = r]
    /\ stage' = [stage EXCEPT ![k] = "won"]
    /\ UNCHANGED <<callbacks, snapshot>>

\* cancel: clone the registered callbacks under the mutex.
CloneCallbacks(k) ==
    /\ stage[k] = "won"
    /\ stage' = [stage EXCEPT ![k] = "firing"]
    /\ snapshot' = [snapshot EXCEPT ![k] = callbacks[k]]
    /\ UNCHANGED <<reason, callbacks>>

\* cancel: run one clone.  What the callback does is up to the module that
\* registered it.
RunCallback(k, x) ==
    /\ stage[k] = "firing"
    /\ x \in snapshot[k]
    /\ snapshot' = [snapshot EXCEPT ![k] = @ \ {x}]
    /\ UNCHANGED <<reason, stage, callbacks>>

\* cancel: return to the caller once every clone has run.
CancelReturns(k) ==
    /\ stage[k] = "firing"
    /\ snapshot[k] = {}
    /\ stage' = [stage EXCEPT ![k] = "done"]
    /\ UNCHANGED <<reason, callbacks, snapshot>>

\* on_cancel: whether the registration finds the control already cancelled,
\* in which case the callback runs at once and is never inserted.
LateRegistration(k) == reason[k] # NoReason

\* on_cancel: the insertion, under the mutex that CloneCallbacks takes too.
OnCancel(k, x) ==
    /\ callbacks' = [callbacks EXCEPT ![k] =
                        IF LateRegistration(k) THEN @ ELSE @ \cup {x}]
    /\ UNCHANGED <<reason, stage, snapshot>>

\* Drop for CancelRegistration.  A clone that a canceller already holds still
\* runs.
DropRegistration(k, x) ==
    /\ callbacks' = [callbacks EXCEPT ![k] = @ \ {x}]
    /\ UNCHANGED <<reason, stage, snapshot>>

\* WorkControl::new, in the slot of a control nobody holds any more.
NewControl(k) ==
    /\ stage[k] = "done"
    /\ reason' = [reason EXCEPT ![k] = NoReason]
    /\ stage' = [stage EXCEPT ![k] = "quiet"]
    /\ UNCHANGED <<callbacks, snapshot>>

\* The steps a winning cancel() takes by itself, apart from the callbacks.
CancelProgress(k) == CloneCallbacks(k) \/ CancelReturns(k)
=============================================================================
