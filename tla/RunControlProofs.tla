-------------------------- MODULE RunControlProofs --------------------------
(***************************************************************************)
(* For any number of controls, inference runs and connections: what a      *)
(* cancellation guarantees to the runs that are guarded by it.             *)
(***************************************************************************)
EXTENDS RunControl, TLAPS

\* A control has a reason exactly from the exchange its canceller won, and a
\* late registration is one that found it.
ReasonInv ==
    /\ \A k \in Controls : reason[k] = NoReason <=> stage[k] = "quiet"
    /\ \A w \in Workers : pc[w] = "late" => reason[Of[w]] # NoReason

\* A canceller holds clones of its own control's callbacks only.
CloneInv == \A k \in Controls : \A w \in snapshot[k] : Of[w] = k

\* The registration of a run is behind it: its callback has run, or is on the
\* way of a canceller that has not come to it yet.
Covered(r) ==
    \/ signal[r]
    \/ stage[Of[r]] \in {"quiet", "won"} /\ r \in callbacks[Of[r]]
    \/ stage[Of[r]] = "firing" /\ r \in snapshot[Of[r]]

CoverInv == \A r \in Runs : pc[r] \in {"recheck", "start", "run"} => Covered(r)

\* Only a cancelled control's runs are told to terminate.
SignalInv == \A r \in Runs : signal[r] => reason[Of[r]] # NoReason

\* What a run has to report before it has ended, and that one which was
\* terminated had been told to.
ReportInv ==
    \A r \in Runs :
        /\ pc[r] \in {"check", "register", "late", "recheck", "start", "run"} =>
              cause[r] = "none" /\ outcome[r] = "none"
        /\ pc[r] = "failed" => outcome[r] = "none"
        /\ cause[r] = "terminated" => signal[r]

IInv ==
    /\ TypeOK /\ CallbacksOwned /\ ReasonInv /\ CloneInv /\ CoverInv
    /\ SignalInv /\ ReportInv /\ TerminationReportedAsStop
-----------------------------------------------------------------------------
\* Nothing is registered, cloned or told to terminate at first.
LEMMA InitIInv == Init => IInv
BY NoReasonAssumption, WorkersAssumption
   DEF Init, CtlInit, IInv, TypeOK, CtlTypeOK, CallbacksOwned, ReasonInv, CloneInv, CoverInv,
       SignalInv, ReportInv, TerminationReportedAsStop, Workers, Stages, PcValues

\* Every step keeps the state well typed.
LEMMA NextTypeOK == TypeOK /\ [Next]_vars => TypeOK'
<1> SUFFICES ASSUME TypeOK, [Next]_vars PROVE TypeOK'
  OBVIOUS
<1> USE NoReasonAssumption, WorkersAssumption
    DEF TypeOK, CtlTypeOK, ctlVars, workVars, Workers, Goto, Signal, Stages, PcValues
<1>1. ASSUME NEW k \in Controls, Expire(k) PROVE TypeOK'
  BY <1>1 DEF Expire
<1>2. ASSUME NEW k \in Controls, NEW r \in Reasons, CancelOutside(k, r) PROVE TypeOK'
  BY <1>2 DEF CancelOutside, Cancel
<1>3. ASSUME NEW k \in Controls, CancelStep(k) PROVE TypeOK'
  BY <1>3 DEF CancelStep, CancelProgress, CloneCallbacks, CancelReturns
<1>4. ASSUME NEW k \in Controls, NEW w \in Workers, FireCallback(k, w) PROVE TypeOK'
  <2>1. PICK b \in BOOLEAN : b = ((w \in Conns => pc[w] = "busy") \/ signal[w])
    OBVIOUS
  <2>2. signal' = [signal EXCEPT ![w] = b]
    BY <1>4, <2>1 DEF FireCallback
  <2> QED BY <1>4, <2>2 DEF FireCallback, RunCallback
<1>5. ASSUME NEW w \in Workers, Register(w) PROVE TypeOK'
  BY <1>5 DEF Register, OnCancel
<1>6. ASSUME NEW w \in Workers, RunLate(w) PROVE TypeOK'
  <2>1. PICK b \in BOOLEAN : b = ((w \in Conns => pc[w] = "busy") \/ signal[w])
    OBVIOUS
  <2>2. signal' = [signal EXCEPT ![w] = b]
    BY <1>6, <2>1 DEF RunLate
  <2> QED BY <1>6, <2>2 DEF RunLate
<1>7. ASSUME NEW w \in Workers, Unregister(w) PROVE TypeOK'
  BY <1>7 DEF Unregister, DropRegistration
<1>8. ASSUME NEW w \in Workers, CancelByCheck(w) PROVE TypeOK'
  BY <1>8 DEF CancelByCheck, Cancel
<1>9. ASSUME NEW r \in Runs,
             BeginRun(r) \/ FirstCheck(r) \/ Recheck(r) \/ StartRun(r) \/ RunOk(r) \/ MapError(r)
      PROVE  TypeOK'
  <2>1. CASE BeginRun(r)
    BY <2>1 DEF BeginRun
  <2>2. CASE FirstCheck(r)
    BY <2>2 DEF FirstCheck
  <2>3. CASE Recheck(r)
    BY <2>3 DEF Recheck
  <2>4. CASE RunOk(r)
    BY <2>4 DEF RunOk
  <2>5. CASE MapError(r)
    BY <2>5 DEF MapError
  <2>6. CASE StartRun(r)
    BY <2>6 DEF StartRun
  <2> QED BY <1>9, <2>1, <2>2, <2>3, <2>4, <2>5, <2>6
<1>10. ASSUME NEW r \in Runs, NEW why \in {"terminated", "fault"}, RunFails(r, why) PROVE TypeOK'
  BY <1>10 DEF RunFails
<1>11. ASSUME NEW c \in Conns, OpenConn(c) \/ Install(c) \/ BeginStatement(c) \/ EndStatement(c)
                               \/ CloseConn(c)
       PROVE  TypeOK'
  BY <1>11 DEF OpenConn, Install, BeginStatement, EndStatement, CloseConn
<1>12. CASE UNCHANGED vars
  BY <1>12 DEF vars
<1> QED
  BY <1>1, <1>2, <1>3, <1>4, <1>5, <1>6, <1>7, <1>8, <1>9, <1>10, <1>11, <1>12
  DEF Next, DeadlineTimer, WorkerStep, RunStep, ConnStep, PollProgress, Interrupted
-----------------------------------------------------------------------------
\* Every step of a worker, a canceller or a deadline keeps the invariant.
LEMMA NextIInv == IInv /\ [Next]_vars => IInv'
<1> SUFFICES ASSUME IInv, [Next]_vars PROVE IInv'
  OBVIOUS
<1>0. TypeOK'
  BY NextTypeOK DEF IInv
<1> DEFINE Rest == CallbacksOwned /\ ReasonInv /\ CloneInv /\ CoverInv
                   /\ SignalInv /\ ReportInv /\ TerminationReportedAsStop
<1> USE NoReasonAssumption, WorkersAssumption
    DEF IInv, CallbacksOwned, ReasonInv, CloneInv, CoverInv, Covered, SignalInv, ReportInv,
        TerminationReportedAsStop, TypeOK, CtlTypeOK, ctlVars, workVars, Workers, Goto
<1>1. ASSUME NEW k \in Controls, Expire(k) PROVE Rest'
  BY <1>1 DEF Expire
<1>2. ASSUME NEW k \in Controls, NEW r \in Reasons, CancelOutside(k, r) PROVE Rest'
  BY <1>2 DEF CancelOutside, Cancel
<1>3. ASSUME NEW k \in Controls, CancelStep(k) PROVE Rest'
  <2>1. CASE CloneCallbacks(k)
    BY <1>3, <2>1 DEF CancelStep, CloneCallbacks
  <2>2. CASE CancelReturns(k)
    BY <1>3, <2>2 DEF CancelStep, CancelReturns
  <2> QED BY <1>3, <2>1, <2>2 DEF CancelStep, CancelProgress
<1>4. ASSUME NEW k \in Controls, NEW w \in Workers, FireCallback(k, w) PROVE Rest'
  <2>1. \A v \in Workers : v # w => signal'[v] = signal[v]
    BY <1>4 DEF FireCallback, Signal
  <2>2. w \in Runs => signal'[w] = TRUE
    BY <1>4 DEF FireCallback, Signal
  <2>3. Of[w] = k /\ reason[k] # NoReason
    BY <1>4 DEF FireCallback, RunCallback
  <2>4. /\ UNCHANGED <<reason, stage, callbacks, pc, cause, outcome>>
        /\ snapshot' = [snapshot EXCEPT ![k] = @ \ {w}]
    BY <1>4 DEF FireCallback, RunCallback
  <2>5. CallbacksOwned' /\ ReasonInv' /\ CloneInv' /\ TerminationReportedAsStop'
    BY <2>4
  <2>6. CoverInv'
    BY <2>1, <2>2, <2>4
  <2>7. SignalInv' /\ ReportInv'
    BY <2>1, <2>2, <2>3, <2>4
  <2> QED BY <2>5, <2>6, <2>7
<1>5. ASSUME NEW w \in Workers, Register(w) PROVE Rest'
  BY <1>5 DEF Register, OnCancel, LateRegistration
<1>6. ASSUME NEW w \in Workers, RunLate(w) PROVE Rest'
  <2>1. \A v \in Workers : v # w => signal'[v] = signal[v]
    BY <1>6 DEF RunLate, Signal
  <2>2. w \in Runs => signal'[w] = TRUE
    BY <1>6 DEF RunLate, Signal
  <2> QED BY <1>6, <2>1, <2>2 DEF RunLate
<1>7. ASSUME NEW w \in Workers, Unregister(w) PROVE Rest'
  BY <1>7 DEF Unregister, DropRegistration
<1>8. ASSUME NEW w \in Workers, CancelByCheck(w) PROVE Rest'
  BY <1>8 DEF CancelByCheck, Cancel
<1>9. ASSUME NEW r \in Runs, BeginRun(r) PROVE Rest'
  BY <1>9 DEF BeginRun, Fresh
<1>10. ASSUME NEW r \in Runs, FirstCheck(r) PROVE Rest'
  BY <1>10 DEF FirstCheck
<1>11. ASSUME NEW r \in Runs, Recheck(r) PROVE Rest'
  <2>1. CASE pc' = [pc EXCEPT ![r] = "start"] /\ UNCHANGED outcome
    BY <1>11, <2>1 DEF Recheck
  <2>2. CASE /\ pc' = [pc EXCEPT ![r] = "unregister"]
             /\ outcome' = [outcome EXCEPT ![r] = "stopped"]
    BY <1>11, <2>2 DEF Recheck
  <2> QED BY <1>11, <2>1, <2>2 DEF Recheck
<1>12. ASSUME NEW r \in Runs, RunOk(r) PROVE Rest'
  BY <1>12 DEF RunOk
<1>13. ASSUME NEW r \in Runs, NEW why \in {"terminated", "fault"}, RunFails(r, why) PROVE Rest'
  BY <1>13 DEF RunFails
<1>14. ASSUME NEW r \in Runs, MapError(r) PROVE Rest'
  BY <1>14 DEF MapError, ReasonSome, ReasonNone
<1>15. ASSUME NEW c \in Conns, OpenConn(c) PROVE Rest'
  BY <1>15 DEF OpenConn, Fresh
<1>16. ASSUME NEW c \in Conns, Install(c) PROVE Rest'
  BY <1>16 DEF Install
<1>17. ASSUME NEW c \in Conns, BeginStatement(c) PROVE Rest'
  BY <1>17 DEF BeginStatement
<1>18. ASSUME NEW c \in Conns, EndStatement(c) \/ CloseConn(c) PROVE Rest'
  BY <1>18 DEF EndStatement, CloseConn
<1>19. ASSUME NEW r \in Runs, StartRun(r) PROVE Rest'
  BY <1>19 DEF StartRun
<1>20. CASE UNCHANGED vars
  BY <1>20 DEF vars
<1> QED
  BY <1>0, <1>1, <1>2, <1>3, <1>4, <1>5, <1>6, <1>7, <1>8, <1>9, <1>10, <1>11, <1>12, <1>13,
     <1>14, <1>15, <1>16, <1>17, <1>18, <1>19, <1>20
  DEF Next, DeadlineTimer, WorkerStep, RunStep, ConnStep, PollProgress, Interrupted
-----------------------------------------------------------------------------
\* The invariant the results below rest on holds throughout.
THEOREM Inductive == Spec => []IInv
BY InitIInv, NextIInv, PTL DEF Spec

\* Controls, callbacks and workers are always well typed.
THEOREM TypeCorrect == Spec => []TypeOK
BY Inductive, PTL DEF IInv

\* A worker that went away has no callback in any control, however its end
\* and a cancellation met.
THEOREM NoCallbackOutlives == Spec => []CallbacksOwned
BY Inductive, PTL DEF IInv

\* When cancel() has returned, every inference under that control that is
\* still running has been told to terminate.
THEOREM CancelReaches == Spec => []CancelledRunsTerminated
<1>1. IInv => CancelledRunsTerminated
  BY WorkersAssumption
  DEF IInv, TypeOK, CtlTypeOK, CoverInv, Covered, CancelledRunsTerminated
<1> QED BY Inductive, <1>1, PTL

\* A run that ended by its termination is reported as a stop.
THEOREM StopReported == Spec => []TerminationReportedAsStop
BY Inductive, PTL DEF IInv
=============================================================================
