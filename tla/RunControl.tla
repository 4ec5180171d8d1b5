----------------------------- MODULE RunControl -----------------------------
(***************************************************************************)
(* The workers that a WorkControl stops: a native inference run guarded by *)
(* run_guarded (crates/embed/src/run_control.rs) and a SQLite connection   *)
(* opened under a control by install_work_control                          *)
(* (crates/storage/src/db/mod.rs).                                         *)
(*                                                                         *)
(* Both register a callback and check the control again afterwards.  The   *)
(* cancellation may come from another thread between any two of their      *)
(* steps, and, because reason() cancels a control whose deadline has       *)
(* passed, from the worker's own check as well: that thread then runs the  *)
(* callbacks itself before its check returns.                              *)
(***************************************************************************)
EXTENDS WorkControl

CONSTANTS Runs,       \* threads in run_guarded
          Conns,      \* SQLite connections, each used by one thread at a time
          Of,         \* the control each worker entered (work::current)
          Other       \* a canceller that is not one of the workers

ASSUME WorkersAssumption ==
    /\ Callbacks = Runs \cup Conns /\ Runs \cap Conns = {}
    /\ Of \in [Callbacks -> Controls]
    /\ Other \notin Callbacks
    /\ "DeadlineExceeded" \in Reasons

VARIABLES expired,    \* Instant::now() >= Inner.deadline
          canceller,  \* the thread inside the winning cancel() of a control
          pc,         \* where each worker is
          signal,     \* RunOptions' terminate flag; sqlite3's interrupt flag
          cause,      \* what ended the last run: its termination or a model fault
          outcome     \* what run_guarded last returned

workVars == <<pc, signal, cause, outcome>>
vars == <<ctlVars, expired, canceller, workVars>>

Workers == Runs \cup Conns
\* A connection is "ready" between statements and "busy" inside one.
PcValues == {"idle", "check", "register", "late", "recheck", "start", "run",
             "failed", "unregister", "ready", "busy"}

TypeOK ==
    /\ CtlTypeOK
    /\ expired \in [Controls -> BOOLEAN]
    /\ canceller \in [Controls -> Workers \cup {Other}]
    /\ pc \in [Workers -> PcValues]
    /\ signal \in [Workers -> BOOLEAN]
    /\ cause \in [Runs -> {"none", "terminated", "fault"}]
    /\ outcome \in [Runs -> {"none", "ok", "error", "stopped"}]

Init ==
    /\ CtlInit
    /\ expired = [k \in Controls |-> FALSE]
    /\ canceller = [k \in Controls |-> Other]
    /\ pc = [w \in Workers |-> "idle"]
    /\ signal = [w \in Workers |-> FALSE]
    /\ cause = [r \in Runs |-> "none"]
    /\ outcome = [r \in Runs |-> "none"]

Goto(w, l) == pc' = [pc EXCEPT ![w] = l]

\* A worker's slot is used again when no canceller still holds a clone of its
\* previous callback: that clone signals the worker that registered it.
Fresh(w) == pc[w] = "idle" /\ w \notin snapshot[Of[w]]
-----------------------------------------------------------------------------
(***************************************************************************)
(* Cancellation                                                            *)
(***************************************************************************)

\* The deadline passes.
Expire(k) ==
    /\ ~expired[k]
    /\ expired' = [expired EXCEPT ![k] = TRUE]
    /\ UNCHANGED <<ctlVars, canceller, workVars>>

\* cancel() called by a client, a connection, shutdown or a cache.
CancelOutside(k, r) ==
    /\ Cancel(k, r)
    /\ canceller' = [canceller EXCEPT ![k] = Other]
    /\ UNCHANGED <<expired, workVars>>

\* stopped() of the dispatcher: its sleep_until fires and cancels.
DeadlineTimer(k) == expired[k] /\ CancelOutside(k, "DeadlineExceeded")

\* A thread that is inside cancel() goes on only when it has returned.
Free(w) == canceller[Of[w]] = w => stage[Of[w]] = "done"

\* reason() == None, reason() == Some(_), and the load that is preceded by a
\* cancel because the deadline has passed: that thread stays where it is and
\* reads the reason when its cancel() returns.
ReasonNone(w) == Free(w) /\ reason[Of[w]] = NoReason /\ ~expired[Of[w]]
ReasonSome(w) == Free(w) /\ reason[Of[w]] # NoReason
CancelByCheck(w) ==
    /\ pc[w] \in {"check", "recheck", "failed", "busy"}
    /\ expired[Of[w]]
    /\ Cancel(Of[w], "DeadlineExceeded")
    /\ canceller' = [canceller EXCEPT ![Of[w]] = w]
    /\ UNCHANGED <<expired, workVars>>

CancelStep(k) == CancelProgress(k) /\ UNCHANGED <<expired, canceller, workVars>>

\* The callbacks: RunOptions::terminate sets the flag for good, interrupt()
\* reaches only a statement that is executing.
Signal(w) ==
    signal' = [signal EXCEPT ![w] = (w \in Conns => pc[w] = "busy") \/ @]

FireCallback(k, w) ==
    /\ RunCallback(k, w)
    /\ Signal(w)
    /\ UNCHANGED <<expired, canceller, pc, cause, outcome>>
-----------------------------------------------------------------------------
(***************************************************************************)
(* Registration, common to both workers                                    *)
(***************************************************************************)

\* Mutant: the second check comes before the registration, and a late
\* registration does not run the callback.
RegisterLast(w) ==
    /\ pc[w] = "register"
    /\ OnCancel(Of[w], w)
    /\ Goto(w, IF w \in Runs THEN "run" ELSE "recheck")
    /\ UNCHANGED <<expired, canceller, signal, cause, outcome>>

\* control.on_cancel(...)
Register(w) ==
    /\ pc[w] = "register"
    /\ OnCancel(Of[w], w)
    /\ Goto(w, IF LateRegistration(Of[w]) THEN "late" ELSE "recheck")
    /\ UNCHANGED <<expired, canceller, signal, cause, outcome>>

\* on_cancel runs the callback itself when the control is already cancelled.
RunLate(w) ==
    /\ pc[w] = "late"
    /\ Signal(w)
    /\ Goto(w, "recheck")
    /\ UNCHANGED <<ctlVars, expired, canceller, cause, outcome>>

\* Mutant: the registration is forgotten instead of dropped.
UnregisterLeaks(w) ==
    /\ pc[w] = "unregister"
    /\ Goto(w, "idle")
    /\ UNCHANGED <<ctlVars, expired, canceller, signal, cause, outcome>>

\* The registration is dropped: at the end of run_guarded, or with the
\* connection whose progress handler owns it.
Unregister(w) ==
    /\ pc[w] = "unregister"
    /\ DropRegistration(Of[w], w)
    /\ Goto(w, "idle")
    /\ UNCHANGED <<expired, canceller, signal, cause, outcome>>
-----------------------------------------------------------------------------
(***************************************************************************)
(* run_guarded                                                             *)
(***************************************************************************)

\* A new run with its own RunOptions.
BeginRun(r) ==
    /\ Fresh(r)
    /\ Goto(r, "check")
    /\ signal' = [signal EXCEPT ![r] = FALSE]
    /\ cause' = [cause EXCEPT ![r] = "none"]
    /\ outcome' = [outcome EXCEPT ![r] = "none"]
    /\ UNCHANGED <<ctlVars, expired, canceller>>

\* The check before the registration.
FirstCheck(r) ==
    /\ pc[r] = "check"
    /\ \/ ReasonNone(r) /\ Goto(r, "register") /\ UNCHANGED outcome
       \/ /\ ReasonSome(r)
          /\ Goto(r, "idle")
          /\ outcome' = [outcome EXCEPT ![r] = "stopped"]
    /\ UNCHANGED <<ctlVars, expired, canceller, signal, cause>>

\* The check after it.
Recheck(r) ==
    /\ r \in Runs /\ pc[r] = "recheck"
    /\ \/ ReasonNone(r) /\ Goto(r, "start") /\ UNCHANGED outcome
       \/ /\ ReasonSome(r)
          /\ Goto(r, "unregister")
          /\ outcome' = [outcome EXCEPT ![r] = "stopped"]
    /\ UNCHANGED <<ctlVars, expired, canceller, signal, cause>>

\* run(): a cancellation since the check may have set the terminate flag, and
\* the run starts all the same.
StartRun(r) ==
    /\ pc[r] = "start"
    /\ Goto(r, "run")
    /\ UNCHANGED <<ctlVars, expired, canceller, signal, cause, outcome>>

\* The run returns its outputs.
RunOk(r) ==
    /\ pc[r] = "run"
    /\ Goto(r, "unregister")
    /\ outcome' = [outcome EXCEPT ![r] = "ok"]
    /\ UNCHANGED <<ctlVars, expired, canceller, signal, cause>>

\* The run returns an error: a fault of the model, or at the next node after
\* the terminate flag was set, its termination.
RunFails(r, why) ==
    /\ pc[r] = "run"
    /\ why = "terminated" => signal[r]
    /\ Goto(r, "failed")
    /\ cause' = [cause EXCEPT ![r] = why]
    /\ UNCHANGED <<ctlVars, expired, canceller, signal, outcome>>

\* Mutant: hands the cause of the failure to the caller.
MapErrorCause(r) ==
    /\ pc[r] = "failed"
    /\ Goto(r, "unregister")
    /\ outcome' = [outcome EXCEPT ![r] = cause[r]]
    /\ UNCHANGED <<ctlVars, expired, canceller, signal, cause>>

\* Mutant: reports the error of the run as it is.
MapErrorRaw(r) ==
    /\ pc[r] = "failed"
    /\ Goto(r, "unregister")
    /\ outcome' = [outcome EXCEPT ![r] = "error"]
    /\ UNCHANGED <<ctlVars, expired, canceller, signal, cause>>

\* The check after a failed run decides how the error is reported.
MapError(r) ==
    /\ pc[r] = "failed"
    /\ Goto(r, "unregister")
    /\ outcome' = [outcome EXCEPT ![r] = IF ReasonSome(r) THEN "stopped" ELSE "error"]
    /\ ReasonSome(r) \/ ReasonNone(r)
    /\ UNCHANGED <<ctlVars, expired, canceller, signal, cause>>
-----------------------------------------------------------------------------
(***************************************************************************)
(* install_work_control and the statements of the connection               *)
(***************************************************************************)

OpenConn(c) ==
    /\ Fresh(c)
    /\ Goto(c, "register")
    /\ signal' = [signal EXCEPT ![c] = FALSE]
    /\ UNCHANGED <<ctlVars, expired, canceller, cause, outcome>>

\* The check after the registration, then the progress handler, which takes
\* the registration over.
Install(c) ==
    /\ c \in Conns /\ pc[c] = "recheck"
    /\ Goto(c, IF ReasonSome(c) THEN "unregister" ELSE "ready")
    /\ ReasonSome(c) \/ ReasonNone(c)
    /\ UNCHANGED <<ctlVars, expired, canceller, signal, cause, outcome>>

\* sqlite3 clears the interrupt flag when a statement starts with no other
\* one executing: an interrupt() that came before is forgotten.
BeginStatement(c) ==
    /\ pc[c] = "ready"
    /\ Goto(c, "busy")
    /\ signal' = [signal EXCEPT ![c] = FALSE]
    /\ UNCHANGED <<ctlVars, expired, canceller, cause, outcome>>

\* The statement finishes, or fails because of the interrupt flag.
EndStatement(c) ==
    /\ pc[c] = "busy" /\ Free(c)
    /\ Goto(c, "ready")
    /\ UNCHANGED <<ctlVars, expired, canceller, signal, cause, outcome>>

\* Mutant: relies on interrupt() alone.
PollProgressNever(c) == FALSE /\ EndStatement(c)

\* The progress handler, every 256 opcodes, ends the statement when the
\* control has a reason.
PollProgress(c) == ReasonSome(c) /\ EndStatement(c)

Interrupted(c) == signal[c] /\ EndStatement(c)

CloseConn(c) ==
    /\ pc[c] = "ready"
    /\ Goto(c, "unregister")
    /\ UNCHANGED <<ctlVars, expired, canceller, signal, cause, outcome>>
-----------------------------------------------------------------------------
RunStep(r) ==
    \/ FirstCheck(r) \/ Recheck(r) \/ StartRun(r) \/ MapError(r)
    \/ RunFails(r, "terminated")

ConnStep(c) == Install(c) \/ PollProgress(c) \/ Interrupted(c)

WorkerStep(w) == Register(w) \/ RunLate(w) \/ Unregister(w) \/ CancelByCheck(w)

Next ==
    \/ \E k \in Controls :
         \/ Expire(k) \/ DeadlineTimer(k) \/ CancelStep(k)
         \/ \E r \in Reasons \ {"DeadlineExceeded"} : CancelOutside(k, r)
         \/ \E w \in Workers : FireCallback(k, w)
    \/ \E w \in Workers : WorkerStep(w)
    \/ \E r \in Runs : BeginRun(r) \/ RunStep(r) \/ RunOk(r) \/ RunFails(r, "fault")
    \/ \E c \in Conns : \/ OpenConn(c) \/ ConnStep(c) \/ BeginStatement(c)
                        \/ EndStatement(c) \/ CloseConn(c)

Spec == Init /\ [][Next]_vars

(***************************************************************************)
(* The runtime keeps running a cancel() it began and the code after each   *)
(* call of a worker; a terminated run and an interrupted statement stop at *)
(* their next node or opcode.  Nothing obliges a run or a statement to end *)
(* by itself, a client to cancel, or a worker to begin.                    *)
(***************************************************************************)
FairSpec ==
    /\ Spec
    /\ \A k \in Controls : /\ WF_vars(DeadlineTimer(k)) /\ WF_vars(CancelStep(k))
                           /\ \A w \in Workers : WF_vars(FireCallback(k, w))
    /\ \A w \in Workers : WF_vars(WorkerStep(w))
    /\ \A r \in Runs : WF_vars(RunStep(r))
    /\ \A c \in Conns : WF_vars(ConnStep(c))
-----------------------------------------------------------------------------
(***************************************************************************)
(* Properties                                                              *)
(***************************************************************************)

\* Once cancel() has returned, every inference run still in progress under
\* that control has had its terminate flag set, however the cancellation fell
\* between the checks and the registration of run_guarded.
CancelledRunsTerminated ==
    \A r \in Runs : pc[r] = "run" /\ stage[Of[r]] = "done" => signal[r]

\* A run that ended because it was terminated is reported as WorkStopped and
\* never as a fault of the model.
TerminationReportedAsStop ==
    \A r \in Runs : cause[r] = "terminated" => outcome[r] \in {"none", "stopped"}

\* A worker that went away leaves no callback behind in its control.
CallbacksOwned ==
    \A k \in Controls : \A w \in callbacks[k] :
        /\ Of[w] = k
        /\ pc[w] \in {"recheck", "start", "run", "failed", "unregister", "ready", "busy"}

\* A cancelled or expired control stops the inference run or the statement
\* that executes under it, an interrupt() that came too early included.
CancellationStopsWork ==
    \A w \in Workers :
        pc[w] \in {"run", "busy"} /\ (reason[Of[w]] # NoReason \/ expired[Of[w]])
            ~> pc[w] \notin {"run", "busy"}
=============================================================================
