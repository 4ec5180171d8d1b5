-------------------------- MODULE WorkCoordinator --------------------------
(***************************************************************************)
(* The daemon's work coordinator (crates/cli/src/mcp/work.rs): admission   *)
(* of client requests, and of the executions they need, to three lanes     *)
(* (interactive, analysis, native) with global and per-project bounds.     *)
(*                                                                         *)
(* One acquire_execution call is a small program of its own: it registers  *)
(* a cancellation callback, queues, and then loops arming a notification,  *)
(* checking its control and looking, under the state mutex, whether it is  *)
(* the entry the lane admits next.  The sections under the mutex are       *)
(* atomic; the control's reason, the callbacks and the phase of an entry   *)
(* are atomics outside the mutex, so cancellers interleave with every      *)
(* step.  Leases are released by Drop, whenever their holder goes away.    *)
(***************************************************************************)
EXTENDS Naturals, FiniteSets, Sequences

CONSTANTS Calls,       \* live acquire_execution calls; a call is also its next_id
          Controls,    \* WorkControls: one per client request or cache flight
          Flights,     \* the controls of cache producers, which hold no request
          Projects, NoProject,
          Classes,     \* WorkClass
          Reasons, NoReason,
          RequestLimit, RequestsPerProject,  \* WorkLimits
          Lane,        \* WorkLimits::lane, a LaneLimits record per class
          NoWork       \* what an idle call slot holds

\* WorkLimits::validate, which new() insists on, and the finiteness of what
\* is in flight at one time.
ASSUME LimitsAssumption ==
    /\ IsFiniteSet(Calls) /\ IsFiniteSet(Controls)
    /\ Flights \subseteq Controls
    /\ NoProject \notin Projects
    /\ NoWork \notin [project : Projects, class : Classes, control : Controls]
    /\ NoReason \notin Reasons /\ "Shutdown" \in Reasons
    /\ RequestsPerProject \in Nat \ {0}
    /\ RequestLimit \in Nat /\ RequestsPerProject <= RequestLimit
    /\ Lane \in [Classes -> [running : Nat \ {0}, runningPerProject : Nat \ {0},
                             queued : Nat \ {0}, queuedPerProject : Nat \ {0}]]
    /\ \A l \in Classes : /\ Lane[l].runningPerProject <= Lane[l].running
                          /\ Lane[l].queuedPerProject <= Lane[l].queued

VARIABLES reason, stage, callbacks, snapshot,  \* the WorkControls
          shut,         \* "open", then "closing" (State.closed), then "done"
          toCancel,     \* controls shutdown() collected and has yet to cancel
          requests,     \* State.requests: the controls with a RequestLease
          attached,     \* RequestLease.project
          projects,     \* State.projects
          queued,       \* State.queued
          running,      \* State.running: the calls with an ExecutionLease
          lastProject,  \* State.last_project
          pc,           \* where each call is in acquire_execution
          work,         \* project, class and control of each call
          phase,        \* Pending.phase
          woken         \* Notified: a notify_waiters since the call armed

Ctl == INSTANCE WorkControl WITH Callbacks <- Calls

ctlVars == <<reason, stage, callbacks, snapshot>>
stateVars == <<requests, attached, projects, queued, running, lastProject>>
callVars == <<pc, work, phase, woken>>
vars == <<ctlVars, shut, toCancel, stateVars, callVars>>

closed == shut # "open"

Phases == {"PENDING", "ADMITTED", "STOPPED"}

\* The calls that still own their PendingLease's or callback's registration.
Acquiring == {"register", "enqueue", "arm", "check", "look", "wait", "drop", "unregister"}
PcValues == Acquiring \cup {"idle", "hold"}

Work == [project : Projects, class : Classes, control : Controls]
CountsRec == [requests : Nat, queued : [Classes -> Nat], running : [Classes -> Nat]]

TypeOK ==
    /\ Ctl!CtlTypeOK
    /\ shut \in {"open", "closing", "done"}
    /\ toCancel \in SUBSET Controls
    /\ requests \in SUBSET Controls
    /\ attached \in [Controls -> Projects \cup {NoProject}]
    /\ DOMAIN projects \in SUBSET Projects
    /\ projects \in [DOMAIN projects -> CountsRec]
    /\ queued \in Seq(Calls)
    /\ running \in SUBSET Calls
    /\ lastProject \in [Classes -> Projects \cup {NoProject}]
    /\ pc \in [Calls -> PcValues]
    /\ work \in [Calls -> Work \cup {NoWork}]
    /\ \A c \in Calls : pc[c] # "idle" => work[c] \in Work
    /\ phase \in [Calls -> Phases]
    /\ woken \in [Calls -> BOOLEAN]
-----------------------------------------------------------------------------
(***************************************************************************)
(* ProjectCounts and the lane test                                         *)
(***************************************************************************)

NoCounts == [requests |-> 0,
             queued |-> [l \in Classes |-> 0],
             running |-> [l \in Classes |-> 0]]

\* State.projects.get(p), with the default of a project that has no record.
Counts(p) == IF p \in DOMAIN projects THEN projects[p] ELSE NoCounts

\* entry(p).or_default() updated to n.
PutCounts(p, n) ==
    [q \in DOMAIN projects \cup {p} |-> IF q = p THEN n ELSE projects[q]]

\* prune_project(p), after p's counts became n.
PruneProject(p, n) ==
    IF n = NoCounts THEN [q \in DOMAIN projects \ {p} |-> projects[q]]
                    ELSE PutCounts(p, n)

Queued == {queued[i] : i \in 1..Len(queued)}

\* VecDeque::remove(i)
RemoveAt(i) ==
    [j \in 1..(Len(queued) - 1) |-> IF j < i THEN queued[j] ELSE queued[j + 1]]

InLane(S, l) == {c \in S : work[c].class = l}
InProject(S, p, l) == {c \in S : work[c].class = l /\ work[c].project = p}

\* Mutant: the per-project bound is off by one.
FitsOffByOne(c, l) ==
    /\ work[c].class = l
    /\ Counts(work[c].project).running[l] <= Lane[l].runningPerProject

\* The eligible closure, without its phase test.  A queued call borrows its
\* control for as long as it waits, so control.upgrade() always succeeds.
Fits(c, l) ==
    /\ work[c].class = l
    /\ Counts(work[c].project).running[l] < Lane[l].runningPerProject

PendingCalls == {c \in Calls : phase[c] = "PENDING"}

\* The positions of the entries that pass the closure, when the calls in S
\* are the ones whose phase reads PENDING.
EligiblePositions(l, S) == {i \in 1..Len(queued) : queued[i] \in S /\ Fits(queued[i], l)}

\* Those of a project other than the one the lane admitted last.
OtherProject(l, P) == {i \in P : work[queued[i]].project # lastProject[l]}

First(P, i) == i \in P /\ \A j \in P : i <= j

\* Mutant: no fallback to the project the lane admitted last.
EligibleNeverRepeats(l, c, S) ==
    LET F == OtherProject(l, EligiblePositions(l, S))
    IN  /\ Cardinality(InLane(running, l)) < Lane[l].running
        /\ \E i \in 1..Len(queued) : queued[i] = c /\ First(F, i)

\* State::eligible(l) == Some(c): the first entry of another project than the
\* last one admitted, or else the first entry.
Eligible(l, c, S) ==
    LET P == EligiblePositions(l, S)
        F == OtherProject(l, P)
    IN  /\ Cardinality(InLane(running, l)) < Lane[l].running
        /\ \E i \in 1..Len(queued) :
             queued[i] = c /\ First(IF F = {} THEN P ELSE F, i)

\* Notify::notify_waiters
NotifyWaiters == woken' = [c \in Calls |-> TRUE]

Goto(c, l) == pc' = [pc EXCEPT ![c] = l]

\* A call that ended: its locals, its phase among them, are gone.
EndCall(c) ==
    /\ Goto(c, "idle")
    /\ phase' = [phase EXCEPT ![c] = "STOPPED"]
    /\ work' = [work EXCEPT ![c] = NoWork]
-----------------------------------------------------------------------------
(***************************************************************************)
(* Request leases                                                          *)
(***************************************************************************)

\* try_request.  Its error returns change nothing.
TryRequest(k) ==
    /\ k \notin requests \cup Flights
    /\ reason[k] = NoReason
    /\ ~closed
    /\ Cardinality(requests) # RequestLimit
    /\ requests' = requests \cup {k}
    /\ UNCHANGED <<ctlVars, shut, toCancel, attached, projects, queued, running,
                   lastProject, callVars>>

\* RequestLease::attach_project, the branch that counts the request.
AttachProject(k, p) ==
    /\ k \in requests
    /\ attached[k] = NoProject
    /\ ~closed
    /\ Counts(p).requests < RequestsPerProject
    /\ projects' = PutCounts(p, [Counts(p) EXCEPT !.requests = @ + 1])
    /\ attached' = [attached EXCEPT ![k] = p]
    /\ UNCHANGED <<ctlVars, shut, toCancel, requests, queued, running, lastProject,
                   callVars>>

\* Drop for RequestLease: the handler returned or its future was dropped, so
\* none of its calls is inside acquire_execution; a worker may still hold an
\* ExecutionLease of the same control.
DropRequest(k) ==
    /\ k \in requests
    /\ \A c \in Calls : pc[c] \in Acquiring => work[c].control # k
    /\ requests' = requests \ {k}
    /\ projects' = IF attached[k] = NoProject THEN projects
                   ELSE PruneProject(attached[k],
                                     [Counts(attached[k]) EXCEPT !.requests = @ - 1])
    /\ attached' = [attached EXCEPT ![k] = NoProject]
    /\ UNCHANGED <<ctlVars, shut, toCancel, queued, running, lastProject, callVars>>
-----------------------------------------------------------------------------
(***************************************************************************)
(* acquire_execution                                                       *)
(***************************************************************************)

\* The call and its first check_control.  One handler runs its calls one
\* after the other.  (The slot of an earlier call is not taken again while a
\* canceller still holds that call's callback: ids are never reused.)
Start(c, k, p, l) ==
    /\ pc[c] = "idle"
    /\ k \in requests \cup Flights
    /\ \A d \in Calls : pc[d] \in Acquiring => work[d].control # k
    /\ \A j \in Controls : c \notin snapshot[j]
    /\ reason[k] = NoReason
    /\ Goto(c, "register")
    /\ work' = [work EXCEPT ![c] = [project |-> p, class |-> l, control |-> k]]
    /\ phase' = [phase EXCEPT ![c] = "PENDING"]
    /\ UNCHANGED <<ctlVars, shut, toCancel, stateVars, woken>>

\* Mutant: the callback only wakes the waiters.
StopPendingOnlyNotifies(c) ==
    /\ UNCHANGED phase
    /\ NotifyWaiters

\* The callback: compare_exchange(PENDING, STOPPED), then notify_waiters.
StopPending(c) ==
    /\ phase' = [phase EXCEPT ![c] = IF @ = "PENDING" THEN "STOPPED" ELSE @]
    /\ NotifyWaiters

\* on_cancel, which runs the callback itself when the control has stopped.
Register(c) ==
    /\ pc[c] = "register"
    /\ Ctl!OnCancel(work[c].control, c)
    /\ IF Ctl!LateRegistration(work[c].control)
       THEN StopPending(c) ELSE UNCHANGED <<phase, woken>>
    /\ Goto(c, "enqueue")
    /\ UNCHANGED <<shut, toCancel, stateVars, work>>

\* The queue bounds, read under the mutex.
QueueFull(c) ==
    LET p == work[c].project
        l == work[c].class
    IN  \/ Cardinality(InLane(Queued, l)) >= Lane[l].queued
        \/ Counts(p).queued[l] >= Lane[l].queuedPerProject

\* Shutdown or Saturated: only the registration is left to drop.
RejectEnqueue(c) ==
    /\ pc[c] = "enqueue"
    /\ closed \/ QueueFull(c)
    /\ Goto(c, "unregister")
    /\ UNCHANGED <<ctlVars, shut, toCancel, stateVars, work, phase, woken>>

Enqueue(c) ==
    /\ pc[c] = "enqueue"
    /\ ~closed
    /\ ~QueueFull(c)
    /\ LET p == work[c].project
       IN  projects' = PutCounts(p, [Counts(p) EXCEPT !.queued[work[c].class] = @ + 1])
    /\ queued' = Append(queued, c)
    /\ Goto(c, "arm")
    /\ UNCHANGED <<ctlVars, shut, toCancel, requests, attached, running, lastProject,
                   work, phase, woken>>

\* notified.enable()
Arm(c) ==
    /\ pc[c] = "arm"
    /\ Goto(c, "check")
    /\ woken' = [woken EXCEPT ![c] = FALSE]
    /\ UNCHANGED <<ctlVars, shut, toCancel, stateVars, work, phase>>

\* check_control(control)?
CheckControl(c) ==
    /\ pc[c] = "check"
    /\ Goto(c, IF reason[work[c].control] = NoReason THEN "look" ELSE "drop")
    /\ UNCHANGED <<ctlVars, shut, toCancel, stateVars, work, phase, woken>>

\* Under the mutex: the coordinator has closed.
LookClosed(c) ==
    /\ pc[c] = "look"
    /\ closed
    /\ Goto(c, "drop")
    /\ UNCHANGED <<ctlVars, shut, toCancel, stateVars, work, phase, woken>>

\* Mutant: the loop does not look at `closed` before it admits.
AdmitClosed(c) ==
    /\ pc[c] = "look"
    /\ Eligible(work[c].class, c, PendingCalls)
    /\ \E i \in 1..Len(queued) : queued[i] = c /\ queued' = RemoveAt(i)
    /\ phase' = [phase EXCEPT ![c] = "ADMITTED"]
    /\ LET p == work[c].project
           l == work[c].class
       IN  /\ projects' = PutCounts(p, [Counts(p) EXCEPT !.queued[l] = @ - 1,
                                                         !.running[l] = @ + 1])
           /\ lastProject' = [lastProject EXCEPT ![l] = p]
    /\ running' = running \cup {c}
    /\ NotifyWaiters
    /\ Goto(c, "drop")
    /\ UNCHANGED <<ctlVars, shut, toCancel, requests, attached, work>>

\* Under the mutex: this entry is the eligible one and its compare_exchange
\* PENDING -> ADMITTED succeeds.
Admit(c) ==
    /\ pc[c] = "look"
    /\ ~closed
    /\ Eligible(work[c].class, c, PendingCalls)
    /\ \E i \in 1..Len(queued) : queued[i] = c /\ queued' = RemoveAt(i)
    /\ phase' = [phase EXCEPT ![c] = "ADMITTED"]
    /\ LET p == work[c].project
           l == work[c].class
       IN  /\ projects' = PutCounts(p, [Counts(p) EXCEPT !.queued[l] = @ - 1,
                                                         !.running[l] = @ + 1])
           /\ lastProject' = [lastProject EXCEPT ![l] = p]
    /\ running' = running \cup {c}
    /\ NotifyWaiters
    /\ Goto(c, "drop")
    /\ UNCHANGED <<ctlVars, shut, toCancel, requests, attached, work>>

\* Under the mutex: eligible() saw this entry PENDING but the callback won the
\* exchange, so the loop goes round again.
LoseExchange(c) ==
    /\ pc[c] = "look"
    /\ ~closed
    /\ phase[c] # "PENDING"
    /\ Eligible(work[c].class, c, PendingCalls \cup {c})
    /\ Goto(c, "arm")
    /\ UNCHANGED <<ctlVars, shut, toCancel, stateVars, work, phase, woken>>

\* Under the mutex: some other entry, or none, is eligible.
Sleep(c) ==
    /\ pc[c] = "look"
    /\ ~closed
    /\ ~Eligible(work[c].class, c, PendingCalls)
    /\ Goto(c, "wait")
    /\ UNCHANGED <<ctlVars, shut, toCancel, stateVars, work, phase, woken>>

\* The notification arrived (the deadline branch of the select is a Cancel of
\* the control, whose callback notifies).
Wake(c) ==
    /\ pc[c] = "wait"
    /\ woken[c]
    /\ Goto(c, "arm")
    /\ UNCHANGED <<ctlVars, shut, toCancel, stateVars, work, phase, woken>>

\* The caller's future is dropped at its only await.
Abort(c) ==
    /\ pc[c] = "wait"
    /\ Goto(c, "drop")
    /\ UNCHANGED <<ctlVars, shut, toCancel, stateVars, work, phase, woken>>

\* Mutant: the count is given back even when the entry was already admitted.
DropPendingTwice(c) ==
    /\ pc[c] = "drop"
    /\ LET p == work[c].project
       IN  projects' = PruneProject(p, [Counts(p) EXCEPT !.queued[work[c].class] = @ - 1])
    /\ IF c \in Queued
       THEN \E i \in 1..Len(queued) : queued[i] = c /\ queued' = RemoveAt(i)
       ELSE UNCHANGED queued
    /\ NotifyWaiters
    /\ Goto(c, "unregister")
    /\ UNCHANGED <<ctlVars, shut, toCancel, requests, attached, running, lastProject,
                   work, phase>>

\* Drop for PendingLease; after an admission it finds nothing to remove.
DropPending(c) ==
    /\ pc[c] = "drop"
    /\ IF c \in Queued
       THEN LET p == work[c].project
            IN  /\ \E i \in 1..Len(queued) : queued[i] = c /\ queued' = RemoveAt(i)
                /\ projects' = PruneProject(p,
                       [Counts(p) EXCEPT !.queued[work[c].class] = @ - 1])
       ELSE UNCHANGED <<queued, projects>>
    /\ NotifyWaiters
    /\ Goto(c, "unregister")
    /\ UNCHANGED <<ctlVars, shut, toCancel, requests, attached, running, lastProject,
                   work, phase>>

\* Mutant: the registration is forgotten instead of dropped.
UnregisterLeaks(c) ==
    /\ pc[c] = "unregister"
    /\ IF c \in running THEN Goto(c, "hold") /\ UNCHANGED <<phase, work>> ELSE EndCall(c)
    /\ UNCHANGED <<ctlVars, shut, toCancel, stateVars, woken>>

\* Drop of the CancelRegistration, the last thing the call does: it returns
\* an error, or the ExecutionLease that its worker now holds.
Unregister(c) ==
    /\ pc[c] = "unregister"
    /\ Ctl!DropRegistration(work[c].control, c)
    /\ IF c \in running THEN Goto(c, "hold") /\ UNCHANGED <<phase, work>> ELSE EndCall(c)
    /\ UNCHANGED <<shut, toCancel, stateVars, woken>>

\* Mutant: an empty project record is not pruned.
ReleaseWithoutPrune(c) ==
    /\ pc[c] = "hold"
    /\ running' = running \ {c}
    /\ LET p == work[c].project
       IN  projects' = PutCounts(p, [Counts(p) EXCEPT !.running[work[c].class] = @ - 1])
    /\ NotifyWaiters
    /\ EndCall(c)
    /\ UNCHANGED <<ctlVars, shut, toCancel, requests, attached, queued, lastProject>>

\* Mutant: the waiters are not told.
ReleaseSilently(c) ==
    /\ pc[c] = "hold"
    /\ running' = running \ {c}
    /\ LET p == work[c].project
       IN  projects' = PruneProject(p, [Counts(p) EXCEPT !.running[work[c].class] = @ - 1])
    /\ EndCall(c)
    /\ UNCHANGED <<ctlVars, shut, toCancel, requests, attached, queued, lastProject, woken>>

\* Mutant: the running entry stays behind.
ReleaseKeepsRunning(c) ==
    /\ pc[c] = "hold"
    /\ LET p == work[c].project
       IN  projects' = PruneProject(p, [Counts(p) EXCEPT !.running[work[c].class] = @ - 1])
    /\ NotifyWaiters
    /\ Goto(c, "idle")
    /\ UNCHANGED <<ctlVars, shut, toCancel, requests, attached, queued, running, lastProject,
                   work, phase>>

\* Drop for ExecutionLease: the last worker that holds it exits.
Release(c) ==
    /\ pc[c] = "hold"
    /\ running' = running \ {c}
    /\ LET p == work[c].project
       IN  projects' = PruneProject(p, [Counts(p) EXCEPT !.running[work[c].class] = @ - 1])
    /\ NotifyWaiters
    /\ EndCall(c)
    /\ UNCHANGED <<ctlVars, shut, toCancel, requests, attached, queued, lastProject>>
-----------------------------------------------------------------------------
(***************************************************************************)
(* Cancellation                                                            *)
(***************************************************************************)

\* The controls somebody holds: a request, a cache flight, a worker's lease.
Held(k) ==
    \/ k \in requests \cup Flights \cup toCancel
    \/ \E c \in Calls : pc[c] # "idle" /\ work[c].control = k

\* A client, a deadline or the request's end cancels k.
CancelControl(k, r) ==
    /\ Held(k)
    /\ Ctl!Cancel(k, r)
    /\ UNCHANGED <<shut, toCancel, stateVars, callVars>>

CancelStep(k) ==
    /\ Ctl!CancelProgress(k)
    /\ UNCHANGED <<shut, toCancel, stateVars, callVars>>

CancelCallback(k, c) ==
    /\ Ctl!RunCallback(k, c)
    /\ StopPending(c)
    /\ UNCHANGED <<shut, toCancel, stateVars, pc, work>>

\* A new request or flight gets a control of its own.
Renew(k) ==
    /\ k \notin requests \cup toCancel
    /\ \A c \in Calls : pc[c] # "idle" => work[c].control # k
    /\ Ctl!NewControl(k)
    /\ UNCHANGED <<shut, toCancel, stateVars, callVars>>
-----------------------------------------------------------------------------
(***************************************************************************)
(* shutdown                                                                *)
(***************************************************************************)

\* The controls of the requests, queued calls and running executions.
LiveControls == requests \cup {work[c].control : c \in Queued \cup running}

\* Mutant: the controls of the running executions are not collected.
CloseForgetsRunning ==
    /\ shut = "open"
    /\ shut' = "closing"
    /\ toCancel' = requests \cup {work[c].control : c \in Queued}
    /\ UNCHANGED <<ctlVars, stateVars, callVars>>

\* Under the mutex: close, and collect the controls of every live entry.
Close ==
    /\ shut = "open"
    /\ shut' = "closing"
    /\ toCancel' = LiveControls
    /\ UNCHANGED <<ctlVars, stateVars, callVars>>

\* control.cancel(Shutdown), with no lock held.
CloseCancel(k) ==
    /\ k \in toCancel
    /\ toCancel' = toCancel \ {k}
    /\ IF reason[k] = NoReason THEN Ctl!Cancel(k, "Shutdown") ELSE UNCHANGED ctlVars
    /\ UNCHANGED <<shut, stateVars, callVars>>

CloseNotify ==
    /\ shut = "closing"
    /\ toCancel = {}
    /\ shut' = "done"
    /\ NotifyWaiters
    /\ UNCHANGED <<ctlVars, toCancel, stateVars, pc, work, phase>>
-----------------------------------------------------------------------------
Init ==
    /\ Ctl!CtlInit
    /\ shut = "open"
    /\ toCancel = {}
    /\ requests = {}
    /\ attached = [k \in Controls |-> NoProject]
    /\ projects = [p \in {} |-> NoCounts]
    /\ queued = <<>>
    /\ running = {}
    /\ lastProject = [l \in Classes |-> NoProject]
    /\ pc = [c \in Calls |-> "idle"]
    /\ work = [c \in Calls |-> NoWork]
    /\ phase = [c \in Calls |-> "STOPPED"]
    /\ woken = [c \in Calls |-> TRUE]

\* The steps of a call that its task takes by itself once it has started.
CallStep(c) ==
    \/ Register(c) \/ RejectEnqueue(c) \/ Enqueue(c) \/ Arm(c) \/ CheckControl(c)
    \/ LookClosed(c) \/ Admit(c) \/ LoseExchange(c) \/ Sleep(c) \/ Wake(c)
    \/ DropPending(c) \/ Unregister(c)

Next ==
    \/ \E k \in Controls : TryRequest(k) \/ DropRequest(k) \/ Renew(k)
    \/ \E k \in Controls, p \in Projects : AttachProject(k, p)
    \/ \E c \in Calls, k \in Controls, p \in Projects, l \in Classes : Start(c, k, p, l)
    \/ \E c \in Calls : CallStep(c)
    \/ \E c \in Calls : Abort(c) \/ Release(c)
    \/ \E k \in Controls, r \in Reasons \ {"Shutdown"} : CancelControl(k, r)
    \/ \E k \in Controls : CancelStep(k) \/ CloseCancel(k)
    \/ \E k \in Controls, c \in Calls : CancelCallback(k, c)
    \/ Close \/ CloseNotify

Spec == Init /\ [][Next]_vars

\* Every task and every canceller keeps running, and every worker eventually
\* drops its lease; nobody is obliged to start, to cancel or to shut down.
Fairness ==
    /\ \A c \in Calls : WF_vars(CallStep(c)) /\ WF_vars(Release(c))
    /\ \A k \in Controls : WF_vars(CancelStep(k)) /\ WF_vars(CloseCancel(k))
    /\ \A k \in Controls, c \in Calls : WF_vars(CancelCallback(k, c))
    /\ WF_vars(CloseNotify)

FairSpec == Spec /\ Fairness
-----------------------------------------------------------------------------
(***************************************************************************)
(* Properties                                                              *)
(***************************************************************************)

\* The counters a project's record keeps are the leases and entries that
\* exist, and a project has a record only while one of them is not zero.
\* Every admission bound is read from these counters and every lease is
\* returned by a Drop, possibly of an aborted future, so one missed or double
\* update would starve the project or let it past its bound for the daemon's
\* lifetime (work.rs, attach_project and the three Drop impls).
AccountingExact ==
    \A p \in Projects :
        /\ Counts(p).requests = Cardinality({k \in requests : attached[k] = p})
        /\ \A l \in Classes :
            /\ Counts(p).queued[l] = Cardinality(InProject(Queued, p, l))
            /\ Counts(p).running[l] = Cardinality(InProject(running, p, l))
        /\ p \in DOMAIN projects => projects[p] # NoCounts

\* The bounds of WorkLimits hold of what is really running, queued and open,
\* not just of the counters (acquire_execution, try_request, attach_project).
LimitsRespected ==
    /\ Cardinality(requests) <= RequestLimit
    /\ \A l \in Classes :
        /\ Cardinality(InLane(running, l)) <= Lane[l].running
        /\ Cardinality(InLane(Queued, l)) <= Lane[l].queued
    /\ \A p \in Projects :
        /\ Cardinality({k \in requests : attached[k] = p}) <= RequestsPerProject
        /\ \A l \in Classes :
            /\ Cardinality(InProject(running, p, l)) <= Lane[l].runningPerProject
            /\ Cardinality(InProject(Queued, p, l)) <= Lane[l].queuedPerProject

\* No execution is admitted for a control whose cancel() has returned, even
\* when the cancel ran between the call's checks and its registration, or
\* while it looked at the queue (on_cancel's registration race and the
\* compare_exchange in acquire_execution).
CancelledNeverAdmitted ==
    [][\A c \in Calls : c \in running' \ running => stage[work[c].control] # "done"]_vars

\* The coordinator's promise to its callers: whatever the queue, the counters,
\* the callbacks and the drops do, an execution begins only with room in its
\* lane and for its project, for a control that was not cancelled before, and
\* before shutdown; and it stays until its own lease is dropped (the contract
\* of acquire_execution, ExecutionLease and shutdown).
Promise == INSTANCE Admission
           WITH NoOrder <- NoWork, order <- work, executing <- running,
                cancelled <- {k \in Controls : stage[k] = "done"}, shut <- closed

ImplementsAdmission == Promise!Spec

\* When shutdown() returns, every request, queued call and running execution
\* that is left has been told to stop: none slipped in between the collection
\* of the controls and their cancellation (shutdown).
ShutdownReachesAll ==
    shut = "done" =>
        \A k \in LiveControls : reason[k] # NoReason

\* Cancellation callbacks do not outlive the call that registered them: a
\* control that lives as long as its request keeps none of the calls that
\* returned (Drop for CancelRegistration, on every return path).
NoLeakedCallback ==
    \A k \in Controls : \A c \in callbacks[k] :
        pc[c] \in Acquiring /\ work[c].control = k

\* The call the lane would admit next is never asleep without a wakeup on its
\* way: every change that can make an entry eligible notifies after a sleeper
\* armed (notify_waiters in the drops, in the callback and on admission).
NoLostWakeup ==
    ~closed => \A c \in Calls :
        pc[c] = "wait" /\ Eligible(work[c].class, c, PendingCalls) => woken[c]

\* The rest of the inductive invariant that AccountingExact and
\* LimitsRespected need: an entry is queued once, a call is queued from its
\* Enqueue to its admission or the drop of its PendingLease, it is in
\* `running` from its admission to the drop of its ExecutionLease, and only an
\* open request is attached to a project (PendingLease and ExecutionLease own
\* their entries).
OwnershipInv ==
    /\ \A i, j \in 1..Len(queued) : queued[i] = queued[j] => i = j
    /\ \A c \in Calls :
        /\ pc[c] \in {"arm", "check", "look", "wait"} => c \in Queued
        /\ c \in Queued => pc[c] \in {"arm", "check", "look", "wait", "drop"}
        /\ c \in running => pc[c] \in {"drop", "unregister", "hold"}
        /\ pc[c] = "hold" => c \in running
        /\ c \notin Queued \cap running
    /\ \A k \in Controls : attached[k] # NoProject => k \in requests

\* What makes CancelledNeverAdmitted inductive: a registered call that is
\* still PENDING is in the path of its control's canceller, first among the
\* callbacks, then among the clones (cancel and on_cancel in protocol/work.rs).
CancelInv ==
    /\ \A k \in Controls : reason[k] = NoReason <=> stage[k] = "quiet"
    /\ \A c \in Calls :
        pc[c] \in Acquiring \ {"register"} /\ phase[c] = "PENDING" =>
            LET k == work[c].control
            IN  \/ stage[k] \in {"quiet", "won"} /\ c \in callbacks[k]
                \/ stage[k] = "firing" /\ c \in snapshot[k]

\* What makes ShutdownReachesAll inductive: once closed, a live control has
\* been stopped or shutdown() still has it to cancel.
ShutdownInv ==
    /\ closed => \A k \in LiveControls : reason[k] # NoReason \/ k \in toCancel
    /\ shut = "done" => toCancel = {}

\* Every acquire_execution call returns, admitted or refused, as long as the
\* executions before it end: neither a lost wakeup nor the round-robin
\* preference for other projects starves a queued call.  It is checked with
\* shutdown as the only reason to stop: an endless stream of calls that queue
\* and are cancelled by their clients could keep another project's call waiting.
EveryCallReturns ==
    \A c \in Calls : (pc[c] \in Acquiring) ~> (pc[c] \in {"hold", "idle"})

\* After shutdown the coordinator drains: nothing stays queued or running.
ShutdownDrains == closed ~> (Queued = {} /\ running = {})
=============================================================================
