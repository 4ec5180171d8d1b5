---------------------------- MODULE DaemonStart ----------------------------
(***************************************************************************)
(* How the shims of one executable come to share a daemon, and how a       *)
(* daemon appears and goes (crates/cli/src/daemon.rs, daemon_control.rs).  *)
(*                                                                         *)
(* Everything goes through four paths of the runtime directory: the start  *)
(* lock, the service socket, the control socket and the pid file.  Shims   *)
(* (ensure_daemon), daemons (run_daemon) and `daemon stop` are processes   *)
(* whose system calls interleave, and each of them may be killed between   *)
(* two of them.  Time is abstracted: a wait may time out at any moment.    *)
(***************************************************************************)
EXTENDS Naturals

CONSTANTS Shims, Daemons, Stoppers,   \* processes, each of which runs once
          Manual,                     \* the daemons that no shim spawns
          MaxAttempts,                \* the 3 of ensure_daemon's loop
          MaxKills,                   \* bound: processes killed
          None

ASSUME StartAssumption ==
    /\ MaxAttempts \in Nat \ {0} /\ MaxKills \in Nat
    /\ Manual \subseteq Daemons
    /\ None \notin Shims \cup Daemons

VARIABLES lock,      \* the lock file: who created it, and whether its pid is written
          sock, ctl, \* the daemon whose listener each socket file is
          pid,       \* the daemon the pid file records
          spc, attempt, child, result,  \* the shims
          dpc,       \* the daemons
          tpc,       \* the `daemon stop` commands
          kills,
          clash      \* history: a startup met another startup or a cleanup

files == <<lock, sock, ctl, pid>>
shimVars == <<spc, attempt, child, result>>
vars == <<files, shimVars, dpc, tpc, kills, clash>>

ShimPcs == {"start", "acquire", "write", "probe", "unlink", "spawn", "child", "release",
            "wait", "read", "reclaim", "connected", "failed", "dead"}
DaemonPcs == {"none", "checkctl", "checksock", "unlink", "bind", "unlinkctl", "bindctl",
              "pid", "serve", "drain", "rmpid", "rmctl", "exit", "dead"}
StopPcs == {"start", "probe", "probectl", "rmpid", "rmsock", "rmctl", "done"}

TypeOK ==
    /\ lock \in [owner : Shims, written : BOOLEAN] \cup {None}
    /\ {sock, ctl, pid} \subseteq Daemons \cup {None}
    /\ spc \in [Shims -> ShimPcs]
    /\ attempt \in [Shims -> 1..MaxAttempts]
    /\ child \in [Shims -> Daemons \cup {None}]
    /\ result \in [Shims -> {"connected", "failed"}]
    /\ dpc \in [Daemons -> DaemonPcs]
    /\ tpc \in [Stoppers -> StopPcs]
    /\ kills \in 0..MaxKills /\ clash \in BOOLEAN

Init ==
    /\ lock = None /\ sock = None /\ ctl = None /\ pid = None
    /\ spc = [s \in Shims |-> "start"]
    /\ attempt = [s \in Shims |-> 1]
    /\ child = [s \in Shims |-> None]
    /\ result = [s \in Shims |-> "failed"]
    /\ dpc = [d \in Daemons |-> "none"]
    /\ tpc = [t \in Stoppers |-> "start"]
    /\ kills = 0 /\ clash = FALSE
-----------------------------------------------------------------------------
\* The processes that exist.
ShimAlive(s) == spc[s] \notin {"failed", "dead"}
DaemonAlive(d) == dpc[d] \notin {"none", "exit", "dead"}

\* connect() succeeds: the file is there and its listener is open.
SockListens == sock # None /\ dpc[sock] \in {"unlinkctl", "bindctl", "pid", "serve", "drain",
                                             "rmpid", "rmctl"}
CtlListens == ctl # None /\ dpc[ctl] \in {"pid", "serve", "drain", "rmpid", "rmctl"}

\* daemon_pid_file_matches: the recorded process is alive and the control
\* endpoint answers for it, which a draining daemon does not.
PidMatches == pid # None /\ ctl = pid /\ dpc[pid] = "serve"

\* The shim has a StartLock.
Holding(s) == spc[s] \in {"write", "probe", "unlink", "spawn", "child", "release"}
\* The daemon has started and not got through its startup.
Starting(d) == dpc[d] \in {"checkctl", "checksock", "unlink", "bind", "unlinkctl", "bindctl", "pid"}
\* The process is about to remove files that it found dead.
Cleaning == \/ \E s \in Shims : spc[s] = "unlink"
            \/ \E t \in Stoppers : tpc[t] \in {"rmpid", "rmsock", "rmctl"}
Clash ==
    \E d \in Daemons :
        Starting(d) /\ (Cleaning \/ \E e \in Daemons \ {d} : Starting(e))

\* Every step records whether it brought a clash about.
Step(A) == A /\ clash' = (clash \/ Clash')
-----------------------------------------------------------------------------
(***************************************************************************)
(* ensure_daemon                                                           *)
(***************************************************************************)

SGoto(s, l) == spc' = [spc EXCEPT ![s] = l]

\* The first connect.
Connect(s) ==
    /\ spc[s] = "start"
    /\ SGoto(s, IF SockListens THEN "connected" ELSE "acquire")
    /\ UNCHANGED <<files, attempt, child, result, dpc, tpc, kills>>

\* StartLock::try_acquire: create_new, then the pid in a write of its own.
TryAcquire(s) ==
    /\ spc[s] = "acquire"
    /\ IF lock = None
       THEN lock' = [owner |-> s, written |-> FALSE] /\ SGoto(s, "write")
       ELSE SGoto(s, "wait") /\ UNCHANGED lock
    /\ UNCHANGED <<sock, ctl, pid, attempt, child, result, dpc, tpc, kills>>

WritePid(s) ==
    /\ spc[s] = "write"
    /\ lock' = IF lock # None /\ lock.owner = s THEN [lock EXCEPT !.written = TRUE] ELSE lock
    /\ SGoto(s, "probe")
    /\ UNCHANGED <<sock, ctl, pid, attempt, child, result, dpc, tpc, kills>>

\* remove_stale_socket: connect and exists, then the removal, which is an
\* error when the file has gone.
ProbeSocket(s) ==
    /\ spc[s] = "probe"
    /\ SGoto(s, IF sock # None /\ ~SockListens THEN "unlink" ELSE "spawn")
    /\ UNCHANGED <<files, attempt, child, result, dpc, tpc, kills>>

UnlinkSocket(s) ==
    /\ spc[s] = "unlink"
    /\ sock' = None
    /\ SGoto(s, IF sock = None THEN "release" ELSE "spawn")
    /\ UNCHANGED <<lock, ctl, pid, attempt, child, result, dpc, tpc, kills>>

\* spawn_daemon
Spawn(s, d) ==
    /\ spc[s] = "spawn"
    /\ dpc[d] = "none" /\ d \notin Manual
    /\ dpc' = [dpc EXCEPT ![d] = "checkctl"]
    /\ child' = [child EXCEPT ![s] = d]
    /\ SGoto(s, "child")
    /\ UNCHANGED <<files, attempt, result, tpc, kills>>

SpawnFails(s) ==
    /\ spc[s] = "spawn"
    /\ SGoto(s, "release")
    /\ UNCHANGED <<files, attempt, child, result, dpc, tpc, kills>>

\* wait_for_spawned_daemon: connected, or the child has exited, or the cap.
SpawnerWait(s) ==
    /\ spc[s] = "child"
    /\ result' = [result EXCEPT ![s] = IF SockListens THEN "connected" ELSE "failed"]
    /\ SGoto(s, "release")
    /\ UNCHANGED <<files, attempt, child, dpc, tpc, kills>>

\* Drop for StartLock, whoever's file is at the path.
Release(s) ==
    /\ spc[s] = "release"
    /\ lock' = None
    /\ SGoto(s, result[s])
    /\ child' = [child EXCEPT ![s] = None]
    /\ UNCHANGED <<sock, ctl, pid, attempt, result, dpc, tpc, kills>>

\* wait_for_socket of a shim without the lock: a timeout, or a pid file that
\* does not match, ends it as well.
WaitForSocket(s) ==
    /\ spc[s] = "wait"
    /\ SGoto(s, IF SockListens THEN "connected" ELSE "read")
    /\ UNCHANGED <<files, attempt, child, result, dpc, tpc, kills>>

\* The loop goes round, or ensure_daemon fails.
NextAttempt(s) ==
    IF attempt[s] < MaxAttempts
    THEN attempt' = [attempt EXCEPT ![s] = @ + 1] /\ SGoto(s, "acquire")
    ELSE SGoto(s, "failed") /\ UNCHANGED attempt

\* Mutant: a lock without a pid in it is taken for a live holder's.
ReadLockMalformedAlive(s) ==
    /\ spc[s] = "read"
    /\ IF lock # None /\ lock.written /\ ~ShimAlive(lock.owner)
       THEN SGoto(s, "reclaim") /\ UNCHANGED attempt
       ELSE NextAttempt(s)
    /\ UNCHANGED <<files, child, result, dpc, tpc, kills>>

\* clean_stale_lock: what it reads decides, and then it removes the file.
ReadLock(s) ==
    /\ spc[s] = "read"
    /\ IF lock # None /\ (lock.written => ~ShimAlive(lock.owner))
       THEN SGoto(s, "reclaim") /\ UNCHANGED attempt
       ELSE NextAttempt(s)
    /\ UNCHANGED <<files, child, result, dpc, tpc, kills>>

Reclaim(s) ==
    /\ spc[s] = "reclaim"
    /\ lock' = None
    /\ NextAttempt(s)
    /\ UNCHANGED <<sock, ctl, pid, child, result, dpc, tpc, kills>>

KillShim(s) ==
    /\ kills < MaxKills /\ spc[s] \notin {"start", "failed", "dead", "connected"}
    /\ kills' = kills + 1
    /\ SGoto(s, "dead")
    /\ UNCHANGED <<files, attempt, child, result, dpc, tpc>>
-----------------------------------------------------------------------------
(***************************************************************************)
(* run_daemon                                                              *)
(***************************************************************************)

DGoto(d, l) == dpc' = [dpc EXCEPT ![d] = l]

\* `codesage daemon`, which takes no start lock.
RunDaemon(d) ==
    /\ dpc[d] = "none" /\ d \in Manual
    /\ DGoto(d, "checkctl")
    /\ UNCHANGED <<files, shimVars, tpc, kills>>

\* Mutant: only the service socket is probed before the daemon binds.
CheckControlSkipped(d) ==
    /\ dpc[d] = "checkctl"
    /\ DGoto(d, "checksock")
    /\ UNCHANGED <<files, shimVars, tpc, kills>>

CheckControl(d) ==
    /\ dpc[d] = "checkctl"
    /\ DGoto(d, IF CtlListens THEN "exit" ELSE "checksock")
    /\ UNCHANGED <<files, shimVars, tpc, kills>>

CheckSocket(d) ==
    /\ dpc[d] = "checksock"
    /\ DGoto(d, IF SockListens THEN "exit" ELSE IF sock # None THEN "unlink" ELSE "bind")
    /\ UNCHANGED <<files, shimVars, tpc, kills>>

RemoveStale(d) ==
    /\ dpc[d] = "unlink"
    /\ sock' = None
    /\ DGoto(d, IF sock = None THEN "exit" ELSE "bind")
    /\ UNCHANGED <<lock, ctl, pid, shimVars, tpc, kills>>

\* bind fails on a path that exists; so does the daemon.
Bind(d) ==
    /\ dpc[d] = "bind"
    /\ IF sock = None THEN sock' = d /\ DGoto(d, "unlinkctl") ELSE DGoto(d, "exit") /\ UNCHANGED sock
    /\ UNCHANGED <<lock, ctl, pid, shimVars, tpc, kills>>

\* set_permissions fails when the path has gone.
RemoveStaleControl(d) ==
    /\ dpc[d] = "unlinkctl"
    /\ IF sock # None THEN ctl' = None /\ DGoto(d, "bindctl")
                     ELSE DGoto(d, "exit") /\ UNCHANGED ctl
    /\ UNCHANGED <<lock, sock, pid, shimVars, tpc, kills>>

BindControl(d) ==
    /\ dpc[d] = "bindctl"
    /\ IF ctl = None THEN ctl' = d /\ DGoto(d, "pid") ELSE DGoto(d, "exit") /\ UNCHANGED ctl
    /\ UNCHANGED <<lock, sock, pid, shimVars, tpc, kills>>

WriteDaemonPid(d) ==
    /\ dpc[d] = "pid"
    /\ IF ctl # None THEN pid' = d /\ DGoto(d, "serve") ELSE DGoto(d, "exit") /\ UNCHANGED pid
    /\ UNCHANGED <<lock, sock, ctl, shimVars, tpc, kills>>

\* A signal or the idle timeout ends the accept loop; then the drain.
Shutdown(d) ==
    /\ dpc[d] = "serve"
    /\ DGoto(d, "drain")
    /\ UNCHANGED <<files, shimVars, tpc, kills>>

\* The files at the three paths go, whoever made them; the control socket last.
RemoveSocket(d) ==
    /\ dpc[d] = "drain"
    /\ sock' = None
    /\ DGoto(d, "rmpid")
    /\ UNCHANGED <<lock, ctl, pid, shimVars, tpc, kills>>

RemovePid(d) ==
    /\ dpc[d] = "rmpid"
    /\ pid' = None
    /\ DGoto(d, "rmctl")
    /\ UNCHANGED <<lock, sock, ctl, shimVars, tpc, kills>>

RemoveControl(d) ==
    /\ dpc[d] = "rmctl"
    /\ ctl' = None
    /\ DGoto(d, "exit")
    /\ UNCHANGED <<lock, sock, pid, shimVars, tpc, kills>>

KillDaemon(d) ==
    /\ kills < MaxKills /\ DaemonAlive(d)
    /\ kills' = kills + 1
    /\ DGoto(d, "dead")
    /\ UNCHANGED <<files, shimVars, tpc>>
-----------------------------------------------------------------------------
(***************************************************************************)
(* run_daemon_stop                                                         *)
(***************************************************************************)

TGoto(t, l) == tpc' = [tpc EXCEPT ![t] = l]

\* No pid file, or a daemon that takes the authenticated request; otherwise
\* the record is stale.
Stop(t) ==
    /\ tpc[t] = "start"
    /\ TGoto(t, IF pid = None \/ PidMatches THEN "done" ELSE "probe")
    /\ dpc' = IF PidMatches THEN [dpc EXCEPT ![pid] = "drain"] ELSE dpc
    /\ UNCHANGED <<files, shimVars, kills>>

\* socket_may_be_live of one socket and then of the other.
StopProbe(t) ==
    /\ \/ tpc[t] = "probe" /\ TGoto(t, IF SockListens THEN "done" ELSE "probectl")
       \/ tpc[t] = "probectl" /\ TGoto(t, IF CtlListens THEN "done" ELSE "rmpid")
    /\ UNCHANGED <<files, shimVars, dpc, kills>>

StopRemove(t) ==
    /\ \/ tpc[t] = "rmpid" /\ pid' = None /\ TGoto(t, "rmsock") /\ UNCHANGED <<sock, ctl>>
       \/ tpc[t] = "rmsock" /\ sock' = None /\ TGoto(t, "rmctl") /\ UNCHANGED <<pid, ctl>>
       \/ tpc[t] = "rmctl" /\ ctl' = None /\ TGoto(t, "done") /\ UNCHANGED <<pid, sock>>
    /\ UNCHANGED <<lock, shimVars, dpc, kills>>
-----------------------------------------------------------------------------
ShimStep(s) ==
    \/ Connect(s) \/ TryAcquire(s) \/ WritePid(s) \/ ProbeSocket(s) \/ UnlinkSocket(s)
    \/ (\E d \in Daemons : Spawn(s, d)) \/ SpawnFails(s) \/ SpawnerWait(s) \/ Release(s)
    \/ WaitForSocket(s) \/ ReadLock(s) \/ Reclaim(s)

DaemonStep(d) ==
    \/ CheckControl(d) \/ CheckSocket(d) \/ RemoveStale(d) \/ Bind(d)
    \/ RemoveStaleControl(d) \/ BindControl(d) \/ WriteDaemonPid(d)
    \/ RemoveSocket(d) \/ RemovePid(d) \/ RemoveControl(d)

StopStep(t) == Stop(t) \/ StopProbe(t) \/ StopRemove(t)

Next ==
    \/ \E s \in Shims : Step(ShimStep(s)) \/ Step(KillShim(s))
    \/ \E d \in Daemons : Step(RunDaemon(d)) \/ Step(DaemonStep(d)) \/ Step(Shutdown(d)) \/ Step(KillDaemon(d))
    \/ \E t \in Stoppers : Step(StopStep(t))

Spec == Init /\ [][Next]_vars

\* The system runs every process that is not blocked.
FairSpec ==
    /\ Spec
    /\ \A s \in Shims : WF_vars(Step(ShimStep(s)))
    /\ \A d \in Daemons : WF_vars(Step(DaemonStep(d)))
-----------------------------------------------------------------------------
(***************************************************************************)
(* Properties                                                              *)
(***************************************************************************)

\* "Never unlink a live holder's lock: competing shims could both become
\* starters" (ensure_daemon): a lock that names its live holder goes only when
\* that holder drops it.
LiveLockKept ==
    [][lock # None /\ lock.written /\ Holding(lock.owner) /\ lock' # lock
         => spc[lock.owner] = "release"]_vars

\* Startups that meet neither another startup nor a cleanup hand the paths
\* over: a serving daemon is the only one that listens, and it owns its
\* sockets and its pid file, although every daemon that goes removes the
\* files of its key without looking whose they are.
CleanHandover ==
    ~clash =>
        \A d \in Daemons : dpc[d] = "serve" =>
            /\ sock = d /\ ctl = d /\ pid = d
            /\ \A e \in Daemons \ {d} : dpc[e] \notin {"serve", "drain", "rmpid", "rmctl"}

\* A start lock whose holder was killed, even before it wrote its pid, does
\* not outlast the wait of the next shim (clean_stale_lock), unless that shim
\* gets a connection without it.
StaleLockRecovered ==
    \A s \in Shims :
        (spc[s] = "wait" /\ lock # None /\ ~ShimAlive(lock.owner))
            ~> (\/ lock = None \/ ShimAlive(lock.owner)
                \/ spc[s] \in {"connected", "dead"})
=============================================================================
