-------------------------- MODULE DaemonStartProofs --------------------------
(***************************************************************************)
(* For any number of shims, daemons and stop commands: daemons whose       *)
(* startups keep apart hand the paths over cleanly.                        *)
(***************************************************************************)
EXTENDS DaemonStart, TLAPS

\* The daemon has been through its startup and not through its shutdown.
Past(d) == dpc[d] \in {"serve", "drain", "rmpid", "rmctl"}

\* The control socket is the last file a daemon removes, and what others look
\* at first.
ControlOwned == \A d \in Daemons : Past(d) => ctl = d

\* A daemon that has found the control socket dead is alone.
StartsAlone ==
    \A d \in Daemons : dpc[d] \in {"checksock", "unlink", "bind", "unlinkctl", "bindctl", "pid"} =>
        \A e \in Daemons : ~Past(e)

\* What the daemon has bound so far is its own.
StarterOwns ==
    \A d \in Daemons :
        /\ dpc[d] \in {"unlinkctl", "bindctl", "pid"} => sock = d
        /\ dpc[d] = "pid" => ctl = d

ServerOwns == \A d \in Daemons : dpc[d] = "serve" => sock = d /\ ctl = d /\ pid = d

\* A process that removes files it found dead finds no server.
CleanersAlone ==
    /\ \A t \in Stoppers : tpc[t] \in {"rmpid", "rmsock", "rmctl"} => \A d \in Daemons : ~Past(d)
    /\ \A s \in Shims : spc[s] = "unlink" => \A d \in Daemons : dpc[d] # "serve"

Apart == ~Clash /\ ControlOwned /\ StartsAlone /\ StarterOwns /\ ServerOwns /\ CleanersAlone

IInv == TypeOK /\ (~clash => Apart)

-----------------------------------------------------------------------------
LEMMA InitIInv == Init => IInv
<1> SUFFICES ASSUME Init PROVE IInv
  OBVIOUS
<1>1. TypeOK
  <2>1. 1 \in 1..MaxAttempts /\ 0 \in 0..MaxKills
    BY StartAssumption
  <2>2. "start" \in ShimPcs /\ "none" \in DaemonPcs /\ "start" \in StopPcs
    BY DEF ShimPcs, DaemonPcs, StopPcs
  <2>3. /\ spc \in [Shims -> ShimPcs] /\ attempt \in [Shims -> 1..MaxAttempts]
        /\ child \in [Shims -> Daemons \cup {None}]
        /\ result \in [Shims -> {"connected", "failed"}]
    BY <2>1, <2>2 DEF Init
  <2>4. dpc \in [Daemons -> DaemonPcs] /\ tpc \in [Stoppers -> StopPcs]
    BY <2>2 DEF Init
  <2> QED
    BY <2>1, <2>3, <2>4 DEF Init, TypeOK
<1>2. ~Clash
  BY DEF Init, Clash, Starting
<1>3. Apart
  BY <1>2 DEF Init, Apart, ControlOwned, StartsAlone, StarterOwns, ServerOwns, CleanersAlone, Past
<1> QED
  BY <1>1, <1>3 DEF IInv

\* Where the processes of each kind go.
LEMMA ShimMoves ==
    ASSUME TypeOK, NEW s \in Shims, NEW l \in ShimPcs, SGoto(s, l)
    PROVE  /\ spc' \in [Shims -> ShimPcs]
           /\ \A r \in Shims : r # s => spc'[r] = spc[r]
           /\ spc'[s] = l
  BY DEF TypeOK, SGoto

LEMMA DaemonMoves ==
    ASSUME TypeOK, NEW d \in Daemons, NEW l \in DaemonPcs, DGoto(d, l)
    PROVE  /\ dpc' \in [Daemons -> DaemonPcs]
           /\ \A e \in Daemons : e # d => dpc'[e] = dpc[e]
           /\ dpc'[d] = l
  BY DEF TypeOK, DGoto

-----------------------------------------------------------------------------
LEMMA ShimTypeOK ==
    ASSUME TypeOK, NEW s \in Shims, ShimStep(s) \/ KillShim(s), clash' \in BOOLEAN
    PROVE  TypeOK'
<1> USE DEF TypeOK, SGoto, files
<1>1. CASE Connect(s)
  BY <1>1 DEF Connect, ShimPcs
<1>2. CASE TryAcquire(s)
  <2>1. lock' \in [owner : Shims, written : BOOLEAN] \cup {None}
    <3>1. [owner |-> s, written |-> FALSE] \in [owner : Shims, written : BOOLEAN]
      OBVIOUS
    <3> QED
      BY <1>2, <3>1 DEF TryAcquire
  <2>2. spc' \in [Shims -> ShimPcs]
    BY <1>2 DEF TryAcquire, ShimPcs
  <2> QED
    BY <1>2, <2>1, <2>2 DEF TryAcquire
<1>3. CASE WritePid(s)
  <2>1. lock' \in [owner : Shims, written : BOOLEAN] \cup {None}
    BY <1>3 DEF WritePid
  <2> QED
    BY <1>3, <2>1 DEF WritePid, ShimPcs
<1>4. CASE ProbeSocket(s)
  BY <1>4 DEF ProbeSocket, ShimPcs
<1>5. CASE UnlinkSocket(s)
  BY <1>5 DEF UnlinkSocket, ShimPcs
<1>6. ASSUME NEW d \in Daemons, Spawn(s, d) PROVE TypeOK'
  BY <1>6 DEF Spawn, ShimPcs, DaemonPcs
<1>7. CASE SpawnFails(s)
  BY <1>7 DEF SpawnFails, ShimPcs
<1>8. CASE SpawnerWait(s)
  BY <1>8 DEF SpawnerWait, ShimPcs
<1>9. CASE Release(s)
  <2>1. result[s] \in ShimPcs
    BY DEF ShimPcs
  <2> QED
    BY <1>9, <2>1 DEF Release
<1>10. CASE WaitForSocket(s)
  BY <1>10 DEF WaitForSocket, ShimPcs
<1>11. CASE ReadLock(s)
  BY <1>11, StartAssumption DEF ReadLock, NextAttempt, ShimPcs
<1>12. CASE Reclaim(s)
  BY <1>12, StartAssumption DEF Reclaim, NextAttempt, ShimPcs
<1>13. CASE KillShim(s)
  BY <1>13, StartAssumption DEF KillShim, ShimPcs
<1> QED
  BY <1>1, <1>2, <1>3, <1>4, <1>5, <1>6, <1>7, <1>8, <1>9, <1>10, <1>11, <1>12, <1>13 DEF ShimStep

LEMMA DaemonTypeOK ==
    ASSUME TypeOK, NEW d \in Daemons,
           RunDaemon(d) \/ DaemonStep(d) \/ Shutdown(d) \/ KillDaemon(d), clash' \in BOOLEAN
    PROVE  TypeOK'
<1> USE DEF TypeOK, DGoto, files, shimVars, DaemonPcs
<1>1. CASE RunDaemon(d)
  BY <1>1 DEF RunDaemon
<1>2. CASE CheckControl(d)
  BY <1>2 DEF CheckControl
<1>3. CASE CheckSocket(d)
  BY <1>3 DEF CheckSocket
<1>4. CASE RemoveStale(d)
  BY <1>4 DEF RemoveStale
<1>5. CASE Bind(d)
  BY <1>5 DEF Bind
<1>6. CASE RemoveStaleControl(d)
  BY <1>6 DEF RemoveStaleControl
<1>7. CASE BindControl(d)
  BY <1>7 DEF BindControl
<1>8. CASE WriteDaemonPid(d)
  BY <1>8 DEF WriteDaemonPid
<1>9. CASE Shutdown(d)
  BY <1>9 DEF Shutdown
<1>10. CASE RemoveSocket(d)
  BY <1>10 DEF RemoveSocket
<1>11. CASE RemovePid(d)
  BY <1>11 DEF RemovePid
<1>12. CASE RemoveControl(d)
  BY <1>12 DEF RemoveControl
<1>13. CASE KillDaemon(d)
  BY <1>13, StartAssumption DEF KillDaemon
<1> QED
  BY <1>1, <1>2, <1>3, <1>4, <1>5, <1>6, <1>7, <1>8, <1>9, <1>10, <1>11, <1>12, <1>13
  DEF DaemonStep

LEMMA StopTypeOK ==
    ASSUME TypeOK, NEW t \in Stoppers, StopStep(t), clash' \in BOOLEAN
    PROVE  TypeOK'
<1> USE DEF TypeOK, TGoto, files, shimVars, StopPcs
<1>1. CASE Stop(t)
  BY <1>1 DEF Stop, DaemonPcs
<1>2. CASE StopProbe(t)
  BY <1>2 DEF StopProbe
<1>3. CASE StopRemove(t)
  BY <1>3 DEF StopRemove
<1> QED
  BY <1>1, <1>2, <1>3 DEF StopStep

-----------------------------------------------------------------------------
(* One step of startups that have kept apart, and still do.                *)

LEMMA ShimApart ==
    ASSUME TypeOK, Apart, ~Clash', NEW s \in Shims, ShimStep(s) \/ KillShim(s)
    PROVE  Apart'
<1> USE DEF Apart
<1>1. ASSUME UNCHANGED <<sock, ctl, pid, dpc, tpc>>,
             \A r \in Shims : spc'[r] = "unlink" => \A d \in Daemons : dpc[d] # "serve"
      PROVE  Apart'
  BY <1>1 DEF ControlOwned, StartsAlone, StarterOwns, ServerOwns, CleanersAlone, Past
<1>2. CASE ProbeSocket(s)
  <2>1. CASE sock # None /\ ~SockListens
    <3>1. \A d \in Daemons : dpc[d] # "serve"
      BY <2>1 DEF ServerOwns, SockListens
    <3> QED
      BY <1>1, <1>2, <3>1 DEF ProbeSocket, files
  <2>2. CASE ~(sock # None /\ ~SockListens)
    <3>1. \A r \in Shims : spc'[r] = "unlink" => spc[r] = "unlink"
      BY <1>2, <2>2 DEF ProbeSocket, SGoto, TypeOK
    <3> QED
      BY <1>1, <1>2, <3>1 DEF ProbeSocket, files, CleanersAlone
  <2> QED
    BY <2>1, <2>2
<1>3. CASE UnlinkSocket(s)
  <2>1. /\ \A d \in Daemons : ~Starting(d)
        /\ \A d \in Daemons : dpc[d] # "serve"
    BY <1>3 DEF UnlinkSocket, Clash, Cleaning, CleanersAlone
  <2>2. UNCHANGED <<ctl, pid, dpc, tpc>>
    BY <1>3 DEF UnlinkSocket
  <2> QED
    BY <2>1, <2>2
    DEF ControlOwned, StartsAlone, StarterOwns, ServerOwns, CleanersAlone, Past, Starting
<1>4. ASSUME NEW d \in Daemons, Spawn(s, d) PROVE Apart'
  <2>1. /\ \A e \in Daemons : e # d => dpc'[e] = dpc[e]
        /\ dpc[d] = "none" /\ dpc'[d] = "checkctl" /\ UNCHANGED <<sock, ctl, pid, tpc>>
    BY <1>4 DEF Spawn, TypeOK, files
  <2>2. \A r \in Shims : spc'[r] = "unlink" => spc[r] = "unlink"
    BY <1>4 DEF Spawn, SGoto, TypeOK
  <2> QED
    BY <2>1, <2>2 DEF ControlOwned, StartsAlone, StarterOwns, ServerOwns, CleanersAlone, Past
<1>5. ASSUME UNCHANGED <<sock, ctl, pid, dpc, tpc>>, NEW l \in ShimPcs \ {"unlink"}, SGoto(s, l)
      PROVE  Apart'
  <2>1. \A r \in Shims : spc'[r] = "unlink" => spc[r] = "unlink"
    BY <1>5 DEF SGoto, TypeOK
  <2> QED
    BY <1>1, <1>5, <2>1 DEF CleanersAlone
<1>6. CASE Connect(s) \/ TryAcquire(s) \/ WritePid(s) \/ SpawnFails(s) \/ SpawnerWait(s)
           \/ WaitForSocket(s) \/ ReadLock(s) \/ Reclaim(s) \/ KillShim(s)
  <2>1. UNCHANGED <<sock, ctl, pid, dpc, tpc>>
    BY <1>6 DEF Connect, TryAcquire, WritePid, SpawnFails, SpawnerWait, WaitForSocket, ReadLock,
                Reclaim, KillShim, files
  <2>2. \E l \in ShimPcs \ {"unlink"} : SGoto(s, l)
    BY <1>6 DEF Connect, TryAcquire, WritePid, SpawnFails, SpawnerWait, WaitForSocket, ReadLock,
                Reclaim, KillShim, NextAttempt, ShimPcs
  <2> QED
    BY <1>5, <2>1, <2>2
<1>7. CASE Release(s)
  <2>1. result[s] \in ShimPcs \ {"unlink"}
    BY DEF TypeOK, ShimPcs
  <2> QED
    BY <1>5, <1>7, <2>1 DEF Release
<1> QED
  BY <1>2, <1>3, <1>4, <1>6, <1>7 DEF ShimStep

LEMMA DaemonApart ==
    ASSUME TypeOK, Apart, ~Clash', NEW d \in Daemons,
           RunDaemon(d) \/ DaemonStep(d) \/ Shutdown(d) \/ KillDaemon(d)
    PROVE  Apart'
<1> USE DEF Apart
<1>1. \A e \in Daemons : e # d => dpc'[e] = dpc[e]
  BY DEF RunDaemon, DaemonStep, Shutdown, KillDaemon, CheckControl, CheckSocket, RemoveStale, Bind,
         RemoveStaleControl, BindControl, WriteDaemonPid, RemoveSocket, RemovePid, RemoveControl,
         DGoto, TypeOK
<1>2. UNCHANGED <<spc, tpc>>
  BY DEF RunDaemon, DaemonStep, Shutdown, KillDaemon, CheckControl, CheckSocket, RemoveStale, Bind,
         RemoveStaleControl, BindControl, WriteDaemonPid, RemoveSocket, RemovePid, RemoveControl,
         shimVars
<1>3. Starting(d) => ~Cleaning /\ \A e \in Daemons : e # d => ~Starting(e)
  BY DEF Clash
<1>4. Past(d) => \A e \in Daemons : e # d => ~Past(e)
  BY DEF ControlOwned
\* A daemon that is not past its startup, or that has just ended, needs nothing.
<1>5. ASSUME UNCHANGED <<sock, ctl, pid>>,
             dpc'[d] \in {"checkctl", "exit", "dead"}
      PROVE  Apart'
  BY <1>1, <1>2, <1>5 DEF ControlOwned, StartsAlone, StarterOwns, ServerOwns, CleanersAlone, Past
<1>6. CASE RunDaemon(d)
  BY <1>5, <1>6 DEF RunDaemon, DGoto, TypeOK, files
<1>7. CASE CheckControl(d)
  <2>1. CASE CtlListens
    BY <1>5, <1>7, <2>1 DEF CheckControl, DGoto, TypeOK, files
  <2>2. CASE ~CtlListens
    <3>1. \A e \in Daemons : ~Past(e)
      BY <2>2, StartAssumption DEF CtlListens, ControlOwned, Past
    <3>2. dpc'[d] = "checksock" /\ UNCHANGED <<sock, ctl, pid>>
      BY <1>7, <2>2 DEF CheckControl, DGoto, TypeOK, files
    <3> QED
      BY <1>1, <1>2, <3>1, <3>2
      DEF ControlOwned, StartsAlone, StarterOwns, ServerOwns, CleanersAlone, Past
  <2> QED
    BY <2>1, <2>2
\* From here to its service the daemon is alone.
<1>8. ASSUME dpc[d] \in {"checksock", "unlink", "bind", "unlinkctl", "bindctl", "pid"}
      PROVE  /\ \A e \in Daemons : ~Past(e)
             /\ \A e \in Daemons : e # d => ~Starting(e)
             /\ \A t \in Stoppers : tpc[t] \notin {"rmpid", "rmsock", "rmctl"}
             /\ \A s \in Shims : spc[s] # "unlink"
  BY <1>3, <1>8 DEF StartsAlone, Starting, Cleaning
<1>9. ASSUME dpc[d] \in {"checksock", "unlink", "bind", "unlinkctl", "bindctl", "pid"},
             dpc'[d] \in {"exit", "unlink", "bind", "unlinkctl", "bindctl", "pid"},
             dpc'[d] \in {"unlinkctl", "bindctl", "pid"} => sock' = d,
             dpc'[d] = "pid" => ctl' = d
      PROVE  Apart'
  BY <1>1, <1>2, <1>8, <1>9
  DEF ControlOwned, StartsAlone, StarterOwns, ServerOwns, CleanersAlone, Past, Starting
<1>10. CASE CheckSocket(d)
  BY <1>9, <1>10 DEF CheckSocket, DGoto, TypeOK
<1>11. CASE RemoveStale(d)
  BY <1>9, <1>11 DEF RemoveStale, DGoto, TypeOK
<1>12. CASE Bind(d)
  BY <1>9, <1>12 DEF Bind, DGoto, TypeOK
<1>13. CASE RemoveStaleControl(d)
  BY <1>9, <1>13 DEF RemoveStaleControl, DGoto, TypeOK, StarterOwns
<1>14. CASE BindControl(d)
  BY <1>9, <1>14 DEF BindControl, DGoto, TypeOK, StarterOwns
<1>15. CASE WriteDaemonPid(d)
  <2>1. /\ dpc[d] = "pid" /\ sock = d /\ ctl = d /\ d # None
    BY <1>15, StartAssumption DEF WriteDaemonPid, StarterOwns
  <2>2. dpc'[d] = "serve" /\ pid' = d /\ UNCHANGED <<sock, ctl>>
    BY <1>15, <2>1 DEF WriteDaemonPid, DGoto, TypeOK
  <2> QED
    BY <1>1, <1>2, <1>8, <2>1, <2>2
    DEF ControlOwned, StartsAlone, StarterOwns, ServerOwns, CleanersAlone, Past, Starting
\* A daemon that goes is the only one past its startup, and no startup is past
\* its look at the control socket.
<1>16. ASSUME Past(d), Past(d)', UNCHANGED ctl, dpc'[d] # "serve"
       PROVE  Apart'
  <2>1. \A e \in Daemons : /\ dpc[e] \notin {"checksock", "unlink", "bind", "unlinkctl", "bindctl", "pid"}
                           /\ e # d => ~Past(e)
    BY <1>4, <1>16 DEF StartsAlone
  <2> QED
    BY <1>1, <1>2, <1>16, <2>1
    DEF ControlOwned, StartsAlone, StarterOwns, ServerOwns, CleanersAlone, Past
<1>17. CASE Shutdown(d)
  BY <1>16, <1>17 DEF Shutdown, DGoto, TypeOK, Past, files
<1>18. CASE RemoveSocket(d)
  BY <1>16, <1>18 DEF RemoveSocket, DGoto, TypeOK, Past
<1>19. CASE RemovePid(d)
  BY <1>16, <1>19 DEF RemovePid, DGoto, TypeOK, Past
<1>20. CASE RemoveControl(d)
  <2>1. dpc[d] = "rmctl" /\ dpc'[d] = "exit" /\ UNCHANGED <<sock, pid>>
    BY <1>20 DEF RemoveControl, DGoto, TypeOK
  <2>2. \A e \in Daemons : /\ dpc[e] \notin {"checksock", "unlink", "bind", "unlinkctl", "bindctl", "pid"}
                           /\ e # d => ~Past(e)
    BY <1>4, <2>1 DEF StartsAlone, Past
  <2> QED
    BY <1>1, <1>2, <2>1, <2>2
    DEF ControlOwned, StartsAlone, StarterOwns, ServerOwns, CleanersAlone, Past
<1>21. CASE KillDaemon(d)
  BY <1>5, <1>21 DEF KillDaemon, DGoto, TypeOK, files
<1> QED
  BY <1>6, <1>7, <1>10, <1>11, <1>12, <1>13, <1>14, <1>15, <1>17, <1>18, <1>19, <1>20, <1>21
  DEF DaemonStep

LEMMA StopApart ==
    ASSUME TypeOK, Apart, ~Clash', NEW t \in Stoppers, StopStep(t)
    PROVE  Apart'
<1> USE DEF Apart
<1>1. UNCHANGED spc
  BY DEF StopStep, Stop, StopProbe, StopRemove, shimVars
<1>2. CASE Stop(t)
  <2>1. \A u \in Stoppers : tpc'[u] \in {"rmpid", "rmsock", "rmctl"} => tpc'[u] = tpc[u]
    BY <1>2 DEF Stop, TGoto, TypeOK
  <2>2. \A d \in Daemons : dpc'[d] = dpc[d] \/ (dpc[d] = "serve" /\ dpc'[d] = "drain")
    BY <1>2 DEF Stop, PidMatches, TypeOK
  <2>3. UNCHANGED <<sock, ctl, pid>>
    BY <1>2 DEF Stop, files
  <2> QED
    BY <1>1, <2>1, <2>2, <2>3
    DEF ControlOwned, StartsAlone, StarterOwns, ServerOwns, CleanersAlone, Past
<1>3. CASE StopProbe(t)
  <2>1. UNCHANGED <<sock, ctl, pid, dpc>>
    BY <1>3 DEF StopProbe, files
  <2>2. \A u \in Stoppers : tpc'[u] \in {"rmpid", "rmsock", "rmctl"} =>
           tpc'[u] = tpc[u] \/ ~CtlListens
    BY <1>3 DEF StopProbe, TGoto, TypeOK
  <2>3. ~CtlListens => \A d \in Daemons : ~Past(d)
    BY StartAssumption DEF CtlListens, ControlOwned, Past
  <2> QED
    BY <1>1, <2>1, <2>2, <2>3
    DEF ControlOwned, StartsAlone, StarterOwns, ServerOwns, CleanersAlone, Past
<1>4. CASE StopRemove(t)
  <2>1. /\ \A d \in Daemons : ~Past(d) /\ ~Starting(d)
        /\ UNCHANGED dpc
    BY <1>4 DEF StopRemove, CleanersAlone, Clash, Cleaning
  <2> QED
    BY <1>1, <2>1
    DEF ControlOwned, StartsAlone, StarterOwns, ServerOwns, CleanersAlone, Past, Starting
<1> QED
  BY <1>2, <1>3, <1>4 DEF StopStep

-----------------------------------------------------------------------------
(* The theorems.                                                           *)

LEMMA NextIInv == IInv /\ [Next]_vars => IInv'
<1> SUFFICES ASSUME IInv, [Next]_vars PROVE IInv'
  OBVIOUS
<1>1. CASE UNCHANGED vars
  <2>1. TypeOK'
    BY <1>1 DEF IInv, TypeOK, vars, files, shimVars
  <2>2. Clash' = Clash
    BY <1>1 DEF Clash, Starting, Cleaning, vars, files, shimVars
  <2> QED
    BY <1>1, <2>1, <2>2 DEF IInv, Apart, ControlOwned, StartsAlone, StarterOwns, ServerOwns,
                            CleanersAlone, Past, vars, files, shimVars
<1>2. ASSUME clash' = (clash \/ Clash') PROVE clash' \in BOOLEAN /\ (~clash' => ~clash /\ ~Clash')
  BY <1>2, Zenon
<1>3. ASSUME NEW s \in Shims, Step(ShimStep(s)) \/ Step(KillShim(s)) PROVE IInv'
  <2>1. (ShimStep(s) \/ KillShim(s)) /\ clash' = (clash \/ Clash')
    BY <1>3 DEF Step
  <2> QED
    BY <1>2, <2>1, ShimTypeOK, ShimApart DEF IInv
<1>4. ASSUME NEW d \in Daemons,
             Step(RunDaemon(d)) \/ Step(DaemonStep(d)) \/ Step(Shutdown(d)) \/ Step(KillDaemon(d))
      PROVE  IInv'
  <2>1. /\ RunDaemon(d) \/ DaemonStep(d) \/ Shutdown(d) \/ KillDaemon(d)
        /\ clash' = (clash \/ Clash')
    BY <1>4 DEF Step
  <2> QED
    BY <1>2, <2>1, DaemonTypeOK, DaemonApart DEF IInv
<1>5. ASSUME NEW t \in Stoppers, Step(StopStep(t)) PROVE IInv'
  <2>1. StopStep(t) /\ clash' = (clash \/ Clash')
    BY <1>5 DEF Step
  <2> QED
    BY <1>2, <2>1, StopTypeOK, StopApart DEF IInv
<1> QED
  BY <1>1, <1>3, <1>4, <1>5 DEF Next

\* The startup protocol's inductive invariant.
THEOREM Inductive == Spec => []IInv
  BY InitIInv, NextIInv, PTL DEF Spec

\* Every variable keeps its type.
THEOREM TypeCorrect == Spec => []TypeOK
<1>1. IInv => TypeOK
  BY DEF IInv
<1> QED
  BY <1>1, Inductive, PTL

\* With no startup meeting another startup or a cleanup, a serving daemon owns
\* its three paths and is the only one past its startup, however shims, daemons
\* and stop commands interleave and whichever of them are killed (run_daemon).
THEOREM Handover == Spec => []CleanHandover
<1>1. IInv => CleanHandover
  <2> SUFFICES ASSUME Apart, NEW d \in Daemons, dpc[d] = "serve"
               PROVE  /\ sock = d /\ ctl = d /\ pid = d
                      /\ \A e \in Daemons \ {d} : dpc[e] \notin {"serve", "drain", "rmpid", "rmctl"}
    BY DEF IInv, CleanHandover
  <2> QED
    BY DEF Apart, ServerOwns, ControlOwned, Past
<1> QED
  BY <1>1, Inductive, PTL
=============================================================================
