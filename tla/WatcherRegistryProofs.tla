----------------------- MODULE WatcherRegistryProofs -----------------------
(***************************************************************************)
(* For any number of clients, watchers, configurations and changes of the  *)
(* project: who may act on a root's watcher, and with what.                *)
(***************************************************************************)
EXTENDS WatcherRegistry, FiniteSetTheorems, TLAPS

\* What a call carries in each of its states.
ShapeInv ==
    /\ \A c \in Clients :
        /\ call[c].pc \in {"idle", "acquire"} => call[c].slot = None
        /\ call[c].pc \in {"resolve", "lock", "decide", "reserve", "wait", "spawn", "stop",
                           "stopwait", "unlock"} => call[c].slot # None
        /\ call[c].pc \in {"read", "acquire", "lock", "decide", "reserve", "wait", "spawn"} =>
              call[c].state # None
        /\ call[c].pc \in {"reserve", "wait", "spawn"} => call[c].state.value \in Keys
        /\ call[c].pc \in {"wait", "spawn", "stopwait"} => call[c].target # None
    /\ \A c \in Clients : stop[c].pc = "wait" => stop[c].target # None

\* A call that has the root's lifecycle lock.
Holding(c) == call[c].slot # None /\ call[c].pc # "lock"

\* Every lease is of the lock in the map, and that lock has one holder.
LockInv ==
    /\ \A c \in Clients : call[c].slot # None => call[c].slot = lease
    /\ \A c \in Clients : Holding(c) => owner[call[c].slot] = c

\* A watcher that looks alive is the registry's, or was told to stop before it
\* was detached.
AliveInv ==
    \A w \in Watchers :
        /\ watcher[w].running => Alive(w)
        /\ Alive(w) => OwnedBy(w) \/ (watcher[w].detached /\ Signalled(w))

\* A reservation is its call's until the thread exists, and a watcher that a
\* call waits for has been told to stop.
TargetInv ==
    \A c \in Clients :
        /\ call[c].pc = "spawn" =>
              /\ Alive(call[c].target) /\ ~watcher[call[c].target].running
              /\ OwnedBy(call[c].target)
        /\ call[c].pc = "wait" /\ Alive(call[c].target) => Signalled(call[c].target)

\* No state is newer than config.toml, and one that a call resolved under the
\* lifecycle lock is as new as anything that was acted on.
StampInv ==
    /\ decided <= config.stamp
    /\ cache # None => cache.stamp <= config.stamp
    /\ \A c \in Clients :
        /\ call[c].state # None => call[c].state.stamp <= config.stamp
        /\ Holding(c) /\ call[c].pc \in {"read", "decide", "reserve", "wait", "spawn"} =>
              call[c].state.stamp >= decided

\* Only a connected client has been left with a watcher.
AssuredInv == \A c \in Clients : c \notin connected => assured[c] = None

\* With no client connected and no stop about to look at the registry, what
\* lives was told to stop or came after the last client.
AbsenceInv ==
    connected = {} /\ (\A c \in Clients : stop[c].pc # "signal") =>
        \A w \in Watchers : Alive(w) => Signalled(w) \/ watcher[w].unattended

IInv ==
    /\ TypeOK /\ ShapeInv /\ LockInv /\ AliveInv /\ TargetInv /\ StampInv
    /\ AssuredInv /\ AbsenceInv /\ NoPhantomWatcher /\ CachedConfigCurrent /\ ClientKeepsWatcher

-----------------------------------------------------------------------------
LEMMA InitIInv == Init => IInv
<1> SUFFICES ASSUME Init PROVE IInv
  OBVIOUS
<1> USE RegistryAssumption DEF Init, Idle, NoStop, Forgotten
<1>1. TypeOK
  BY DEF TypeOK, States, Configs, Flags, Calls, PCs
<1>2. ShapeInv /\ LockInv
  BY DEF ShapeInv, LockInv, Holding
<1>3. AliveInv /\ TargetInv
  BY DEF AliveInv, TargetInv, Alive
<1>4. StampInv
  BY DEF StampInv, Holding
<1>5. AssuredInv /\ AbsenceInv
  BY DEF AssuredInv, AbsenceInv, Alive
<1>6. NoPhantomWatcher /\ CachedConfigCurrent /\ ClientKeepsWatcher
  BY DEF NoPhantomWatcher, LiveEntry, CachedConfigCurrent, ClientKeepsWatcher
<1> QED
  BY <1>1, <1>2, <1>3, <1>4, <1>5, <1>6 DEF IInv

\* With no lock in the map there is an identity for a new one.
LEMMA SlotExists ==
    ASSUME LockInv, NEW c \in Clients, lease = None
    PROVE  UnusedSlot \in Slots
<1>1. Cardinality(Clients) # 0 /\ Cardinality(Clients) \in Nat /\ Cardinality(Slots) \in Nat
  BY RegistryAssumption, FS_EmptySet, FS_CardinalityType
<1>2. Slots # {}
  BY <1>1, RegistryAssumption, FS_EmptySet
<1>3. \A s \in Slots : Leaseholders(s) = {}
  BY RegistryAssumption DEF LockInv, Leaseholders
<1> QED
  BY <1>2, <1>3 DEF UnusedSlot

\* Two calls that hold the lifecycle lock are one.
LEMMA OneHolder ==
    ASSUME LockInv, NEW c \in Clients, NEW d \in Clients, Holding(c), Holding(d)
    PROVE  c = d
  BY DEF LockInv, Holding

\* A watcher's flags after it is signalled.
LEMMA SignalEffect ==
    ASSUME TypeOK, NEW w \in Watchers, NEW who \in {"call", "clients"},
           watcher' = Signal(w, who)
    PROVE  /\ watcher' \in [Watchers -> Flags]
           /\ \A v \in Watchers : v # w => watcher'[v] = watcher[v]
           /\ watcher'[w].alive = watcher[w].alive
           /\ watcher'[w].running = watcher[w].running
           /\ watcher'[w].detached = watcher[w].detached
           /\ watcher'[w].unattended = watcher[w].unattended
           /\ watcher'[w].stoppedBy # None
           /\ watcher'[w].stoppedBy = watcher[w].stoppedBy \/ watcher'[w].stoppedBy = who
  BY RegistryAssumption DEF TypeOK, Signal, Signalled, Flags

LEMMA StartEffect ==
    ASSUME TypeOK, NEW w \in Watchers, watcher' = [watcher EXCEPT ![w].running = TRUE]
    PROVE  /\ watcher' \in [Watchers -> Flags]
           /\ \A v \in Watchers : v # w => watcher'[v] = watcher[v]
           /\ watcher'[w].running
           /\ watcher'[w].alive = watcher[w].alive
           /\ watcher'[w].detached = watcher[w].detached
           /\ watcher'[w].stoppedBy = watcher[w].stoppedBy
           /\ watcher'[w].unattended = watcher[w].unattended
  BY DEF TypeOK, Flags

LEMMA DetachEffect ==
    ASSUME TypeOK, NEW w \in Watchers, watcher' = [watcher EXCEPT ![w].detached = TRUE]
    PROVE  /\ watcher' \in [Watchers -> Flags]
           /\ \A v \in Watchers : v # w => watcher'[v] = watcher[v]
           /\ watcher'[w].detached
           /\ watcher'[w].alive = watcher[w].alive
           /\ watcher'[w].running = watcher[w].running
           /\ watcher'[w].stoppedBy = watcher[w].stoppedBy
           /\ watcher'[w].unattended = watcher[w].unattended
  BY DEF TypeOK, Flags


-----------------------------------------------------------------------------
(* The call of c moves, and no other does.                                 *)

MovesTo(c, p, state, slot, target) ==
    /\ call' \in [Clients -> Calls]
    /\ \A d \in Clients : d # c => call'[d] = call[d]
    /\ call'[c].pc = p
    /\ call'[c].state = state
    /\ call'[c].slot = slot
    /\ call'[c].target = target

LEMMA MovesGoto ==
    ASSUME TypeOK, NEW c \in Clients, NEW p \in PCs, call' = Goto(c, p)
    PROVE  MovesTo(c, p, None, call[c].slot, None)
  BY DEF TypeOK, Calls, Goto, MovesTo

LEMMA MovesState ==
    ASSUME TypeOK, NEW c \in Clients, NEW p \in PCs, NEW state \in States,
           call' = [call EXCEPT ![c].state = state, ![c].pc = p]
    PROVE  MovesTo(c, p, state, call[c].slot, call[c].target)
  BY DEF TypeOK, Calls, MovesTo

LEMMA MovesPC ==
    ASSUME TypeOK, NEW c \in Clients, NEW p \in PCs,
           call' = [call EXCEPT ![c].pc = p]
    PROVE  MovesTo(c, p, call[c].state, call[c].slot, call[c].target)
  BY DEF TypeOK, Calls, MovesTo

LEMMA MovesSlot ==
    ASSUME TypeOK, NEW c \in Clients, NEW p \in PCs, NEW s \in Slots,
           call' = [call EXCEPT ![c].pc = p, ![c].slot = s]
    PROVE  MovesTo(c, p, call[c].state, s, call[c].target)
  BY DEF TypeOK, Calls, MovesTo

LEMMA MovesTarget ==
    ASSUME TypeOK, NEW c \in Clients, NEW p \in PCs, NEW w \in Watchers \cup {None},
           call' = [call EXCEPT ![c].pc = p, ![c].target = w]
    PROVE  MovesTo(c, p, call[c].state, call[c].slot, w)
  BY DEF TypeOK, Calls, MovesTo

LEMMA MovesIdle ==
    ASSUME TypeOK, NEW c \in Clients, call' = [call EXCEPT ![c] = Idle]
    PROVE  MovesTo(c, "idle", None, None, None)
  BY DEF TypeOK, Calls, PCs, Idle, MovesTo

LEMMA MovesResolved ==
    ASSUME TypeOK, NEW c \in Clients, NEW state \in States, call' = Resolved(c, state)
    PROVE  MovesTo(c, IF call[c].slot = None THEN "acquire" ELSE "decide", state,
                   call[c].slot, call[c].target)
<1> DEFINE p == IF call[c].slot = None THEN "acquire" ELSE "decide"
<1>1. p \in PCs
  BY DEF PCs
<1>2. call' = [call EXCEPT ![c].state = state, ![c].pc = p]
  BY DEF Resolved
<1> HIDE DEF p
<1>3. MovesTo(c, p, state, call[c].slot, call[c].target)
  BY <1>1, <1>2, MovesState
<1> QED
  BY <1>3 DEF p

(* Where each step of a call takes it.                                     *)

LEMMA UseCachedMoves ==
    ASSUME TypeOK, NEW c \in Clients, UseCached(c)
    PROVE  MovesTo(c, IF call[c].slot = None THEN "acquire" ELSE "decide", cache,
                   call[c].slot, call[c].target)
<1>1. cache \in States
  BY DEF UseCached, CacheHit, TypeOK
<1> QED
  BY <1>1, MovesResolved DEF UseCached

LEMMA NotOnboardedMoves ==
    ASSUME TypeOK, NEW c \in Clients, NotOnboarded(c), call[c].slot # None
    PROVE  MovesTo(c, "stop", None, call[c].slot, None)
<1>1. call' = Goto(c, "stop") /\ "stop" \in PCs
  BY DEF NotOnboarded, PCs
<1> QED
  BY <1>1, MovesGoto

LEMMA StatConfigMoves ==
    ASSUME TypeOK, NEW c \in Clients, StatConfig(c)
    PROVE  /\ config # None
           /\ MovesTo(c, "read", config, call[c].slot, call[c].target)
<1>1. config \in States /\ config # None /\ "read" \in PCs
  BY RegistryAssumption DEF TypeOK, PCs
<1>2. call' = [call EXCEPT ![c].state = config, ![c].pc = "read"]
  BY DEF StatConfig, TypeOK, Calls
<1> QED
  BY <1>1, <1>2, MovesState

LEMMA ReadConfigMoves ==
    ASSUME TypeOK, ShapeInv, NEW c \in Clients, ReadConfig(c)
    PROVE  /\ ReadState(c) \in States
           /\ ReadState(c).stamp = call[c].state.stamp
           /\ ReadState(c).value = config.value
           /\ MovesTo(c, IF call[c].slot = None THEN "acquire" ELSE "decide", ReadState(c),
                      call[c].slot, call[c].target)
<1>1. call[c].state \in States /\ config \in States
  BY DEF ReadConfig, ShapeInv, TypeOK, Calls
<1>2. ReadState(c) \in States /\ ReadState(c).stamp = call[c].state.stamp
      /\ ReadState(c).value = config.value
  BY <1>1 DEF ReadState, States
<1> QED
  BY <1>2, MovesResolved DEF ReadConfig

LEMMA AcquireLeaseMoves ==
    ASSUME TypeOK, LockInv, NEW c \in Clients, AcquireLease(c)
    PROVE  /\ lease' \in Slots /\ lease' # None
           /\ lease # None => lease' = lease
           /\ MovesTo(c, "lock", call[c].state, lease', call[c].target)
<1>1. lease' \in Slots /\ lease' # None /\ "lock" \in PCs
  BY RegistryAssumption, SlotExists DEF AcquireLease, TypeOK, PCs
<1> QED
  BY <1>1, MovesSlot DEF AcquireLease

LEMMA ReconcileMoves ==
    ASSUME TypeOK, NEW c \in Clients, Reconcile(c)
    PROVE  \/ MovesTo(c, "stop", None, call[c].slot, None)
           \/ /\ StillValid(call[c].state)
              /\ MovesTo(c, "decide", call[c].state, call[c].slot, call[c].target)
           \/ MovesTo(c, "resolve", call[c].state, call[c].slot, call[c].target)
<1>1. "stop" \in PCs /\ "decide" \in PCs /\ "resolve" \in PCs
  BY DEF PCs
<1>2. \/ call' = Goto(c, "stop")
      \/ StillValid(call[c].state) /\ call' = [call EXCEPT ![c].pc = "decide"]
      \/ call' = [call EXCEPT ![c].pc = "resolve"]
  BY DEF Reconcile
<1> QED
  BY <1>1, <1>2, MovesGoto, MovesPC

LEMMA DecideMoves ==
    ASSUME TypeOK, NEW c \in Clients, Decide(c)
    PROVE  \/ MovesTo(c, "stop", None, call[c].slot, None)
           \/ MovesTo(c, "unlock", None, call[c].slot, None)
           \/ /\ call[c].state.value \in Keys
              /\ MovesTo(c, "reserve", call[c].state, call[c].slot, call[c].target)
<1>1. "stop" \in PCs /\ "unlock" \in PCs /\ "reserve" \in PCs
  BY DEF PCs
<1>2. \/ call' = Goto(c, "stop")
      \/ call' = Goto(c, "unlock")
      \/ call[c].state.value \in Keys /\ call' = [call EXCEPT ![c].pc = "reserve"]
  BY DEF Decide, Watchable
<1> QED
  BY <1>1, <1>2, MovesGoto, MovesPC

LEMMA UnlockMoves ==
    ASSUME TypeOK, NEW c \in Clients, call' = Goto(c, "unlock")
    PROVE  MovesTo(c, "unlock", None, call[c].slot, None)
<1>1. "unlock" \in PCs
  BY DEF PCs
<1> QED
  BY <1>1, MovesGoto

LEMMA RetireMoves ==
    ASSUME TypeOK, NEW c \in Clients, Retire(c)
    PROVE  /\ entry # None /\ entry.watcher \in Watchers /\ entry.watcher # None
           /\ MovesTo(c, "wait", call[c].state, call[c].slot, entry.watcher)
<1>1. entry # None /\ entry.watcher \in Watchers /\ entry.watcher # None /\ "wait" \in PCs
  BY RegistryAssumption DEF Retire, LiveEntry, TypeOK, Entries, PCs
<1> QED
  BY <1>1, MovesTarget DEF Retire

LEMMA RetireWaitMoves ==
    ASSUME TypeOK, NEW c \in Clients, RetireWait(c)
    PROVE  \/ MovesTo(c, "unlock", None, call[c].slot, None)
           \/ MovesTo(c, "reserve", call[c].state, call[c].slot, None)
<1>1. "reserve" \in PCs
  BY DEF PCs
<1>2. \/ call' = Goto(c, "unlock")
      \/ call' = [call EXCEPT ![c].pc = "reserve", ![c].target = None]
  BY DEF RetireWait
<1> QED
  BY <1>1, <1>2, UnlockMoves, MovesTarget

LEMMA StopProjectMoves ==
    ASSUME TypeOK, NEW c \in Clients, StopProject(c)
    PROVE  \/ /\ entry = None /\ UNCHANGED watcher
              /\ MovesTo(c, "unlock", None, call[c].slot, None)
           \/ /\ entry # None /\ entry.watcher \in Watchers
              /\ watcher' = Signal(entry.watcher, "call")
              /\ MovesTo(c, "stopwait", call[c].state, call[c].slot, entry.watcher)
<1>1. "stopwait" \in PCs
  BY DEF PCs
<1>2. entry # None => entry.watcher \in Watchers
  BY DEF TypeOK, Entries
<1> QED
  BY <1>1, <1>2, UnlockMoves, MovesTarget DEF StopProject

\* What a reservation does.
LEMMA ReserveEffect ==
    ASSUME TypeOK, ShapeInv, NEW c \in Clients, Reserve(c)
    PROVE  \E w \in Fresh :
              /\ w \in Watchers /\ w # None
              /\ entry' \in Entries /\ entry'.watcher = w
              /\ watcher' \in [Watchers -> Flags]
              /\ \A v \in Watchers : v # w => watcher'[v] = watcher[v]
              /\ watcher'[w].alive /\ ~watcher'[w].running
              /\ watcher'[w].stoppedBy = None
              /\ connected = {} => watcher'[w].unattended
              /\ MovesTo(c, "spawn", call[c].state, call[c].slot, w)
<1>1. PICK w \in Fresh :
        /\ entry' = [watcher |-> w, key |-> call[c].state.value, stopping |-> FALSE]
        /\ watcher' = [watcher EXCEPT ![w] =
                         [Forgotten EXCEPT !.alive = TRUE, !.unattended = connected = {}]]
        /\ call' = [call EXCEPT ![c].pc = "spawn", ![c].target = w]
  BY DEF Reserve
<1>2. PICK b \in BOOLEAN : b = (connected = {})
  BY Zenon
<1>3. w \in Watchers /\ w # None
  BY RegistryAssumption DEF Fresh
<1>4. entry' \in Entries /\ entry'.watcher = w
  BY <1>1, <1>3 DEF Reserve, ShapeInv, Entries
<1>5. watcher' = [watcher EXCEPT ![w] = [Forgotten EXCEPT !.alive = TRUE, !.unattended = b]]
  BY <1>1, <1>2, Zenon
<1>6. /\ watcher' \in [Watchers -> Flags]
      /\ \A v \in Watchers : v # w => watcher'[v] = watcher[v]
      /\ watcher'[w].alive /\ ~watcher'[w].running
      /\ watcher'[w].stoppedBy = None
      /\ watcher'[w].unattended = b
  BY <1>3, <1>5 DEF TypeOK, Flags, Forgotten
<1>7. connected = {} => watcher'[w].unattended
  BY <1>2, <1>6
<1>8. "spawn" \in PCs
  BY DEF PCs
<1>9. MovesTo(c, "spawn", call[c].state, call[c].slot, w)
  BY <1>1, <1>3, <1>8, MovesTarget
<1> QED
  BY <1>3, <1>4, <1>6, <1>7, <1>9

-----------------------------------------------------------------------------
(* Types.                                                                  *)

LEMMA NextTypeOK == IInv /\ [Next]_vars => TypeOK'
<1> SUFFICES ASSUME IInv, [Next]_vars PROVE TypeOK'
  OBVIOUS
<1> USE RegistryAssumption DEF IInv, project
<1>1. CASE UNCHANGED vars
  BY <1>1 DEF vars, TypeOK
<1>2. CASE WriteConfig
  BY <1>2 DEF WriteConfig, States, TypeOK
<1>3. CASE ResetIndex
  BY <1>3 DEF ResetIndex, TypeOK
<1>4. CASE Evict
  BY <1>4 DEF Evict, TypeOK
<1>5. ASSUME NEW w \in Watchers, WatcherExit(w) PROVE TypeOK'
  BY <1>5 DEF WatcherExit, Forgotten, TypeOK, Flags
<1>6. ASSUME NEW c \in Clients, Connect(c) PROVE TypeOK'
  BY <1>6 DEF Connect, TypeOK
<1>7. ASSUME NEW c \in Clients, Disconnect(c) PROVE TypeOK'
  BY <1>7 DEF Disconnect, TypeOK
<1>8. ASSUME NEW c \in Clients, LastClientStop(c) PROVE TypeOK'
  <2>1. CASE StopWanted /\ Stoppable
    <3>1. entry.watcher \in Watchers
      BY <2>1 DEF Stoppable, Entries, TypeOK
    <3> QED
      BY <1>8, <2>1, <3>1, SignalEffect DEF LastClientStop, TypeOK
  <2>2. CASE ~(StopWanted /\ Stoppable)
    BY <1>8, <2>2 DEF LastClientStop, NoStop, TypeOK
  <2> QED
    BY <2>1, <2>2
<1>9. ASSUME NEW c \in Clients, LastClientWait(c) PROVE TypeOK'
  BY <1>9 DEF LastClientWait, NoStop, Unregister, TypeOK
<1>10. ASSUME NEW c \in Clients, UseCached(c) PROVE TypeOK'
  BY <1>10, UseCachedMoves DEF UseCached, Swept, MovesTo, TypeOK
<1>11. ASSUME NEW c \in Clients, NotOnboarded(c) PROVE TypeOK'
  BY <1>11, NotOnboardedMoves DEF NotOnboarded, MovesTo, TypeOK
<1>12. ASSUME NEW c \in Clients, StatConfig(c) PROVE TypeOK'
  BY <1>12, StatConfigMoves DEF StatConfig, MovesTo, TypeOK
<1>13. ASSUME NEW c \in Clients, ReadConfig(c) PROVE TypeOK'
  BY <1>13, ReadConfigMoves DEF ReadConfig, Swept, MovesTo, TypeOK
<1>14. ASSUME NEW c \in Clients, AcquireLease(c) PROVE TypeOK'
  BY <1>14, AcquireLeaseMoves DEF AcquireLease, MovesTo, TypeOK
<1>15. ASSUME NEW c \in Clients, Reconcile(c) PROVE TypeOK'
  BY <1>15, ReconcileMoves DEF Reconcile, MovesTo, TypeOK
<1>16. ASSUME NEW c \in Clients, DropLease(c) PROVE TypeOK'
  BY <1>16, MovesIdle DEF DropLease, LeaseAfter, MovesTo, TypeOK
<1>17. ASSUME NEW c \in Clients, Decide(c) PROVE TypeOK'
  <2>1. decided' \in 0..MaxEdits
    BY <1>17 DEF Decide, ShapeInv, States, Calls, TypeOK
  <2> QED
    BY <1>17, <2>1, DecideMoves DEF Decide, MovesTo, TypeOK
<1>18. ASSUME NEW c \in Clients, KeepRunning(c) PROVE TypeOK'
  BY <1>18, UnlockMoves DEF KeepRunning, LiveEntry, Entries, MovesTo, TypeOK
<1>19. ASSUME NEW c \in Clients, Retire(c) PROVE TypeOK'
  BY <1>19, RetireMoves, SignalEffect DEF Retire, MovesTo, TypeOK
<1>20. ASSUME NEW c \in Clients, RetireWait(c) PROVE TypeOK'
  <2>1. entry' \in Entries \cup {None}
    BY <1>20 DEF RetireWait, OwnedBy, Entries, TypeOK
  <2>2. watcher' \in [Watchers -> Flags]
    <3>1. call[c].target \in Watchers
      BY <1>20 DEF RetireWait, ShapeInv, TypeOK, Calls
    <3>2. UNCHANGED watcher \/ watcher' = [watcher EXCEPT ![call[c].target].detached = TRUE]
      BY <1>20 DEF RetireWait
    <3> QED
      BY <3>1, <3>2, DetachEffect DEF TypeOK
  <2> QED
    BY <1>20, <2>1, <2>2, RetireWaitMoves DEF RetireWait, MovesTo, TypeOK
<1>21. ASSUME NEW c \in Clients, Reserve(c) PROVE TypeOK'
  BY <1>21, ReserveEffect DEF Reserve, MovesTo, TypeOK
<1>22. ASSUME NEW c \in Clients, Spawn(c) PROVE TypeOK'
  <2>1. call[c].target \in Watchers
    BY <1>22 DEF Spawn, ShapeInv, TypeOK, Calls
  <2>2. watcher' \in [Watchers -> Flags]
    BY <1>22, <2>1, StartEffect DEF Spawn
  <2> QED
    BY <1>22, <2>1, <2>2, UnlockMoves DEF Spawn, MovesTo, TypeOK
<1>23. ASSUME NEW c \in Clients, ReleaseReservation(c) PROVE TypeOK'
  <2>1. watcher' \in [Watchers -> Flags]
    BY <1>23 DEF ReleaseReservation, TypeOK, Flags, Forgotten
  <2> QED
    BY <1>23, <2>1, UnlockMoves DEF ReleaseReservation, Released, Unregister, MovesTo, TypeOK
<1>24. ASSUME NEW c \in Clients, StopProject(c) PROVE TypeOK'
  BY <1>24, StopProjectMoves, SignalEffect DEF StopProject, MovesTo, TypeOK
<1>25. ASSUME NEW c \in Clients, StopProjectWait(c) PROVE TypeOK'
  BY <1>25, UnlockMoves DEF StopProjectWait, Unregister, MovesTo, TypeOK
<1> QED
  BY <1>1, <1>2, <1>3, <1>4, <1>5, <1>6, <1>7, <1>8, <1>9, <1>10, <1>11, <1>12, <1>13, <1>14,
     <1>15, <1>16, <1>17, <1>18, <1>19, <1>20, <1>21, <1>22, <1>23, <1>24, <1>25
  DEF Next, CallStep

-----------------------------------------------------------------------------
(* The calls' shape and the lifecycle lock.                                *)

LEMMA NextShape == IInv /\ [Next]_vars => ShapeInv'
<1> SUFFICES ASSUME IInv, [Next]_vars PROVE ShapeInv'
  OBVIOUS
<1> USE DEF IInv
<1>1. CASE UNCHANGED <<call, stop>>
  BY <1>1 DEF ShapeInv
<1>2. ASSUME NEW c \in Clients, UNCHANGED call, \A d \in Clients : d # c => stop'[d] = stop[d],
             stop'[c].pc = "wait" => stop'[c].target # None
      PROVE  ShapeInv'
  BY <1>2 DEF ShapeInv
<1>3. ASSUME NEW c \in Clients, Disconnect(c) PROVE ShapeInv'
  BY <1>2, <1>3 DEF Disconnect, ShapeInv, TypeOK
<1>4. ASSUME NEW c \in Clients, LastClientStop(c) PROVE ShapeInv'
  BY <1>2, <1>4, RegistryAssumption DEF LastClientStop, Stoppable, Entries, NoStop, TypeOK
<1>5. ASSUME NEW c \in Clients, LastClientWait(c) PROVE ShapeInv'
  BY <1>2, <1>5 DEF LastClientWait, NoStop, TypeOK
<1>6. ASSUME NEW c \in Clients, UseCached(c) PROVE ShapeInv'
  BY <1>6, UseCachedMoves, RegistryAssumption DEF UseCached, Resolving, Beginning, CacheHit, MovesTo, ShapeInv
<1>7. ASSUME NEW c \in Clients, NotOnboarded(c) PROVE ShapeInv'
  BY <1>1, <1>7, NotOnboardedMoves DEF NotOnboarded, MovesTo, ShapeInv
<1>8. ASSUME NEW c \in Clients, StatConfig(c) PROVE ShapeInv'
  BY <1>8, StatConfigMoves DEF StatConfig, MovesTo, ShapeInv
<1>9. ASSUME NEW c \in Clients, ReadConfig(c) PROVE ShapeInv'
  <2>1. ReadState(c) # None
    BY <1>9, ReadConfigMoves, RegistryAssumption
  <2> QED
    BY <1>9, <2>1, ReadConfigMoves DEF ReadConfig, MovesTo, ShapeInv
<1>10. ASSUME NEW c \in Clients, AcquireLease(c) PROVE ShapeInv'
  <2>1. lease' # None /\ MovesTo(c, "lock", call[c].state, lease', call[c].target)
    BY <1>10, AcquireLeaseMoves
  <2> QED
    BY <1>10, <2>1 DEF AcquireLease, MovesTo, ShapeInv
<1>11. ASSUME NEW c \in Clients, Reconcile(c) PROVE ShapeInv'
  <2>1. CASE MovesTo(c, "stop", None, call[c].slot, None)
    BY <1>11, <2>1 DEF Reconcile, MovesTo, ShapeInv
  <2>2. CASE MovesTo(c, "decide", call[c].state, call[c].slot, call[c].target)
    BY <1>11, <2>2 DEF Reconcile, MovesTo, ShapeInv
  <2>3. CASE MovesTo(c, "resolve", call[c].state, call[c].slot, call[c].target)
    BY <1>11, <2>3 DEF Reconcile, MovesTo, ShapeInv
  <2> QED
    BY <1>11, <2>1, <2>2, <2>3, ReconcileMoves
<1>12. ASSUME NEW c \in Clients, DropLease(c) PROVE ShapeInv'
  BY <1>12, MovesIdle DEF DropLease, MovesTo, ShapeInv
<1>13. ASSUME NEW c \in Clients, Decide(c) PROVE ShapeInv'
  BY <1>13, DecideMoves DEF Decide, MovesTo, ShapeInv
<1>14. ASSUME NEW c \in Clients, KeepRunning(c) PROVE ShapeInv'
  BY <1>14, UnlockMoves DEF KeepRunning, MovesTo, ShapeInv
<1>15. ASSUME NEW c \in Clients, Retire(c) PROVE ShapeInv'
  <2>1. entry.watcher # None /\ MovesTo(c, "wait", call[c].state, call[c].slot, entry.watcher)
    BY <1>15, RetireMoves
  <2> QED
    BY <1>15, <2>1 DEF Retire, MovesTo, ShapeInv
<1>16. ASSUME NEW c \in Clients, RetireWait(c) PROVE ShapeInv'
  BY <1>16, RetireWaitMoves DEF RetireWait, MovesTo, ShapeInv
<1>17. ASSUME NEW c \in Clients, Reserve(c) PROVE ShapeInv'
  <2>1. PICK w \in Watchers : w # None /\ MovesTo(c, "spawn", call[c].state, call[c].slot, w)
    BY <1>17, ReserveEffect
  <2> QED
    BY <1>17, <2>1 DEF Reserve, MovesTo, ShapeInv
<1>18. ASSUME NEW c \in Clients, Spawn(c) PROVE ShapeInv'
  BY <1>18, UnlockMoves DEF Spawn, MovesTo, ShapeInv
<1>19. ASSUME NEW c \in Clients, ReleaseReservation(c) PROVE ShapeInv'
  BY <1>19, UnlockMoves DEF ReleaseReservation, MovesTo, ShapeInv
<1>20. ASSUME NEW c \in Clients, StopProject(c) PROVE ShapeInv'
  BY <1>20, StopProjectMoves, RegistryAssumption DEF StopProject, MovesTo, ShapeInv
<1>21. ASSUME NEW c \in Clients, StopProjectWait(c) PROVE ShapeInv'
  BY <1>21, UnlockMoves DEF StopProjectWait, MovesTo, ShapeInv
<1>22. CASE WriteConfig \/ ResetIndex \/ Evict \/ UNCHANGED vars
  BY <1>1, <1>22 DEF WriteConfig, ResetIndex, Evict, vars
<1>23. ASSUME NEW w \in Watchers, WatcherExit(w) PROVE ShapeInv'
  BY <1>1, <1>23 DEF WatcherExit
<1>24. ASSUME NEW c \in Clients, Connect(c) PROVE ShapeInv'
  BY <1>1, <1>24 DEF Connect
<1> QED
  BY <1>3, <1>4, <1>5, <1>6, <1>7, <1>8, <1>9, <1>10, <1>11, <1>12, <1>13, <1>14, <1>15,
     <1>16, <1>17, <1>18, <1>19, <1>20, <1>21, <1>22, <1>23, <1>24
  DEF Next, CallStep

\* A call that keeps its lease and does not take the lock leaves both alone.
LEMMA LockFrame ==
    ASSUME LockInv, NEW c \in Clients, UNCHANGED <<lease, owner>>,
           \A d \in Clients : d # c => call'[d] = call[d],
           call'[c].slot = call[c].slot,
           Holding(c)' => Holding(c)
    PROVE  LockInv'
  BY DEF LockInv, Holding

LEMMA NextLock == IInv /\ [Next]_vars => LockInv'
<1> SUFFICES ASSUME IInv, [Next]_vars PROVE LockInv'
  OBVIOUS
<1> USE RegistryAssumption DEF IInv
<1>1. CASE UNCHANGED <<call, lease, owner>>
  BY <1>1 DEF LockInv, Holding
<1>2. ASSUME NEW c \in Clients, UseCached(c) PROVE LockInv'
  BY <1>2, LockFrame, UseCachedMoves DEF UseCached, MovesTo, Holding, Resolving, Beginning, ShapeInv
<1>3. ASSUME NEW c \in Clients, NotOnboarded(c) PROVE LockInv'
  BY <1>1, <1>3, LockFrame, NotOnboardedMoves
  DEF NotOnboarded, MovesTo, Holding, Resolving, Beginning, ShapeInv
<1>4. ASSUME NEW c \in Clients, StatConfig(c) PROVE LockInv'
  <2>1. Holding(c)' => Holding(c)
    BY <1>4, StatConfigMoves DEF StatConfig, MovesTo, Holding, Resolving, Beginning, ShapeInv
  <2> QED
    BY <1>4, <2>1, LockFrame, StatConfigMoves DEF StatConfig, MovesTo
<1>5. ASSUME NEW c \in Clients, ReadConfig(c) PROVE LockInv'
  BY <1>5, LockFrame, ReadConfigMoves DEF ReadConfig, MovesTo, Holding
<1>6. ASSUME NEW c \in Clients, AcquireLease(c) PROVE LockInv'
  BY <1>6, AcquireLeaseMoves DEF AcquireLease, MovesTo, Holding, LockInv
<1>7. ASSUME NEW c \in Clients, Reconcile(c) PROVE LockInv'
  <2>1. \A d \in Clients : ~Holding(d)
    BY <1>7 DEF Reconcile, LockInv, Holding, ShapeInv
  <2>2. owner'[call[c].slot] = c
    BY <1>7 DEF Reconcile, ShapeInv, TypeOK, Calls
  <2>3. /\ \A d \in Clients : d # c => call'[d] = call[d]
        /\ call'[c].slot = call[c].slot
    BY <1>7, ReconcileMoves DEF MovesTo
  <2> QED
    BY <1>7, <2>1, <2>2, <2>3 DEF Reconcile, Holding, LockInv
<1>8. ASSUME NEW c \in Clients, DropLease(c) PROVE LockInv'
  <2>1. MovesTo(c, "idle", None, None, None) /\ Holding(c)
    BY <1>8, MovesIdle DEF DropLease, Holding, ShapeInv
  <2>2. \A d \in Clients : Holding(d) => d = c
    BY <2>1, OneHolder
  <2>3. \A d \in Clients : call'[d].slot # None => d # c /\ call[d].slot = lease
    BY <2>1 DEF MovesTo, LockInv
  <2>4. \A d \in Clients : call'[d].slot # None => lease' = lease
    BY <1>8, <2>3 DEF DropLease, LeaseAfter, Leaseholders
  <2> QED
    BY <2>1, <2>2, <2>3, <2>4 DEF MovesTo, Holding, LockInv
<1>9. ASSUME NEW c \in Clients, Decide(c) PROVE LockInv'
  BY <1>9, LockFrame, DecideMoves DEF Decide, MovesTo, Holding
<1>10. ASSUME NEW c \in Clients, KeepRunning(c) PROVE LockInv'
  BY <1>10, LockFrame, UnlockMoves DEF KeepRunning, MovesTo, Holding
<1>11. ASSUME NEW c \in Clients, Retire(c) PROVE LockInv'
  BY <1>11, LockFrame, RetireMoves DEF Retire, MovesTo, Holding
<1>12. ASSUME NEW c \in Clients, RetireWait(c) PROVE LockInv'
  BY <1>12, LockFrame, RetireWaitMoves DEF RetireWait, MovesTo, Holding
<1>13. ASSUME NEW c \in Clients, Reserve(c) PROVE LockInv'
  <2>1. PICK w \in Watchers : MovesTo(c, "spawn", call[c].state, call[c].slot, w)
    BY <1>13, ReserveEffect
  <2> QED
    BY <1>13, <2>1, LockFrame DEF Reserve, MovesTo, Holding
<1>14. ASSUME NEW c \in Clients, Spawn(c) PROVE LockInv'
  BY <1>14, LockFrame, UnlockMoves DEF Spawn, MovesTo, Holding
<1>15. ASSUME NEW c \in Clients, ReleaseReservation(c) PROVE LockInv'
  BY <1>15, LockFrame, UnlockMoves DEF ReleaseReservation, MovesTo, Holding
<1>16. ASSUME NEW c \in Clients, StopProject(c) PROVE LockInv'
  BY <1>16, LockFrame, StopProjectMoves DEF StopProject, MovesTo, Holding
<1>17. ASSUME NEW c \in Clients, StopProjectWait(c) PROVE LockInv'
  BY <1>17, LockFrame, UnlockMoves DEF StopProjectWait, MovesTo, Holding
<1>18. CASE WriteConfig \/ ResetIndex \/ Evict \/ UNCHANGED vars
  BY <1>1, <1>18 DEF WriteConfig, ResetIndex, Evict, vars
<1>19. ASSUME NEW w \in Watchers, WatcherExit(w) PROVE LockInv'
  BY <1>1, <1>19 DEF WatcherExit
<1>20. ASSUME NEW c \in Clients,
              Connect(c) \/ Disconnect(c) \/ LastClientStop(c) \/ LastClientWait(c)
       PROVE  LockInv'
  BY <1>1, <1>20 DEF Connect, Disconnect, LastClientStop, LastClientWait
<1> QED
  BY <1>2, <1>3, <1>4, <1>5, <1>6, <1>7, <1>8, <1>9, <1>10, <1>11, <1>12, <1>13, <1>14, <1>15,
     <1>16, <1>17, <1>18, <1>19, <1>20
  DEF Next, CallStep

-----------------------------------------------------------------------------
(* What was read of config.toml, and how old it is.                        *)

\* A call that resolves nothing new, and that nobody overtakes.
LEMMA StampFrame ==
    ASSUME StampInv, NEW c \in Clients, UNCHANGED <<config, cache, decided>>,
           \A d \in Clients : d # c => call'[d] = call[d],
           \/ call'[c].state = None /\ call'[c].pc \in {"idle", "stop", "unlock"}
           \/ /\ call'[c].state = call[c].state
              /\ Holding(c)' /\ call'[c].pc \in {"read", "decide", "reserve", "wait", "spawn"} =>
                    Holding(c) /\ call[c].pc \in {"read", "decide", "reserve", "wait", "spawn"}
    PROVE  StampInv'
  BY DEF StampInv, Holding

\* A call that takes a state that is valid now.
LEMMA StampCurrent ==
    ASSUME StampInv, NEW c \in Clients, UNCHANGED <<config, cache, decided>>,
           \A d \in Clients : d # c => call'[d] = call[d],
           call'[c].state.stamp = config.stamp, config.stamp \in Nat, decided \in Nat
    PROVE  StampInv'
  BY DEF StampInv, Holding

LEMMA NextStamp == IInv /\ [Next]_vars => StampInv'
<1> SUFFICES ASSUME IInv, [Next]_vars PROVE StampInv'
  OBVIOUS
<1> USE DEF IInv, project
<1>1. CASE UNCHANGED <<call, config, cache, decided>>
  BY <1>1 DEF StampInv, Holding
<1>2. /\ config.stamp \in Nat /\ decided \in Nat
      /\ cache # None => cache.stamp \in Nat
      /\ \A c \in Clients : call[c].state # None => call[c].state.stamp \in Nat
  BY RegistryAssumption DEF TypeOK, States, Calls
<1>3. CASE WriteConfig
  <2>1. config'.stamp = config.stamp + 1 /\ UNCHANGED <<cache, call, decided>>
    BY <1>3 DEF WriteConfig
  <2> QED
    BY <1>2, <2>1 DEF StampInv, Holding
<1>4. CASE Evict
  BY <1>4 DEF Evict, StampInv, Holding
<1>5. ASSUME NEW c \in Clients, UseCached(c) PROVE StampInv'
  BY <1>2, <1>5, StampCurrent, UseCachedMoves DEF UseCached, MovesTo, CacheHit, StillValid
<1>6. ASSUME NEW c \in Clients, NotOnboarded(c) PROVE StampInv'
  BY <1>1, <1>6, StampFrame, NotOnboardedMoves DEF NotOnboarded, MovesTo
<1>7. ASSUME NEW c \in Clients, StatConfig(c) PROVE StampInv'
  BY <1>2, <1>7, StampCurrent, StatConfigMoves DEF StatConfig, MovesTo
<1>8. ASSUME NEW c \in Clients, ReadConfig(c) PROVE StampInv'
  <2>1. /\ ReadState(c).stamp = call[c].state.stamp /\ call[c].state # None
        /\ call'[c].state = ReadState(c) /\ call'[c].slot = call[c].slot
        /\ \A d \in Clients : d # c => call'[d] = call[d]
    BY <1>8, ReadConfigMoves DEF MovesTo, ReadConfig, ShapeInv
  <2>2. cache' # None => cache'.stamp <= config.stamp
    BY <1>8, <2>1 DEF ReadConfig, StampInv
  <2>3. call[c].pc = "read" /\ UNCHANGED <<config, decided>>
    BY <1>8 DEF ReadConfig
  <2> QED
    BY <2>1, <2>2, <2>3 DEF StampInv, Holding
<1>9. ASSUME NEW c \in Clients, AcquireLease(c) PROVE StampInv'
  <2>1. MovesTo(c, "lock", call[c].state, lease', call[c].target)
    BY <1>9, AcquireLeaseMoves
  <2> QED
    BY <1>9, <2>1, StampFrame DEF AcquireLease, MovesTo
<1>10. ASSUME NEW c \in Clients, Reconcile(c) PROVE StampInv'
  <2>1. CASE MovesTo(c, "stop", None, call[c].slot, None)
    BY <1>10, <2>1, StampFrame DEF Reconcile, MovesTo
  <2>2. CASE /\ StillValid(call[c].state)
             /\ MovesTo(c, "decide", call[c].state, call[c].slot, call[c].target)
    BY <1>2, <1>10, <2>2, StampCurrent DEF Reconcile, MovesTo, StillValid
  <2>3. CASE MovesTo(c, "resolve", call[c].state, call[c].slot, call[c].target)
    BY <1>10, <2>3, StampFrame DEF Reconcile, MovesTo
  <2> QED
    BY <1>10, <2>1, <2>2, <2>3, ReconcileMoves
<1>11. ASSUME NEW c \in Clients, DropLease(c) PROVE StampInv'
  BY <1>11, StampFrame, MovesIdle DEF DropLease, MovesTo
<1>12. ASSUME NEW c \in Clients, Decide(c) PROVE StampInv'
  <2>1. Holding(c) /\ call[c].state # None
    BY <1>12 DEF Decide, Holding, ShapeInv
  <2>2. \A d \in Clients : d # c => ~Holding(d)
    BY <2>1, OneHolder
  <2>3. /\ decided' <= config.stamp
        /\ call[c].state.stamp >= decided'
        /\ UNCHANGED <<config, cache>>
    BY <1>2, <1>12, <2>1 DEF Decide, StampInv
  <2>4. /\ \A d \in Clients : d # c => call'[d] = call[d]
        /\ \/ call'[c].state = None /\ call'[c].pc \in {"stop", "unlock"}
           \/ call'[c].state = call[c].state
    BY <1>12, DecideMoves DEF MovesTo
  <2> QED
    BY <2>1, <2>2, <2>3, <2>4 DEF StampInv, Holding
<1>13. ASSUME NEW c \in Clients, KeepRunning(c) PROVE StampInv'
  BY <1>13, StampFrame, UnlockMoves DEF KeepRunning, MovesTo
<1>14. ASSUME NEW c \in Clients, Retire(c) PROVE StampInv'
  BY <1>14, StampFrame, RetireMoves DEF Retire, MovesTo, Holding
<1>15. ASSUME NEW c \in Clients, RetireWait(c) PROVE StampInv'
  BY <1>15, StampFrame, RetireWaitMoves DEF RetireWait, MovesTo, Holding
<1>16. ASSUME NEW c \in Clients, Reserve(c) PROVE StampInv'
  <2>1. PICK w \in Watchers : MovesTo(c, "spawn", call[c].state, call[c].slot, w)
    BY <1>16, ReserveEffect
  <2> QED
    BY <1>16, <2>1, StampFrame DEF Reserve, MovesTo, Holding
<1>17. ASSUME NEW c \in Clients, Spawn(c) PROVE StampInv'
  BY <1>17, StampFrame, UnlockMoves DEF Spawn, MovesTo
<1>18. ASSUME NEW c \in Clients, ReleaseReservation(c) PROVE StampInv'
  BY <1>18, StampFrame, UnlockMoves DEF ReleaseReservation, MovesTo
<1>19. ASSUME NEW c \in Clients, StopProject(c) PROVE StampInv'
  BY <1>19, StampFrame, StopProjectMoves DEF StopProject, MovesTo
<1>20. ASSUME NEW c \in Clients, StopProjectWait(c) PROVE StampInv'
  BY <1>20, StampFrame, UnlockMoves DEF StopProjectWait, MovesTo
<1>21. CASE ResetIndex \/ UNCHANGED vars
  BY <1>1, <1>21 DEF ResetIndex, vars
<1>22. ASSUME NEW w \in Watchers, WatcherExit(w) PROVE StampInv'
  BY <1>1, <1>22 DEF WatcherExit
<1>23. ASSUME NEW c \in Clients,
              Connect(c) \/ Disconnect(c) \/ LastClientStop(c) \/ LastClientWait(c)
       PROVE  StampInv'
  BY <1>1, <1>23 DEF Connect, Disconnect, LastClientStop, LastClientWait
<1> QED
  BY <1>3, <1>4, <1>5, <1>6, <1>7, <1>8, <1>9, <1>10, <1>11, <1>12, <1>13, <1>14, <1>15,
     <1>16, <1>17, <1>18, <1>19, <1>20, <1>21, <1>22, <1>23
  DEF Next, CallStep

\* A write of config.toml makes every state read before it invalid, and a
\* state read after the write was stamped is what the write left.
LEMMA NextCached == IInv /\ [Next]_vars => CachedConfigCurrent'
<1> SUFFICES ASSUME IInv, [Next]_vars PROVE CachedConfigCurrent'
  OBVIOUS
<1> USE DEF IInv, CachedConfigCurrent, project
<1>1. CASE UNCHANGED <<cache, config>>
  BY <1>1
<1>2. CASE WriteConfig
  <2>1. config'.stamp = config.stamp + 1 /\ UNCHANGED cache
    BY <1>2 DEF WriteConfig
  <2>2. config.stamp \in Nat /\ (cache # None => cache.stamp \in Nat)
    BY RegistryAssumption DEF TypeOK, States
  <2> QED
    BY <2>1, <2>2 DEF StampInv
<1>3. CASE Evict
  BY <1>3 DEF Evict
<1>4. ASSUME NEW c \in Clients, ReadConfig(c) PROVE CachedConfigCurrent'
  BY <1>1, <1>4, ReadConfigMoves DEF ReadConfig
<1>5. CASE ResetIndex \/ UNCHANGED vars
  BY <1>1, <1>5 DEF ResetIndex, vars
<1>6. ASSUME NEW w \in Watchers, WatcherExit(w) PROVE CachedConfigCurrent'
  BY <1>1, <1>6 DEF WatcherExit
<1>7. ASSUME NEW c \in Clients,
             Connect(c) \/ Disconnect(c) \/ LastClientStop(c) \/ LastClientWait(c)
      PROVE  CachedConfigCurrent'
  BY <1>1, <1>7 DEF Connect, Disconnect, LastClientStop, LastClientWait
<1>8. ASSUME NEW c \in Clients, CallStep(c) PROVE CachedConfigCurrent'
  BY <1>1, <1>4, <1>8
  DEF CallStep, UseCached, NotOnboarded, StatConfig, AcquireLease, Reconcile, DropLease,
      Decide, KeepRunning, Retire, RetireWait, Reserve, Spawn, ReleaseReservation,
      StopProject, StopProjectWait
<1> QED
  BY <1>2, <1>3, <1>5, <1>6, <1>7, <1>8 DEF Next

-----------------------------------------------------------------------------
(* The entry and the watchers' flags.                                      *)

\* An entry that goes without more is that of a watcher that has ended.
EntryKept == UNCHANGED watcher /\ (entry' = entry \/ (entry' = None /\ ~LiveEntry))

\* A watcher is told to stop, if it was not yet.
SignalStep(w) == w \in Watchers /\ UNCHANGED entry /\ \E who \in {"call", "clients"} : watcher' = Signal(w, who)

\* The steps of a call that neither reserve, start, replace nor signal.
LEMMA KeptSteps ==
    ASSUME TypeOK, ShapeInv, NEW c \in Clients,
           \/ LastClientWait(c) \/ UseCached(c) \/ NotOnboarded(c) \/ StatConfig(c) \/ ReadConfig(c)
           \/ AcquireLease(c) \/ Reconcile(c) \/ DropLease(c) \/ Decide(c) \/ KeepRunning(c)
           \/ StopProjectWait(c) \/ Connect(c) \/ Disconnect(c)
    PROVE  EntryKept
<1>1. CASE LastClientWait(c)
  BY <1>1 DEF LastClientWait, EntryKept, Unregister, OwnedBy, LiveEntry
<1>2. CASE StopProjectWait(c)
  BY <1>2 DEF StopProjectWait, EntryKept, Unregister, OwnedBy, LiveEntry
<1>3. CASE UseCached(c)
  BY <1>3 DEF UseCached, EntryKept, Swept
<1>4. CASE ReadConfig(c)
  BY <1>4 DEF ReadConfig, EntryKept, Swept
<1> QED
  BY <1>1, <1>2, <1>3, <1>4
  DEF EntryKept, NotOnboarded, StatConfig, AcquireLease, Reconcile, DropLease, Decide, KeepRunning,
      Connect, Disconnect

LEMMA SignalSteps ==
    ASSUME TypeOK, NEW c \in Clients, Retire(c) \/ StopProject(c) \/ LastClientStop(c)
    PROVE  EntryKept \/ (entry # None /\ SignalStep(entry.watcher))
<1>1. entry # None => entry.watcher \in Watchers
  BY DEF TypeOK, Entries
<1>2. CASE Retire(c)
  BY <1>1, <1>2 DEF Retire, LiveEntry, SignalStep
<1>3. CASE StopProject(c)
  BY <1>1, <1>3 DEF StopProject, SignalStep, EntryKept
<1>4. CASE LastClientStop(c)
  BY <1>1, <1>4 DEF LastClientStop, Stoppable, SignalStep, EntryKept
<1> QED
  BY <1>2, <1>3, <1>4

\* The steps that change more, by what they do to their target.
LEMMA RetireWaitEffect ==
    ASSUME TypeOK, ShapeInv, TargetInv, NEW c \in Clients, RetireWait(c)
    PROVE  \/ EntryKept
           \/ UNCHANGED watcher /\ entry # None /\ entry' # None /\ entry'.watcher = entry.watcher
           \/ \E w \in Watchers :
                 /\ OwnedBy(w) /\ Signalled(w) /\ entry' = None
                 /\ watcher' = [watcher EXCEPT ![w].detached = TRUE]
<1>1. call[c].target \in Watchers
  BY DEF RetireWait, ShapeInv, TypeOK, Calls
<1>2. entry # None => entry \in Entries
  BY DEF TypeOK
<1> QED
  BY <1>1, <1>2, RegistryAssumption DEF RetireWait, EntryKept, OwnedBy, TargetInv, Entries

LEMMA ReleaseEffect ==
    ASSUME TypeOK, ShapeInv, TargetInv, NEW c \in Clients, ReleaseReservation(c)
    PROVE  /\ call[c].target \in Watchers
           /\ OwnedBy(call[c].target) /\ entry' = None
           /\ \A v \in Watchers : v # call[c].target => watcher'[v] = watcher[v]
           /\ watcher'[call[c].target] = Forgotten
<1>1. call[c].target \in Watchers
  BY DEF ReleaseReservation, ShapeInv, TypeOK, Calls
<1> QED
  BY <1>1 DEF ReleaseReservation, Released, Unregister, OwnedBy, TargetInv, TypeOK

LEMMA SpawnEffect ==
    ASSUME TypeOK, ShapeInv, NEW c \in Clients, Spawn(c)
    PROVE  /\ call[c].target \in Watchers
           /\ UNCHANGED entry
           /\ watcher' = [watcher EXCEPT ![call[c].target].running = TRUE]
  BY DEF Spawn, ShapeInv, TypeOK, Calls

LEMMA ExitEffect ==
    ASSUME TypeOK, NEW w \in Watchers, WatcherExit(w)
    PROVE  /\ UNCHANGED entry /\ watcher[w].running
           /\ \A v \in Watchers : v # w => watcher'[v] = watcher[v]
           /\ watcher'[w] = Forgotten
  BY DEF WatcherExit, TypeOK

LEMMA NextAlive == IInv /\ [Next]_vars => AliveInv'
<1> SUFFICES ASSUME IInv, [Next]_vars PROVE AliveInv'
  OBVIOUS
<1> USE DEF IInv
<1>1. CASE EntryKept
  BY <1>1 DEF EntryKept, AliveInv, Alive, Signalled, OwnedBy, LiveEntry
<1>2. ASSUME NEW w \in Watchers, SignalStep(w) PROVE AliveInv'
  BY <1>2, SignalEffect DEF SignalStep, AliveInv, Alive, Signalled, OwnedBy
<1>3. ASSUME NEW w \in Watchers, WatcherExit(w) PROVE AliveInv'
  BY <1>3, ExitEffect DEF AliveInv, Alive, Signalled, OwnedBy, Forgotten
<1>4. ASSUME NEW c \in Clients, RetireWait(c) PROVE AliveInv'
  <2>1. CASE UNCHANGED watcher /\ entry # None /\ entry' # None /\ entry'.watcher = entry.watcher
    BY <2>1 DEF AliveInv, Alive, Signalled, OwnedBy
  <2>2. ASSUME NEW w \in Watchers, OwnedBy(w), Signalled(w), entry' = None,
               watcher' = [watcher EXCEPT ![w].detached = TRUE]
        PROVE  AliveInv'
    BY <2>2, DetachEffect DEF AliveInv, Alive, Signalled, OwnedBy
  <2> QED
    BY <1>1, <1>4, <2>1, <2>2, RetireWaitEffect
<1>5. ASSUME NEW c \in Clients, Reserve(c) PROVE AliveInv'
  <2>1. PICK w \in Watchers :
          /\ entry' \in Entries /\ entry'.watcher = w
          /\ \A v \in Watchers : v # w => watcher'[v] = watcher[v]
          /\ watcher'[w].alive /\ ~watcher'[w].running
    BY <1>5, ReserveEffect
  <2>2. \A v \in Watchers : ~(Alive(v) /\ OwnedBy(v))
    BY <1>5 DEF Reserve, SlotFree, LiveEntry, OwnedBy
  <2>3. entry' # None
    BY <2>1, RegistryAssumption
  <2> QED
    BY <2>1, <2>2, <2>3 DEF AliveInv, Alive, Signalled, OwnedBy
<1>6. ASSUME NEW c \in Clients, Spawn(c) PROVE AliveInv'
  <2>1. Alive(call[c].target)
    BY <1>6 DEF Spawn, TargetInv
  <2>2. /\ call[c].target \in Watchers /\ UNCHANGED entry
        /\ watcher' = [watcher EXCEPT ![call[c].target].running = TRUE]
    BY <1>6, SpawnEffect
  <2>3. PICK w \in Watchers : w = call[c].target
    BY <2>2
  <2> QED
    BY <2>1, <2>2, <2>3, StartEffect DEF AliveInv, Alive, Signalled, OwnedBy
<1>7. ASSUME NEW c \in Clients, ReleaseReservation(c) PROVE AliveInv'
  BY <1>7, ReleaseEffect DEF AliveInv, Alive, Signalled, OwnedBy, Forgotten
<1>8. CASE WriteConfig \/ ResetIndex \/ Evict \/ UNCHANGED vars
  BY <1>1, <1>8 DEF WriteConfig, ResetIndex, Evict, vars, EntryKept
<1>9. ASSUME NEW c \in Clients, Retire(c) \/ StopProject(c) \/ LastClientStop(c) PROVE AliveInv'
  BY <1>1, <1>2, <1>9, SignalSteps DEF SignalStep
<1> QED
  BY <1>1, <1>3, <1>4, <1>5, <1>6, <1>7, <1>8, <1>9, KeptSteps DEF Next, CallStep

\* While a call has the lifecycle lock no other reserves, starts or waits.
LEMMA Alone ==
    ASSUME LockInv, ShapeInv, NEW c \in Clients, Holding(c),
           NEW d \in Clients, call[d].pc \in {"wait", "spawn"}
    PROVE  d = c
<1>1. Holding(d)
  BY DEF ShapeInv, Holding
<1> QED
  BY <1>1, OneHolder

LEMMA TargetFrame ==
    ASSUME TargetInv, EntryKept,
           \A d \in Clients : call'[d].pc \in {"wait", "spawn"} => call'[d] = call[d]
    PROVE  TargetInv'
  BY DEF TargetInv, EntryKept, Alive, Signalled, OwnedBy, LiveEntry

\* The steps of one call, and where they leave it.
LEMMA OthersStay ==
    ASSUME IInv, NEW c \in Clients, CallStep(c)
    PROVE  \A d \in Clients : d # c => call'[d] = call[d]
<1> USE DEF IInv
<1>1. CASE UseCached(c)
  BY <1>1, UseCachedMoves DEF MovesTo
<1>2. CASE NotOnboarded(c)
  BY <1>2, NotOnboardedMoves DEF NotOnboarded, MovesTo
<1>3. CASE StatConfig(c)
  BY <1>3, StatConfigMoves DEF MovesTo
<1>4. CASE ReadConfig(c)
  BY <1>4, ReadConfigMoves DEF MovesTo
<1>5. CASE AcquireLease(c)
  BY <1>5, AcquireLeaseMoves DEF MovesTo
<1>6. CASE Reconcile(c)
  BY <1>6, ReconcileMoves DEF MovesTo
<1>7. CASE DropLease(c)
  BY <1>7, MovesIdle DEF DropLease, MovesTo
<1>8. CASE Decide(c)
  BY <1>8, DecideMoves DEF MovesTo
<1>9. CASE KeepRunning(c)
  BY <1>9, UnlockMoves DEF KeepRunning, MovesTo
<1>10. CASE Retire(c)
  BY <1>10, RetireMoves DEF MovesTo
<1>11. CASE RetireWait(c)
  BY <1>11, RetireWaitMoves DEF MovesTo
<1>12. CASE Reserve(c)
  BY <1>12, ReserveEffect DEF MovesTo
<1>13. CASE Spawn(c)
  BY <1>13, UnlockMoves DEF Spawn, MovesTo
<1>14. CASE ReleaseReservation(c)
  BY <1>14, UnlockMoves DEF ReleaseReservation, MovesTo
<1>15. CASE StopProject(c)
  BY <1>15, StopProjectMoves DEF MovesTo
<1>16. CASE StopProjectWait(c)
  BY <1>16, UnlockMoves DEF StopProjectWait, MovesTo
<1> QED
  BY <1>1, <1>2, <1>3, <1>4, <1>5, <1>6, <1>7, <1>8, <1>9, <1>10, <1>11, <1>12, <1>13, <1>14,
     <1>15, <1>16 DEF CallStep

\* The steps after which the call neither starts nor waits, and before which
\* it has no reservation.
LEMMA QuietSteps ==
    ASSUME IInv, NEW c \in Clients,
           \/ UseCached(c) \/ NotOnboarded(c) \/ StatConfig(c) \/ ReadConfig(c)
           \/ AcquireLease(c) \/ Reconcile(c) \/ DropLease(c) \/ Decide(c) \/ KeepRunning(c)
           \/ RetireWait(c) \/ StopProject(c) \/ StopProjectWait(c)
    PROVE  /\ call' = call \/ call'[c].pc \notin {"wait", "spawn"}
           /\ call[c].pc # "spawn"
<1> USE DEF IInv
<1>1. CASE UseCached(c)
  BY <1>1, UseCachedMoves DEF UseCached, Resolving, Beginning, MovesTo
<1>2. CASE NotOnboarded(c)
  BY <1>2, NotOnboardedMoves DEF NotOnboarded, Resolving, Beginning, MovesTo
<1>3. CASE StatConfig(c)
  BY <1>3, StatConfigMoves DEF StatConfig, Resolving, Beginning, MovesTo
<1>4. CASE ReadConfig(c)
  BY <1>4, ReadConfigMoves DEF ReadConfig, MovesTo
<1>5. CASE AcquireLease(c)
  BY <1>5, AcquireLeaseMoves DEF AcquireLease, MovesTo
<1>6. CASE Reconcile(c)
  BY <1>6, ReconcileMoves DEF Reconcile, MovesTo
<1>7. CASE DropLease(c)
  BY <1>7, MovesIdle DEF DropLease, MovesTo
<1>8. CASE Decide(c)
  BY <1>8, DecideMoves DEF Decide, MovesTo
<1>9. CASE KeepRunning(c)
  BY <1>9, UnlockMoves DEF KeepRunning, MovesTo
<1>10. CASE RetireWait(c)
  BY <1>10, RetireWaitMoves DEF RetireWait, MovesTo
<1>11. CASE StopProject(c)
  BY <1>11, StopProjectMoves DEF StopProject, MovesTo
<1>12. CASE StopProjectWait(c)
  BY <1>12, UnlockMoves DEF StopProjectWait, MovesTo
<1> QED
  BY <1>1, <1>2, <1>3, <1>4, <1>5, <1>6, <1>7, <1>8, <1>9, <1>10, <1>11, <1>12

LEMMA TargetSignal ==
    ASSUME TypeOK, TargetInv, ShapeInv, NEW w \in Watchers, SignalStep(w),
           \A d \in Clients :
              \/ call'[d].pc \notin {"wait", "spawn"}
              \/ call'[d] = call[d]
              \/ call'[d].pc = "wait" /\ call'[d].target = w
    PROVE  TargetInv'
<1>1. \A d \in Clients : call[d].pc \in {"wait", "spawn"} => call[d].target \in Watchers
  BY DEF ShapeInv, TypeOK, Calls
<1> QED
  BY <1>1, SignalEffect DEF SignalStep, TargetInv, Alive, Signalled, OwnedBy

LEMMA NextTarget == IInv /\ [Next]_vars => TargetInv'
<1> SUFFICES ASSUME IInv, [Next]_vars PROVE TargetInv'
  OBVIOUS
<1> USE DEF IInv
<1>1. ASSUME NEW c \in Clients, CallStep(c), Holding(c), call'[c].pc \notin {"wait", "spawn"}
      PROVE  TargetInv'
  <2>1. \A d \in Clients : call'[d].pc \notin {"wait", "spawn"}
    BY <1>1, Alone, OthersStay
  <2> QED
    BY <2>1 DEF TargetInv
<1>2. ASSUME NEW c \in Clients,
             \/ UseCached(c) \/ NotOnboarded(c) \/ StatConfig(c) \/ ReadConfig(c)
             \/ AcquireLease(c) \/ Reconcile(c) \/ DropLease(c) \/ Decide(c) \/ KeepRunning(c)
             \/ StopProjectWait(c)
      PROVE  TargetInv'
  <2>1. \A d \in Clients : call'[d].pc \in {"wait", "spawn"} => call'[d] = call[d]
    BY <1>2, QuietSteps, OthersStay DEF CallStep
  <2> QED
    BY <1>2, <2>1, KeptSteps, TargetFrame
<1>3. ASSUME NEW w \in Watchers, WatcherExit(w) PROVE TargetInv'
  <2>1. \A d \in Clients : call[d].pc \in {"wait", "spawn"} => call[d].target \in Watchers
    BY DEF ShapeInv, TypeOK, Calls
  <2>2. UNCHANGED call
    BY <1>3 DEF WatcherExit
  <2> QED
    BY <1>3, <2>1, <2>2, ExitEffect DEF TargetInv, Alive, Signalled, OwnedBy, Forgotten
<1>4. ASSUME NEW c \in Clients, RetireWait(c) PROVE TargetInv'
  <2>1. Holding(c) /\ call'[c].pc \notin {"wait", "spawn"}
    BY <1>4, RetireWaitMoves DEF RetireWait, MovesTo, Holding, ShapeInv
  <2> QED
    BY <1>1, <1>4, <2>1 DEF CallStep
<1>5. ASSUME NEW c \in Clients, Reserve(c) PROVE TargetInv'
  <2>1. PICK w \in Watchers :
          /\ entry' \in Entries /\ entry'.watcher = w
          /\ watcher'[w].alive /\ ~watcher'[w].running
          /\ MovesTo(c, "spawn", call[c].state, call[c].slot, w)
    BY <1>5, ReserveEffect
  <2>2. Holding(c) /\ call[c].pc = "reserve"
    BY <1>5 DEF Reserve, Holding, ShapeInv
  <2>3. \A d \in Clients : d # c => call'[d].pc \notin {"wait", "spawn"}
    BY <1>5, <2>2, Alone, OthersStay DEF CallStep
  <2>4. entry' # None
    BY <2>1, RegistryAssumption
  <2>5. call'[c].pc = "spawn" /\ call'[c].target = w
    BY <2>1 DEF MovesTo
  <2> QED
    BY <2>1, <2>3, <2>4, <2>5 DEF TargetInv, Alive, OwnedBy
<1>6. ASSUME NEW c \in Clients, Spawn(c) PROVE TargetInv'
  <2>1. Holding(c) /\ call'[c].pc \notin {"wait", "spawn"}
    BY <1>6, UnlockMoves DEF Spawn, MovesTo, Holding, ShapeInv
  <2> QED
    BY <1>1, <1>6, <2>1 DEF CallStep
<1>7. ASSUME NEW c \in Clients, ReleaseReservation(c) PROVE TargetInv'
  <2>1. Holding(c) /\ call'[c].pc \notin {"wait", "spawn"}
    BY <1>7, UnlockMoves DEF ReleaseReservation, MovesTo, Holding, ShapeInv
  <2> QED
    BY <1>1, <1>7, <2>1 DEF CallStep
<1>8. CASE WriteConfig \/ ResetIndex \/ Evict \/ UNCHANGED vars
  <2>1. UNCHANGED <<entry, watcher, call>>
    BY <1>8 DEF WriteConfig, ResetIndex, Evict, vars
  <2> QED
    BY <2>1, TargetFrame DEF EntryKept
<1>9. ASSUME NEW c \in Clients, Connect(c) \/ Disconnect(c) \/ LastClientWait(c) PROVE TargetInv'
  <2>1. UNCHANGED call
    BY <1>9 DEF Connect, Disconnect, LastClientWait
  <2> QED
    BY <1>9, <2>1, KeptSteps, TargetFrame
<1>10. ASSUME NEW c \in Clients, LastClientStop(c) PROVE TargetInv'
  <2>1. UNCHANGED call
    BY <1>10 DEF LastClientStop
  <2> QED
    BY <1>10, <2>1, SignalSteps, TargetSignal, TargetFrame DEF SignalStep
<1>11. ASSUME NEW c \in Clients, StopProject(c) PROVE TargetInv'
  <2>1. Holding(c) /\ call'[c].pc \notin {"wait", "spawn"}
    BY <1>11, StopProjectMoves DEF StopProject, MovesTo, Holding, ShapeInv
  <2> QED
    BY <1>1, <1>11, <2>1 DEF CallStep
<1>12. ASSUME NEW c \in Clients, Retire(c) PROVE TargetInv'
  <2>1. MovesTo(c, "wait", call[c].state, call[c].slot, entry.watcher) /\ entry.watcher \in Watchers
    BY <1>12, RetireMoves
  <2>2. SignalStep(entry.watcher)
    BY <1>12, <2>1 DEF Retire, SignalStep
  <2> QED
    BY <2>1, <2>2, TargetSignal DEF MovesTo
<1> QED
  BY <1>2, <1>3, <1>4, <1>5, <1>6, <1>7, <1>8, <1>9, <1>10, <1>11, <1>12 DEF Next, CallStep

\* The call that is about to create the thread does not go away.
LEMMA PhantomFrame ==
    ASSUME NoPhantomWatcher,
           \A d \in Clients : call[d].pc = "spawn" => call'[d] = call[d],
           LiveEntry' => /\ LiveEntry /\ entry'.watcher = entry.watcher
                         /\ watcher'[entry.watcher].running = watcher[entry.watcher].running
    PROVE  NoPhantomWatcher'
  BY DEF NoPhantomWatcher

LEMMA PhantomKept ==
    ASSUME NoPhantomWatcher, EntryKept,
           \A d \in Clients : call[d].pc = "spawn" => call'[d] = call[d]
    PROVE  NoPhantomWatcher'
<1>1. LiveEntry' => /\ LiveEntry /\ entry'.watcher = entry.watcher
                    /\ watcher'[entry.watcher].running = watcher[entry.watcher].running
  BY DEF EntryKept, LiveEntry, Alive
<1> QED
  BY <1>1, PhantomFrame

LEMMA PhantomSignal ==
    ASSUME NoPhantomWatcher, TypeOK, NEW w \in Watchers, SignalStep(w),
           \A d \in Clients : call[d].pc = "spawn" => call'[d] = call[d]
    PROVE  NoPhantomWatcher'
<1>1. entry # None => entry.watcher \in Watchers
  BY DEF TypeOK, Entries
<1>2. LiveEntry' => /\ LiveEntry /\ entry'.watcher = entry.watcher
                    /\ watcher'[entry.watcher].running = watcher[entry.watcher].running
  BY <1>1, SignalEffect DEF SignalStep, LiveEntry, Alive
<1> QED
  BY <1>2, PhantomFrame

LEMMA NextPhantom == IInv /\ [Next]_vars => NoPhantomWatcher'
<1> SUFFICES ASSUME IInv, [Next]_vars PROVE NoPhantomWatcher'
  OBVIOUS
<1> USE DEF IInv
<1>1. entry # None => entry.watcher \in Watchers
  BY DEF TypeOK, Entries
<1>2. ASSUME NEW c \in Clients,
             \/ UseCached(c) \/ NotOnboarded(c) \/ StatConfig(c) \/ ReadConfig(c)
             \/ AcquireLease(c) \/ Reconcile(c) \/ DropLease(c) \/ Decide(c) \/ KeepRunning(c)
             \/ StopProjectWait(c)
      PROVE  NoPhantomWatcher'
  <2>1. \A d \in Clients : call[d].pc = "spawn" => call'[d] = call[d]
    BY <1>2, QuietSteps, OthersStay DEF CallStep
  <2> QED
    BY <1>2, <2>1, KeptSteps, PhantomKept
<1>3. ASSUME NEW w \in Watchers, WatcherExit(w) PROVE NoPhantomWatcher'
  <2>1. UNCHANGED call
    BY <1>3 DEF WatcherExit
  <2> QED
    BY <1>1, <1>3, <2>1, ExitEffect, PhantomFrame DEF LiveEntry, Alive, Forgotten
<1>4. ASSUME NEW c \in Clients, RetireWait(c) PROVE NoPhantomWatcher'
  <2>1. \A d \in Clients : call[d].pc = "spawn" => call'[d] = call[d]
    BY <1>4, QuietSteps, OthersStay DEF CallStep
  <2>2. CASE EntryKept
    BY <2>1, <2>2, PhantomKept
  <2>3. CASE UNCHANGED watcher /\ entry # None /\ entry' # None /\ entry'.watcher = entry.watcher
    BY <2>1, <2>3, PhantomFrame DEF LiveEntry, Alive
  <2>4. CASE entry' = None
    BY <2>4 DEF NoPhantomWatcher, LiveEntry
  <2> QED
    BY <1>4, <2>2, <2>3, <2>4, RetireWaitEffect
<1>5. ASSUME NEW c \in Clients, Reserve(c) PROVE NoPhantomWatcher'
  <2>1. PICK w \in Watchers :
          entry'.watcher = w /\ MovesTo(c, "spawn", call[c].state, call[c].slot, w)
    BY <1>5, ReserveEffect
  <2> QED
    BY <2>1 DEF NoPhantomWatcher, MovesTo
<1>6. ASSUME NEW c \in Clients, Spawn(c) PROVE NoPhantomWatcher'
  <2>1. OwnedBy(call[c].target)
    BY <1>6 DEF Spawn, TargetInv
  <2>2. watcher'[call[c].target].running /\ UNCHANGED entry
    BY <1>6, SpawnEffect, StartEffect
  <2> QED
    BY <2>1, <2>2 DEF NoPhantomWatcher, OwnedBy
<1>7. ASSUME NEW c \in Clients, ReleaseReservation(c) PROVE NoPhantomWatcher'
  BY <1>7, ReleaseEffect DEF NoPhantomWatcher, LiveEntry
<1>8. CASE WriteConfig \/ ResetIndex \/ Evict \/ UNCHANGED vars
  <2>1. UNCHANGED <<entry, watcher, call>>
    BY <1>8 DEF WriteConfig, ResetIndex, Evict, vars
  <2> QED
    BY <2>1, PhantomKept DEF EntryKept
<1>9. ASSUME NEW c \in Clients, Connect(c) \/ Disconnect(c) \/ LastClientWait(c)
      PROVE  NoPhantomWatcher'
  <2>1. UNCHANGED call
    BY <1>9 DEF Connect, Disconnect, LastClientWait
  <2> QED
    BY <1>9, <2>1, KeptSteps, PhantomKept
<1>10. ASSUME NEW c \in Clients, Retire(c) \/ StopProject(c) \/ LastClientStop(c)
       PROVE  NoPhantomWatcher'
  <2>1. \A d \in Clients : call[d].pc = "spawn" => call'[d] = call[d]
    BY <1>10, OthersStay DEF CallStep, Retire, StopProject, LastClientStop
  <2> QED
    BY <1>1, <1>10, <2>1, SignalSteps, PhantomKept, PhantomSignal
<1> QED
  BY <1>2, <1>3, <1>4, <1>5, <1>6, <1>7, <1>8, <1>9, <1>10 DEF Next, CallStep

-----------------------------------------------------------------------------
(* The clients that come and go.                                           *)

LEMMA NextAssured == IInv /\ [Next]_vars => AssuredInv'
<1> SUFFICES ASSUME IInv, [Next]_vars PROVE AssuredInv'
  OBVIOUS
<1> USE DEF IInv, AssuredInv
<1>1. CASE UNCHANGED <<connected, assured>>
  BY <1>1
<1>2. ASSUME NEW w \in Watchers, WatcherExit(w) PROVE AssuredInv'
  BY <1>2 DEF WatcherExit
<1>3. ASSUME NEW c \in Clients, Connect(c) \/ Disconnect(c) PROVE AssuredInv'
  BY <1>3 DEF Connect, Disconnect, TypeOK
<1>4. ASSUME NEW c \in Clients, KeepRunning(c) \/ Spawn(c) PROVE AssuredInv'
  BY <1>4 DEF KeepRunning, Spawn, TypeOK
<1>5. CASE WriteConfig \/ ResetIndex \/ Evict \/ UNCHANGED vars
  BY <1>1, <1>5 DEF WriteConfig, ResetIndex, Evict, vars
<1>6. ASSUME NEW c \in Clients, LastClientStop(c) \/ LastClientWait(c) \/ CallStep(c)
      PROVE  AssuredInv'
  BY <1>1, <1>4, <1>6
  DEF LastClientStop, LastClientWait, CallStep, UseCached, NotOnboarded, StatConfig, ReadConfig,
      AcquireLease, Reconcile, DropLease, Decide, Retire, RetireWait, Reserve,
      ReleaseReservation, StopProject, StopProjectWait
<1> QED
  BY <1>2, <1>3, <1>5, <1>6 DEF Next

\* No client gets a watcher it did not have, and none of theirs is stopped for
\* the lack of clients.
LEMMA KeepsFrame ==
    ASSUME ClientKeepsWatcher, TypeOK, UNCHANGED <<connected, assured>>,
           \A w \in Watchers :
              watcher'[w].stoppedBy = "clients" => watcher[w].stoppedBy = "clients"
    PROVE  ClientKeepsWatcher'
<1>1. \A d \in connected : assured[d] # None => assured[d] \in Watchers
  BY DEF TypeOK
<1> QED
  BY <1>1 DEF ClientKeepsWatcher

LEMMA NextKeeps == IInv /\ [Next]_vars => ClientKeepsWatcher'
<1> SUFFICES ASSUME IInv, [Next]_vars PROVE ClientKeepsWatcher'
  OBVIOUS
<1> USE DEF IInv
<1>1. CASE UNCHANGED <<connected, assured, watcher>>
  BY <1>1 DEF ClientKeepsWatcher
<1>2. ASSUME NEW w \in Watchers, WatcherExit(w) PROVE ClientKeepsWatcher'
  <2>1. \A d \in connected : assured'[d] # None => assured'[d] = assured[d] /\ assured[d] # w
                                                   /\ assured[d] \in Watchers
    BY <1>2 DEF WatcherExit, TypeOK
  <2>2. UNCHANGED connected
    BY <1>2 DEF WatcherExit
  <2> QED
    BY <1>2, <2>1, <2>2, ExitEffect DEF ClientKeepsWatcher
<1>3. ASSUME NEW c \in Clients, Connect(c) PROVE ClientKeepsWatcher'
  BY <1>3 DEF Connect, AssuredInv, ClientKeepsWatcher
<1>4. ASSUME NEW c \in Clients, Disconnect(c) PROVE ClientKeepsWatcher'
  BY <1>4 DEF Disconnect, ClientKeepsWatcher, TypeOK
<1>5. ASSUME NEW c \in Clients, LastClientStop(c) PROVE ClientKeepsWatcher'
  <2>1. CASE connected = {}
    BY <1>5, <2>1 DEF LastClientStop, ClientKeepsWatcher
  <2>2. CASE connected # {}
    BY <1>1, <1>5, <2>2 DEF LastClientStop, StopWanted
  <2> QED
    BY <2>1, <2>2
<1>6. ASSUME NEW c \in Clients, KeepRunning(c) PROVE ClientKeepsWatcher'
  <2>1. watcher[entry.watcher].stoppedBy = None /\ UNCHANGED <<connected, watcher>>
    BY <1>6 DEF KeepRunning, Signalled
  <2>2. \A d \in Clients : assured'[d] = assured[d] \/ assured'[d] = entry.watcher
    BY <1>6 DEF KeepRunning, TypeOK
  <2> QED
    BY <2>1, <2>2, RegistryAssumption DEF ClientKeepsWatcher, TypeOK
<1>7. ASSUME NEW c \in Clients, Spawn(c) PROVE ClientKeepsWatcher'
  <2>1. \A v \in Watchers : watcher'[v].stoppedBy = watcher[v].stoppedBy
    BY <1>7, SpawnEffect, StartEffect
  <2>2. /\ call[c].target \in Watchers /\ UNCHANGED connected
        /\ \A d \in Clients : \/ assured'[d] = assured[d]
                              \/ /\ assured'[d] = call[c].target
                                 /\ watcher[call[c].target].stoppedBy = None
    BY <1>7, SpawnEffect DEF Spawn, Signalled, TypeOK
  <2> QED
    BY <2>1, <2>2, RegistryAssumption DEF ClientKeepsWatcher, TypeOK
<1>8. ASSUME NEW c \in Clients, Retire(c) \/ StopProject(c) PROVE ClientKeepsWatcher'
  <2>1. \A w \in Watchers :
           watcher'[w].stoppedBy = "clients" => watcher[w].stoppedBy = "clients"
    <3>1. UNCHANGED watcher
          \/ (entry.watcher \in Watchers /\ watcher' = Signal(entry.watcher, "call"))
      BY <1>8, RetireMoves, StopProjectMoves DEF Retire
    <3> QED
      BY <3>1, SignalEffect
  <2>2. UNCHANGED <<connected, assured>>
    BY <1>8 DEF Retire, StopProject
  <2> QED
    BY <2>1, <2>2, KeepsFrame
<1>9. ASSUME NEW c \in Clients, RetireWait(c) PROVE ClientKeepsWatcher'
  <2>1. UNCHANGED watcher
        \/ \E w \in Watchers : watcher' = [watcher EXCEPT ![w].detached = TRUE]
    BY <1>9, RetireWaitEffect DEF EntryKept
  <2>2. \A w \in Watchers : watcher'[w].stoppedBy = watcher[w].stoppedBy
    BY <2>1, DetachEffect
  <2>3. UNCHANGED <<connected, assured>>
    BY <1>9 DEF RetireWait
  <2> QED
    BY <2>2, <2>3, KeepsFrame
<1>10. ASSUME NEW c \in Clients, Reserve(c) PROVE ClientKeepsWatcher'
  <2>1. \A w \in Watchers :
           watcher'[w].stoppedBy = "clients" => watcher[w].stoppedBy = "clients"
    BY <1>10, ReserveEffect, RegistryAssumption
  <2>2. UNCHANGED <<connected, assured>>
    BY <1>10 DEF Reserve
  <2> QED
    BY <2>1, <2>2, KeepsFrame
<1>11. ASSUME NEW c \in Clients, ReleaseReservation(c) PROVE ClientKeepsWatcher'
  <2>1. \A w \in Watchers :
           watcher'[w].stoppedBy = "clients" => watcher[w].stoppedBy = "clients"
    BY <1>11, ReleaseEffect, RegistryAssumption DEF Forgotten
  <2>2. UNCHANGED <<connected, assured>>
    BY <1>11 DEF ReleaseReservation
  <2> QED
    BY <2>1, <2>2, KeepsFrame
<1>12. CASE WriteConfig \/ ResetIndex \/ Evict \/ UNCHANGED vars
  BY <1>1, <1>12 DEF WriteConfig, ResetIndex, Evict, vars
<1>13. ASSUME NEW c \in Clients,
              \/ LastClientWait(c) \/ UseCached(c) \/ NotOnboarded(c) \/ StatConfig(c)
              \/ ReadConfig(c) \/ AcquireLease(c) \/ Reconcile(c) \/ DropLease(c) \/ Decide(c)
              \/ StopProjectWait(c)
       PROVE  ClientKeepsWatcher'
  BY <1>1, <1>13
  DEF LastClientWait, UseCached, NotOnboarded, StatConfig, ReadConfig, AcquireLease, Reconcile,
      DropLease, Decide, StopProjectWait
<1> QED
  BY <1>2, <1>3, <1>4, <1>5, <1>6, <1>7, <1>8, <1>9, <1>10, <1>11, <1>12, <1>13
  DEF Next, CallStep

\* Nothing comes to life, and no flag that excuses a watcher is taken back.
LEMMA AbsenceFrame ==
    ASSUME AbsenceInv, UNCHANGED connected,
           \A c \in Clients : stop[c].pc = "signal" => stop'[c].pc = "signal",
           \A w \in Watchers :
              watcher'[w].alive =>
                 /\ watcher[w].alive
                 /\ watcher[w].stoppedBy # None => watcher'[w].stoppedBy # None
                 /\ watcher[w].unattended => watcher'[w].unattended
    PROVE  AbsenceInv'
  BY DEF AbsenceInv, Alive, Signalled

LEMMA NextAbsence == IInv /\ [Next]_vars => AbsenceInv'
<1> SUFFICES ASSUME IInv, [Next]_vars PROVE AbsenceInv'
  OBVIOUS
<1> USE DEF IInv
<1>1. CASE UNCHANGED <<connected, stop, watcher>>
  BY <1>1 DEF AbsenceInv, Alive, Signalled
<1>2. ASSUME NEW w \in Watchers, WatcherExit(w) PROVE AbsenceInv'
  <2>1. UNCHANGED <<connected, stop>>
    BY <1>2 DEF WatcherExit
  <2> QED
    BY <1>2, <2>1, ExitEffect, AbsenceFrame DEF Forgotten
<1>3. ASSUME NEW c \in Clients, Connect(c) PROVE AbsenceInv'
  BY <1>3 DEF Connect, AbsenceInv
<1>4. ASSUME NEW c \in Clients, Disconnect(c) PROVE AbsenceInv'
  <2>1. connected' = {} => stop'[c].pc = "signal"
    BY <1>4 DEF Disconnect, TypeOK
  <2> QED
    BY <2>1 DEF AbsenceInv
<1>5. ASSUME NEW c \in Clients, LastClientStop(c) PROVE AbsenceInv'
  <2>1. CASE connected # {}
    BY <1>5, <2>1 DEF LastClientStop, AbsenceInv
  <2>2. CASE connected = {} /\ entry = None
    <3>1. UNCHANGED watcher
      BY <1>5, <2>2 DEF LastClientStop, Stoppable
    <3> QED
      BY <2>2, <3>1 DEF AbsenceInv, AliveInv, Alive, Signalled, OwnedBy
  <2>3. CASE connected = {} /\ entry # None
    <3>1. watcher' = Signal(entry.watcher, "clients") /\ entry.watcher \in Watchers
      BY <1>5, <2>3 DEF LastClientStop, Stoppable, StopWanted, TypeOK, Entries
    <3>2. \A v \in Watchers : watcher'[v].alive =>
             /\ watcher[v].alive
             /\ v = entry.watcher \/ watcher[v].stoppedBy # None => watcher'[v].stoppedBy # None
      BY <3>1, SignalEffect
    <3> QED
      BY <2>3, <3>2 DEF AbsenceInv, AliveInv, Alive, Signalled, OwnedBy
  <2> QED
    BY <2>1, <2>2, <2>3
<1>6. ASSUME NEW c \in Clients, LastClientWait(c) PROVE AbsenceInv'
  <2>1. \A d \in Clients : stop[d].pc = "signal" => stop'[d].pc = "signal"
    BY <1>6 DEF LastClientWait, TypeOK
  <2>2. UNCHANGED <<connected, watcher>>
    BY <1>6 DEF LastClientWait
  <2> QED
    BY <2>1, <2>2, AbsenceFrame
<1>7. ASSUME NEW c \in Clients, Retire(c) \/ StopProject(c) PROVE AbsenceInv'
  <2>1. UNCHANGED watcher
        \/ (entry.watcher \in Watchers /\ watcher' = Signal(entry.watcher, "call"))
    BY <1>7, RetireMoves, StopProjectMoves DEF Retire
  <2>2. UNCHANGED <<connected, stop>>
    BY <1>7 DEF Retire, StopProject
  <2> QED
    BY <2>1, <2>2, SignalEffect, AbsenceFrame
<1>8. ASSUME NEW c \in Clients, RetireWait(c) PROVE AbsenceInv'
  <2>1. UNCHANGED watcher
        \/ \E w \in Watchers : watcher' = [watcher EXCEPT ![w].detached = TRUE]
    BY <1>8, RetireWaitEffect DEF EntryKept
  <2>2. UNCHANGED <<connected, stop>>
    BY <1>8 DEF RetireWait
  <2> QED
    BY <2>1, <2>2, DetachEffect, AbsenceFrame
<1>9. ASSUME NEW c \in Clients, Reserve(c) PROVE AbsenceInv'
  <2>1. PICK w \in Watchers :
          /\ \A v \in Watchers : v # w => watcher'[v] = watcher[v]
          /\ connected = {} => watcher'[w].unattended
    BY <1>9, ReserveEffect
  <2>2. UNCHANGED <<connected, stop>>
    BY <1>9 DEF Reserve
  <2> QED
    BY <2>1, <2>2 DEF AbsenceInv, Alive, Signalled
<1>10. ASSUME NEW c \in Clients, Spawn(c) PROVE AbsenceInv'
  <2>1. UNCHANGED <<connected, stop>>
    BY <1>10 DEF Spawn
  <2> QED
    BY <1>10, <2>1, SpawnEffect, StartEffect, AbsenceFrame
<1>11. ASSUME NEW c \in Clients, ReleaseReservation(c) PROVE AbsenceInv'
  <2>1. UNCHANGED <<connected, stop>>
    BY <1>11 DEF ReleaseReservation
  <2> QED
    BY <1>11, <2>1, ReleaseEffect, AbsenceFrame DEF Forgotten
<1>12. CASE WriteConfig \/ ResetIndex \/ Evict \/ UNCHANGED vars
  BY <1>1, <1>12 DEF WriteConfig, ResetIndex, Evict, vars
<1>13. ASSUME NEW c \in Clients,
              \/ UseCached(c) \/ NotOnboarded(c) \/ StatConfig(c)
              \/ ReadConfig(c) \/ AcquireLease(c) \/ Reconcile(c) \/ DropLease(c) \/ Decide(c)
              \/ KeepRunning(c) \/ StopProjectWait(c)
       PROVE  AbsenceInv'
  BY <1>1, <1>13
  DEF UseCached, NotOnboarded, StatConfig, ReadConfig, AcquireLease, Reconcile,
      DropLease, Decide, KeepRunning, StopProjectWait
<1> QED
  BY <1>2, <1>3, <1>4, <1>5, <1>6, <1>7, <1>8, <1>9, <1>10, <1>11, <1>12, <1>13
  DEF Next, CallStep

-----------------------------------------------------------------------------
(* The theorems.                                                           *)

\* The registry's inductive invariant.
THEOREM Inductive == Spec => []IInv
<1>1. IInv /\ [Next]_vars => IInv'
  BY NextTypeOK, NextShape, NextLock, NextAlive, NextTarget, NextStamp, NextAssured, NextAbsence,
     NextPhantom, NextCached, NextKeeps DEF IInv
<1> QED
  BY InitIInv, <1>1, PTL DEF Spec

\* Every variable of the registry keeps its type.
THEOREM TypeCorrect == Spec => []TypeOK
<1>1. IInv => TypeOK
  BY DEF IInv
<1> QED
  BY <1>1, Inductive, PTL

\* However calls, stops and exits interleave (mcp/state.rs), a thread that runs
\* and was not detached is the one the registry names.
THEOREM OneWatcherRuns == Spec => []OneWatcher
<1>1. IInv => OneWatcher
  BY DEF IInv, AliveInv, OneWatcher
<1> QED
  BY <1>1, Inductive, PTL

\* No entry looks alive for a thread that nobody is going to create.
THEOREM NoPhantom == Spec => []NoPhantomWatcher
<1>1. IInv => NoPhantomWatcher
  BY DEF IInv
<1> QED
  BY <1>1, Inductive, PTL

\* A call that was delayed anywhere between its read of config.toml and its
\* reservation does not act on a configuration older than one acted on before.
THEOREM NewestActs == Spec => []NewestConfigActs
<1>1. IInv => NewestConfigActs
  BY DEF IInv, StampInv, ShapeInv, Holding, NewestConfigActs
<1> QED
  BY <1>1, Inductive, PTL

\* A cached configuration that passes for valid is the one on disk.
THEOREM CacheCurrent == Spec => []CachedConfigCurrent
<1>1. IInv => CachedConfigCurrent
  BY DEF IInv
<1> QED
  BY <1>1, Inductive, PTL

\* The stop that follows the last client's departure never takes the watcher
\* of a client that has connected since.
THEOREM ClientKeeps == Spec => []ClientKeepsWatcher
<1>1. IInv => ClientKeepsWatcher
  BY DEF IInv
<1> QED
  BY <1>1, Inductive, PTL

\* When all clients and all they set off are gone, every watcher that runs was
\* told to stop, save one reserved by a call that outlived its client.
THEOREM StopsWithLast == Spec => []StopsWithLastClient
<1>1. IInv => StopsWithLastClient
  BY DEF IInv, AbsenceInv, AliveInv, StopsWithLastClient
<1> QED
  BY <1>1, Inductive, PTL
=============================================================================
