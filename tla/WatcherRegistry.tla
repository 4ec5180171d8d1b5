--------------------------- MODULE WatcherRegistry ---------------------------
(***************************************************************************)
(* The daemon's registry of live watchers (crates/cli/src/mcp/state.rs),   *)
(* for one project root.  Every tool call resolves the project, from the   *)
(* project cache or by reading config.toml, and then reconciles the root's *)
(* watcher with what it resolved: it starts one, keeps the one that runs,  *)
(* replaces one of another configuration, or stops it.  Calls of one root  *)
(* do this under a lock that exists only while some call needs it.  The    *)
(* stop of all watchers, by the last client that leaves or by the daemon's *)
(* shutdown, and the sweep of dead entries do not take that lock; they     *)
(* meet the calls in the registry map only.                                *)
(*                                                                         *)
(* One action is one critical section of the registry map, or one access   *)
(* to the file system.  The waits for a watcher to exit (5 s in a call,    *)
(* 60 s in the last client's stop) may time out at any moment at which the *)
(* watcher lives.  Join handles have no effect on the registry and are     *)
(* left out, and so is the text of a configuration: two configurations are *)
(* equal or they are not.                                                  *)
(***************************************************************************)
EXTENDS Naturals, FiniteSets

CONSTANTS
    Clients,      \* connections, each with at most one call under way
    Keys,         \* configurations with which a watcher may run
    Off,          \* a configuration that opts out of watching
    Broken,       \* a configuration that cannot be used
    Watchers,     \* identities of watcher threads, reused when forgotten
    Slots,        \* identities of lifecycle locks, reused when forgotten
    None,
    MaxEdits,     \* bound: writes of config.toml
    MaxResets     \* bound: removals and creations of the index

Configs == Keys \cup {Off, Broken}
States == [stamp : 0..MaxEdits, value : Configs]
Entries == [watcher : Watchers, key : Keys, stopping : BOOLEAN]
Flags == [alive : BOOLEAN, running : BOOLEAN, detached : BOOLEAN,
          stoppedBy : {"call", "clients", None}, unattended : BOOLEAN]
PCs == {"idle", "resolve", "read", "acquire", "lock", "decide",
        "reserve", "wait", "spawn", "stop", "stopwait", "unlock"}
Calls == [pc : PCs, state : States \cup {None},
          slot : Slots \cup {None}, target : Watchers \cup {None}]

ASSUME RegistryAssumption ==
    /\ None \notin Watchers \cup Slots \cup Clients \cup States \cup Entries
    /\ None \notin {"call", "clients"}
    /\ Off \notin Keys /\ Broken \notin Keys /\ Off # Broken
    /\ IsFiniteSet(Clients) /\ IsFiniteSet(Slots)
    /\ Cardinality(Slots) >= Cardinality(Clients)
    /\ MaxEdits \in Nat /\ MaxResets \in Nat

VARIABLES
    config,       \* config.toml: its modification time and what it says
    index,        \* does the project's index.db exist, and how often it changed
    cache,        \* the project's entry in the project cache, or None
    entry,        \* the root's entry in the registry of watchers, or None
    watcher,      \* every watcher's flags
    lease,        \* the root's lifecycle lock in its registry, or None
    owner,        \* who holds each lifecycle lock
    connected,    \* the clients that are connected
    call,         \* every client's call
    stop,         \* the stops of all watchers that are under way
    decided,      \* history: the newest configuration a call has acted on
    assured       \* history: the watcher a client's last call left running

vars == <<config, index, cache, entry, watcher, lease, owner, connected,
          call, stop, decided, assured>>

project == <<config, index>>

\* A watcher that was never started, or that everyone has forgotten.
Forgotten == [alive |-> FALSE, running |-> FALSE, stoppedBy |-> None,
              detached |-> FALSE, unattended |-> FALSE]

Idle == [pc |-> "idle", state |-> None, slot |-> None, target |-> None]

\* A call that has made up its mind goes on without what it had resolved.
Goto(c, pc) ==
    [call EXCEPT ![c].pc = pc, ![c].state = None, ![c].target = None]

NoStop == [pc |-> "idle", target |-> None]

Init ==
    /\ config \in [stamp : {0}, value : Keys]
    /\ index = [exists |-> TRUE, changes |-> 0]
    /\ cache = None
    /\ entry = None
    /\ watcher = [w \in Watchers |-> Forgotten]
    /\ lease = None
    /\ owner = [s \in Slots |-> None]
    /\ connected = {}
    /\ call = [c \in Clients |-> Idle]
    /\ stop = [c \in Clients |-> NoStop]
    /\ decided = 0
    /\ assured = [c \in Clients |-> None]

-----------------------------------------------------------------------------
(* The registry's entry.  An entry is the watcher's own while it carries   *)
(* the watcher's flags: the code compares the pointers.                    *)

Alive(w) == watcher[w].alive

Signalled(w) == watcher[w].stoppedBy # None

OwnedBy(w) == entry # None /\ entry.watcher = w

LiveEntry == entry # None /\ Alive(entry.watcher)

\* The flag is set once; who set it first is remembered.
Signal(w, who) ==
    IF Signalled(w) THEN watcher
    ELSE [watcher EXCEPT ![w].stoppedBy = who]

Unregister(w) == IF OwnedBy(w) THEN None ELSE entry

\* cache_project drops the entries of watchers that have ended.
Swept == IF LiveEntry THEN entry ELSE None

Waiting(w) ==
    \/ \E c \in Clients : call[c].target = w
    \/ \E c \in Clients : stop[c].target = w

\* The identities no entry, no waiter and no thread refers to.
Fresh ==
    {w \in Watchers :
        ~Alive(w) /\ ~OwnedBy(w) /\ ~Waiting(w)}

-----------------------------------------------------------------------------
(* The project's files and the watcher threads.                            *)

\* config.toml is written; every write has a modification time of its own.
WriteConfig ==
    /\ config.stamp < MaxEdits
    /\ \E v \in Configs \ {config.value} :
          config' = [stamp |-> config.stamp + 1, value |-> v]
    /\ UNCHANGED <<index, cache, entry, watcher, lease, owner, connected,
                   call, stop, decided, assured>>

\* The index is removed, or created again.
ResetIndex ==
    /\ index.changes < MaxResets
    /\ index' = [exists |-> ~index.exists, changes |-> index.changes + 1]
    /\ UNCHANGED <<config, cache, entry, watcher, lease, owner, connected,
                   call, stop, decided, assured>>

\* A watcher ends: it was told to, it was idle, or it failed.  Its guard
\* clears the flag even when the thread unwinds.
WatcherExit(w) ==
    /\ watcher[w].running
    /\ watcher' = [watcher EXCEPT ![w] = Forgotten]
    /\ assured' = [c \in Clients |->
                     IF assured[c] = w THEN None ELSE assured[c]]
    /\ UNCHANGED <<project, cache, entry, lease, owner, connected, call,
                   stop, decided>>

\* Other projects push this one out of the cache, which spares the projects
\* whose watcher lives.
Evict ==
    /\ cache # None
    /\ ~LiveEntry
    /\ cache' = None
    /\ UNCHANGED <<project, entry, watcher, lease, owner, connected, call,
                   stop, decided, assured>>

-----------------------------------------------------------------------------
(* Connections, and the stop of all watchers.                              *)

Connect(c) ==
    /\ c \notin connected
    /\ call[c].pc = "idle"
    /\ stop[c].pc = "idle"
    /\ connected' = connected \cup {c}
    /\ UNCHANGED <<project, cache, entry, watcher, lease, owner, call, stop,
                   decided, assured>>

\* The connection ends, with or without a call under way.  The last one to
\* leave stops the watchers.
Disconnect(c) ==
    /\ c \in connected
    /\ connected' = connected \ {c}
    /\ stop' = IF connected' = {}
               THEN [stop EXCEPT ![c].pc = "signal"] ELSE stop
    /\ assured' = [assured EXCEPT ![c] = None]
    /\ UNCHANGED <<project, cache, entry, watcher, lease, owner, call,
                   decided>>

\* Mutant: the stop is decided when the client leaves.
StopDecided == TRUE

\* Mutant: an entry whose thread does not exist yet is passed over.
StoppableThread == entry # None /\ watcher[entry.watcher].running

\* A reserved slot is stopped like a running watcher.
Stoppable == entry # None

\* The stop is still wanted if no client is connected by the time it holds
\* the registry's lock.
StopWanted == connected = {}

LastClientStop(c) ==
    /\ stop[c].pc = "signal"
    /\ IF StopWanted /\ Stoppable
       THEN /\ watcher' = Signal(entry.watcher, "clients")
            /\ stop' = [stop EXCEPT ![c] =
                          [pc |-> "wait", target |-> entry.watcher]]
       ELSE /\ stop' = [stop EXCEPT ![c] = NoStop]
            /\ UNCHANGED watcher
    /\ UNCHANGED <<project, cache, entry, lease, owner, connected, call,
                   decided, assured>>

\* The watcher has exited and its entry goes, or the wait is over and the
\* entry stays reserved for it.
LastClientWait(c) ==
    /\ stop[c].pc = "wait"
    /\ entry' = IF Alive(stop[c].target) THEN entry
                ELSE Unregister(stop[c].target)
    /\ stop' = [stop EXCEPT ![c] = NoStop]
    /\ UNCHANGED <<project, cache, watcher, lease, owner, connected, call,
                   decided, assured>>

-----------------------------------------------------------------------------
(* A call resolves the project.                                            *)

StillValid(state) == state.stamp = config.stamp /\ index.exists

CacheHit == cache # None /\ StillValid(cache)

\* A call begins by resolving the project, and resolves it again when it
\* finds, under the lifecycle lock, that it was overtaken by a change.
Beginning(c) ==
    call[c].pc = "idle" /\ c \in connected

Resolving(c) == Beginning(c) \/ call[c].pc = "resolve"

\* Where a call goes with the state it has resolved.
Resolved(c, state) ==
    [call EXCEPT ![c].state = state,
                 ![c].pc = IF call[c].slot = None THEN "acquire" ELSE "decide"]

\* A cached state that is still valid is used.  It is found under the path
\* the call names or, after the path is resolved, under the root; the latter
\* stores the path and sweeps the registry.
UseCached(c) ==
    /\ Resolving(c)
    /\ CacheHit
    /\ call' = Resolved(c, cache)
    /\ entry' \in {entry, Swept}
    /\ UNCHANGED <<project, cache, watcher, lease, owner, connected, stop,
                   decided, assured>>

\* No index: the call fails, or, when it holds the lifecycle lock, it stops
\* the watcher.
NotOnboarded(c) ==
    /\ Resolving(c)
    /\ ~index.exists
    /\ call' = IF call[c].slot = None THEN call ELSE Goto(c, "stop")
    /\ UNCHANGED <<project, cache, entry, watcher, lease, owner, connected,
                   stop, decided, assured>>

\* The modification time is taken before the file is read, and nothing else.
StatConfig(c) ==
    /\ Resolving(c)
    /\ index.exists
    /\ ~CacheHit
    /\ call' = [call EXCEPT ![c].pc = "read", ![c].state = config]
    /\ UNCHANGED <<project, cache, entry, watcher, lease, owner, connected,
                   stop, decided, assured>>

\* Mutant: the file is read before its modification time is taken.
ReadStateFirst(c) == [call[c].state EXCEPT !.stamp = config.stamp]

ReadState(c) == [call[c].state EXCEPT !.value = config.value]

\* An unusable configuration is not cached, and neither is any when the
\* cache is full of projects whose watchers live.
ReadConfig(c) ==
    /\ call[c].pc = "read"
    /\ call' = Resolved(c, ReadState(c))
    /\ IF config.value = Broken
       THEN UNCHANGED <<cache, entry>>
       ELSE /\ cache' \in {ReadState(c)} \cup (IF cache = None THEN {None} ELSE {})
            /\ entry' = Swept
    /\ UNCHANGED <<project, watcher, lease, owner, connected, stop, decided,
                   assured>>

-----------------------------------------------------------------------------
(* The lifecycle lock.  The map holds one reference to the lock and so     *)
(* does every call that has taken a lease.                                 *)

Leaseholders(s) == {c \in Clients : call[c].slot = s}

UnusedSlot == CHOOSE s \in Slots : Leaseholders(s) = {}

AcquireLease(c) ==
    /\ call[c].pc = "acquire"
    /\ LET s == IF lease # None THEN lease ELSE UnusedSlot
       IN /\ lease' = s
          /\ call' = [call EXCEPT ![c].pc = "lock", ![c].slot = s]
    /\ UNCHANGED <<project, cache, entry, watcher, owner, connected, stop,
                   decided, assured>>

\* Mutant: every lease takes the lock out of the map.
LeaseAfterAny(c) == None

\* The last lease takes the lock out of the map.
LeaseAfter(c) ==
    IF lease = call[c].slot /\ Leaseholders(lease) = {c} THEN None ELSE lease

\* The lock is released and the lease dropped; between the two the call
\* still counts as a leaseholder.
DropLease(c) ==
    /\ call[c].pc = "unlock"
    /\ owner' = [owner EXCEPT ![call[c].slot] = None]
    /\ lease' = LeaseAfter(c)
    /\ call' = [call EXCEPT ![c] = Idle]
    /\ UNCHANGED <<project, cache, entry, watcher, connected, stop, decided,
                   assured>>

-----------------------------------------------------------------------------
(* Under the lifecycle lock: what is the configuration now, and what does  *)
(* it ask for.                                                             *)

Reconcile(c) ==
    /\ call[c].pc = "lock"
    /\ owner[call[c].slot] = None
    /\ owner' = [owner EXCEPT ![call[c].slot] = c]
    /\ call' = IF ~index.exists THEN Goto(c, "stop")
               ELSE [call EXCEPT ![c].pc = IF StillValid(call[c].state)
                                           THEN "decide" ELSE "resolve"]
    /\ UNCHANGED <<project, cache, entry, watcher, lease, connected, stop,
                   decided, assured>>

\* watch_enabled, and a configuration without errors.
Watchable(value) == value \in Keys

\* A semantic query, or any call of a project that asks for it, starts a
\* watcher; one that lives is reconciled by every call.
Decide(c) ==
    /\ call[c].pc = "decide"
    /\ \/ /\ ~Watchable(call[c].state.value)
          /\ call' = Goto(c, "stop")
       \/ /\ Watchable(call[c].state.value)
          /\ call' = [call EXCEPT ![c].pc = "reserve"]
       \/ /\ Watchable(call[c].state.value)
          /\ ~LiveEntry
          /\ call' = Goto(c, "unlock")
    /\ decided' = IF call[c].state.stamp > decided
                  THEN call[c].state.stamp ELSE decided
    /\ UNCHANGED <<project, cache, entry, watcher, lease, owner, connected,
                   stop, assured>>

\* A watcher that runs with this configuration is the one the call wanted.
KeepRunning(c) ==
    /\ call[c].pc = "reserve"
    /\ LiveEntry
    /\ ~Signalled(entry.watcher)
    /\ entry.key = call[c].state.value
    /\ call' = Goto(c, "unlock")
    /\ assured' = IF c \in connected
                  THEN [assured EXCEPT ![c] = entry.watcher] ELSE assured
    /\ UNCHANGED <<project, cache, entry, watcher, lease, owner, connected,
                   stop, decided>>

\* One that is stopping, or has another configuration, must exit first.
Retire(c) ==
    /\ call[c].pc = "reserve"
    /\ LiveEntry
    /\ Signalled(entry.watcher) \/ entry.key # call[c].state.value
    /\ watcher' = Signal(entry.watcher, "call")
    /\ call' = [call EXCEPT ![c].pc = "wait", ![c].target = entry.watcher]
    /\ UNCHANGED <<project, cache, entry, lease, owner, connected, stop,
                   decided, assured>>

\* The slot of a watcher that does not exit within the wait: the call gives
\* up, and a later one that finds it no better detaches the watcher.
RetireWait(c) ==
    /\ call[c].pc = "wait"
    /\ LET w == call[c].target
           again == [call EXCEPT ![c].pc = "reserve", ![c].target = None]
       IN \/ /\ ~Alive(w)
             /\ call' = again
             /\ UNCHANGED <<entry, watcher>>
          \/ /\ Alive(w) /\ ~OwnedBy(w)
             /\ call' = Goto(c, "unlock")
             /\ UNCHANGED <<entry, watcher>>
          \/ /\ Alive(w) /\ OwnedBy(w)
             /\ entry' = [entry EXCEPT !.stopping = TRUE]
             /\ call' = Goto(c, "unlock")
             /\ UNCHANGED watcher
          \/ /\ Alive(w) /\ OwnedBy(w) /\ entry.stopping
             /\ entry' = None
             /\ watcher' = [watcher EXCEPT ![w].detached = TRUE]
             /\ call' = again
    /\ UNCHANGED <<project, cache, lease, owner, connected, stop, decided,
                   assured>>

\* Mutant: a watcher that was told to stop no longer holds its slot.
SlotFreeOnceSignalled == LiveEntry => Signalled(entry.watcher)

SlotFree == ~LiveEntry

\* The slot is the call's before the watcher's thread exists.
Reserve(c) ==
    /\ call[c].pc = "reserve"
    /\ SlotFree
    /\ \E w \in Fresh :
          /\ entry' = [watcher |-> w, key |-> call[c].state.value,
                       stopping |-> FALSE]
          /\ watcher' = [watcher EXCEPT ![w] =
                           [Forgotten EXCEPT !.alive = TRUE,
                                             !.unattended = connected = {}]]
          /\ call' = [call EXCEPT ![c].pc = "spawn", ![c].target = w]
    /\ UNCHANGED <<project, cache, lease, owner, connected, stop, decided,
                   assured>>

\* config.toml is read once more for the thread's exclusions.
Spawn(c) ==
    /\ call[c].pc = "spawn"
    /\ Watchable(config.value)
    /\ watcher' = [watcher EXCEPT ![call[c].target].running = TRUE]
    /\ call' = Goto(c, "unlock")
    /\ assured' = IF c \in connected /\ ~Signalled(call[c].target)
                  THEN [assured EXCEPT ![c] = call[c].target] ELSE assured
    /\ UNCHANGED <<project, cache, entry, lease, owner, connected, stop,
                   decided>>

\* Mutant: the reservation outlives a failed start.
ReleasedNever(c) == entry

\* The configuration is no longer usable, or no thread can be created: the
\* reservation is released, unless the slot is another watcher's by now.
\* A watcher that never was is forgotten with its entry.  (Its flag is never
\* cleared: a stop that waits for it waits in vain and then, as here, leaves
\* the registry alone.)
Released(c) == Unregister(call[c].target)

ReleaseReservation(c) ==
    /\ call[c].pc = "spawn"
    /\ entry' = Released(c)
    /\ call' = Goto(c, "unlock")
    /\ watcher' = IF entry' = entry THEN watcher
                  ELSE [watcher EXCEPT ![call[c].target] = Forgotten]
    /\ UNCHANGED <<project, cache, lease, owner, connected, stop, decided,
                   assured>>

-----------------------------------------------------------------------------
(* The configuration, or the lack of an index, asks for no watcher.        *)

StopProject(c) ==
    /\ call[c].pc = "stop"
    /\ IF entry = None
       THEN /\ call' = Goto(c, "unlock")
            /\ UNCHANGED watcher
       ELSE /\ watcher' = Signal(entry.watcher, "call")
            /\ call' = [call EXCEPT ![c].pc = "stopwait",
                                    ![c].target = entry.watcher]
    /\ UNCHANGED <<project, cache, entry, lease, owner, connected, stop,
                   decided, assured>>

StopProjectWait(c) ==
    /\ call[c].pc = "stopwait"
    /\ entry' = IF Alive(call[c].target) THEN entry
                ELSE Unregister(call[c].target)
    /\ call' = Goto(c, "unlock")
    /\ UNCHANGED <<project, cache, watcher, lease, owner, connected, stop,
                   decided, assured>>

-----------------------------------------------------------------------------
CallStep(c) ==
    \/ UseCached(c) \/ NotOnboarded(c) \/ StatConfig(c) \/ ReadConfig(c)
    \/ AcquireLease(c) \/ Reconcile(c) \/ DropLease(c)
    \/ Decide(c) \/ KeepRunning(c) \/ Retire(c) \/ RetireWait(c)
    \/ Reserve(c) \/ Spawn(c) \/ ReleaseReservation(c)
    \/ StopProject(c) \/ StopProjectWait(c)

Next ==
    \/ WriteConfig \/ ResetIndex \/ Evict
    \/ \E w \in Watchers : WatcherExit(w)
    \/ \E c \in Clients :
          \/ Connect(c) \/ Disconnect(c)
          \/ LastClientStop(c) \/ LastClientWait(c)
          \/ CallStep(c)

Spec == Init /\ [][Next]_vars

-----------------------------------------------------------------------------
(* Properties.                                                             *)

TypeOK ==
    /\ config \in States
    /\ index \in [exists : BOOLEAN, changes : 0..MaxResets]
    /\ cache \in States \cup {None}
    /\ entry \in Entries \cup {None}
    /\ watcher \in [Watchers -> Flags]
    /\ lease \in Slots \cup {None}
    /\ owner \in [Slots -> Clients \cup {None}]
    /\ connected \subseteq Clients
    /\ call \in [Clients -> Calls]
    /\ stop \in [Clients -> [pc : {"idle", "signal", "wait"},
                             target : Watchers \cup {None}]]
    /\ decided \in 0..MaxEdits
    /\ assured \in [Clients -> Watchers \cup {None}]

\* A thread that runs is the one the registry names, so there is one at most
\* and a stop of all watchers reaches it; only one that hung in its shutdown
\* and was detached runs beside it.  "Overlapping watchers duplicate indexing
\* and race on the status file."
OneWatcher ==
    \A w \in Watchers :
        watcher[w].running /\ ~watcher[w].detached => OwnedBy(w)

\* No "never-spawned watcher looks alive forever": an entry that looks alive
\* is that of a thread, or of a call that is about to create it.
NoPhantomWatcher ==
    LiveEntry =>
        \/ watcher[entry.watcher].running
        \/ \E c \in Clients :
              call[c].pc = "spawn" /\ call[c].target = entry.watcher

\* A delayed call never brings back an old configuration: while a call acts
\* on one, no call has acted on a newer one.
NewestConfigActs ==
    \A c \in Clients :
        call[c].pc \in {"reserve", "wait", "spawn"} =>
            call[c].state.stamp >= decided

\* A cached state that passes for valid says what config.toml says, however
\* the file was replaced while it was being read.
CachedConfigCurrent ==
    cache # None /\ cache.stamp = config.stamp => cache.value = config.value

\* A client that was left with a running watcher keeps it while it is
\* connected: no stop meant for an absence of clients takes it away.
ClientKeepsWatcher ==
    \A c \in connected :
        assured[c] # None => watcher[assured[c]].stoppedBy # "clients"

\* Once every client has left and everything they set off has ended, no
\* watcher runs on, save one that a call reserved after its client had gone.
StopsWithLastClient ==
    /\ connected = {}
    /\ \A c \in Clients : call[c].pc = "idle"
    /\ \A c \in Clients : stop[c].pc = "idle"
    => \A w \in Watchers :
          watcher[w].running => Signalled(w) \/ watcher[w].unattended
=============================================================================
