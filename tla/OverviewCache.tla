--------------------------- MODULE OverviewCache ---------------------------
(***************************************************************************)
(* The daemon's risk-ranking cache (crates/cli/src/mcp/overview_cache.rs): *)
(* a bounded map of projects, each with a ready ranking and at most one    *)
(* current flight, the background computation that concurrent requests for *)
(* the same index generation share.                                        *)
(*                                                                         *)
(* Requests are futures that may be dropped at an await; a flight is a     *)
(* task of its own that outlives them.  A flight is retired when a request *)
(* for a newer generation replaces it, and abandoned, hence cancelled,     *)
(* when its last waiter goes away before it has a result.  Entries are     *)
(* evicted least recently used first, but never while a request, a probe   *)
(* or a flight holds their slot.  What a generation stands for is the      *)
(* subject of RankingSnapshot; here it is a number an indexer increases.   *)
(***************************************************************************)
EXTENDS Naturals, FiniteSets, Sequences, SequencesExt

CONSTANTS Projects,
          Requests,     \* concurrent get calls, and other uses of a slot
          Flights,      \* flights alive at one time
          Sizes,        \* ranking_bytes of the rankings
          MaxProjects, MaxPayload,  \* MAX_PROJECTS, MAX_PAYLOAD
          MaxGen,       \* bound: generations of a project's index
          None

ASSUME CacheAssumption ==
    /\ MaxProjects \in Nat \ {0} /\ MaxPayload \in Nat /\ MaxGen \in Nat
    /\ Sizes \subseteq Nat
    /\ None \notin Projects \cup Flights \cup [gen : 0..MaxGen, bytes : Sizes]

VARIABLES gen,      \* the generation a probe of each project returns
          lru,      \* CacheState.projects, by `touched`, oldest first
          ready,    \* ProjectEntry.ready
          current,  \* ProjectEntry.flight
          bytes, retired,  \* CacheState
          fl,       \* the flights and their FlightState
          pc, req,  \* where each request is, and its locals
          woken,    \* its Notified on flight.notify
          stopped   \* its WorkControl has a reason

cacheVars == <<lru, ready, current, bytes, retired>>
reqVars == <<pc, req, woken, stopped>>
vars == <<gen, cacheVars, fl, reqVars>>

Gens == 0..MaxGen
\* queued: in acquire_execution; computing: between its two probes;
\* completing: has its result; notifying: before notify_waiters.
Tasks == {"none", "queued", "computing", "completing", "notifying", "done"}
Outcomes == {"ok", "error", None}
FlightRec == [project : Projects \cup {None}, gen : Gens, task : Tasks, before : Gens,
              waiters : Nat, abandoned : BOOLEAN, retired : BOOLEAN, stop : BOOLEAN,
              outcome : Outcomes, bytes : Sizes \cup {0}, stable : BOOLEAN]
NoFlight == [project |-> None, gen |-> 0, task |-> "none", before |-> 0, waiters |-> 0,
             abandoned |-> FALSE, retired |-> FALSE, stop |-> FALSE, outcome |-> None,
             bytes |-> 0, stable |-> FALSE]
\* slot: holds an Arc of the project's slot.
ReqRec == [project : Projects \cup {None}, gen : Gens, flight : Flights \cup {None},
           slot : BOOLEAN]
NoReq == [project |-> None, gen |-> 0, flight |-> None, slot |-> FALSE]
PcValues == {"idle", "probe", "lookup", "arm", "check", "wait", "leave", "abandon",
             "exit", "linger"}

TypeOK ==
    /\ gen \in [Projects -> Gens]
    /\ ToSet(lru) \subseteq Projects /\ Len(lru) = Cardinality(ToSet(lru))
    /\ Len(lru) <= MaxProjects
    /\ ready \in [Projects -> [gen : Gens, bytes : Sizes] \cup {None}]
    /\ current \in [Projects -> Flights \cup {None}]
    /\ bytes \in Nat /\ retired \in Nat
    /\ fl \in [Flights -> FlightRec]
    /\ pc \in [Requests -> PcValues]
    /\ req \in [Requests -> ReqRec]
    /\ woken \in [Requests -> BOOLEAN] /\ stopped \in [Requests -> BOOLEAN]

Init ==
    /\ gen = [p \in Projects |-> 0]
    /\ lru = <<>>
    /\ ready = [p \in Projects |-> None]
    /\ current = [p \in Projects |-> None]
    /\ bytes = 0 /\ retired = 0
    /\ fl = [f \in Flights |-> NoFlight]
    /\ pc = [q \in Requests |-> "idle"]
    /\ req = [q \in Requests |-> NoReq]
    /\ woken = [q \in Requests |-> FALSE]
    /\ stopped = [q \in Requests |-> FALSE]

Goto(q, l) == pc' = [pc EXCEPT ![q] = l]
\* FlightState.result.is_some()
HasResult(f) == fl[f].task \in {"notifying", "done"}
SizeOf(p) == IF ready[p] = None THEN 0 ELSE ready[p].bytes

\* An indexer commits.
Commit(p) ==
    /\ gen[p] < MaxGen
    /\ gen' = [gen EXCEPT ![p] = @ + 1]
    /\ UNCHANGED <<cacheVars, fl, reqVars>>
-----------------------------------------------------------------------------
(***************************************************************************)
(* OverviewCache::slot                                                     *)
(***************************************************************************)

\* Arc::strong_count(&entry.slot) > 1
SlotInUse(p) ==
    \/ \E q \in Requests : req[q].slot /\ req[q].project = p
    \/ \E f \in Flights : fl[f].project = p /\ fl[f].task \in {"queued", "computing"}

\* Mutant: an entry without a flight may be evicted while its slot is held.
EvictableHeld(p) == current[p] = None

Evictable(p) == current[p] = None /\ ~SlotInUse(p)

\* The least recently used entry that may go, by its place in the order.
FirstEvictable(i) ==
    /\ Evictable(lru[i])
    /\ \A j \in 1..(i - 1) : ~Evictable(lru[j])

\* The entry of p becomes the most recently used one, in the place of entry i.
Replace(i, p) == lru' = Append(RemoveAt(lru, i), p)

\* Mutant: the bound is checked after the insertion, which lets one more in.
SlotOneMore(p) ==
    \/ /\ \E i \in 1..Len(lru) : lru[i] = p /\ Replace(i, p)
       /\ UNCHANGED <<ready, bytes>>
    \/ /\ p \notin ToSet(lru) /\ Len(lru) <= MaxProjects
       /\ lru' = Append(lru, p)
       /\ UNCHANGED <<ready, bytes>>

\* A successful slot(p): touch the entry, or insert one, at the cost of the
\* oldest evictable one when the map is full.  (With none the call fails with
\* Saturated and changes nothing.)
Slot(p) ==
    \/ /\ \E i \in 1..Len(lru) : lru[i] = p /\ Replace(i, p)
       /\ UNCHANGED <<ready, bytes>>
    \/ /\ p \notin ToSet(lru) /\ Len(lru) < MaxProjects
       /\ lru' = Append(lru, p)
       /\ UNCHANGED <<ready, bytes>>
    \/ /\ p \notin ToSet(lru) /\ Len(lru) >= MaxProjects
       /\ \E i \in 1..Len(lru) :
             /\ FirstEvictable(i)
             /\ Replace(i, p)
             /\ ready' = [ready EXCEPT ![lru[i]] = None]
             /\ bytes' = bytes - SizeOf(lru[i])

\* A probe outside get(), by with_cached_snapshot or describe, and the end of
\* any probe thread that its request no longer waits for.
Peek(q, p) ==
    /\ pc[q] = "idle"
    /\ Slot(p)
    /\ req' = [req EXCEPT ![q] = [NoReq EXCEPT !.project = p, !.slot = TRUE]]
    /\ Goto(q, "linger")
    /\ UNCHANGED <<gen, current, retired, fl, woken, stopped>>

EndCall(q) ==
    /\ req' = [req EXCEPT ![q] = NoReq]
    /\ stopped' = [stopped EXCEPT ![q] = FALSE]
    /\ woken' = [woken EXCEPT ![q] = FALSE]
    /\ Goto(q, "idle")

Linger(q) ==
    /\ pc[q] = "linger"
    /\ EndCall(q)
    /\ UNCHANGED <<gen, cacheVars, fl>>
-----------------------------------------------------------------------------
(***************************************************************************)
(* OverviewCache::get                                                      *)
(***************************************************************************)

Get(q, p) ==
    /\ pc[q] = "idle"
    /\ Slot(p)
    /\ req' = [req EXCEPT ![q] = [NoReq EXCEPT !.project = p, !.slot = TRUE]]
    /\ Goto(q, "probe")
    /\ UNCHANGED <<gen, current, retired, fl, woken, stopped>>

\* The await of generation(), which touches the entry too, and the check
\* after it.  The probe may fail.
Probe(q) ==
    /\ pc[q] = "probe"
    /\ Slot(req[q].project)
    /\ \/ /\ ~stopped[q]
          /\ req' = [req EXCEPT ![q].gen = gen[req[q].project]]
          /\ Goto(q, "lookup")
       \/ Goto(q, "exit") /\ UNCHANGED req
    /\ UNCHANGED <<gen, current, retired, fl, woken, stopped>>

\* The future is dropped while its probe thread goes on.
AbortProbe(q) ==
    /\ pc[q] = "probe"
    /\ Goto(q, "linger")
    /\ UNCHANGED <<gen, cacheVars, fl, req, woken, stopped>>

\* The entry's ready ranking has the generation this request probed.
IsReady(q) ==
    LET r == ready[req[q].project] IN r # None /\ r.gen = req[q].gen

Hit(q) ==
    /\ pc[q] = "lookup"
    /\ IsReady(q)
    /\ Goto(q, "exit")
    /\ UNCHANGED <<gen, cacheVars, fl, req, woken, stopped>>

Joinable(q) ==
    LET f == current[req[q].project]
    IN  f # None /\ fl[f].gen = req[q].gen /\ ~fl[f].abandoned

Miss(q) == pc[q] = "lookup" /\ ~IsReady(q)

Join(q) ==
    /\ Miss(q)
    /\ Joinable(q)
    /\ LET f == current[req[q].project]
       IN  /\ fl' = [fl EXCEPT ![f].waiters = @ + 1]
           /\ req' = [req EXCEPT ![q].flight = f]
    /\ Goto(q, "arm")
    /\ UNCHANGED <<gen, cacheVars, woken, stopped>>

\* A new flight; the one it replaces is retired.  Its task takes the slot.
Own(q, f) ==
    /\ Miss(q)
    /\ ~Joinable(q)
    /\ fl[f].task = "none"
    /\ LET p == req[q].project
           g == current[p]
           new == [NoFlight EXCEPT !.project = p, !.gen = req[q].gen, !.task = "queued",
                                   !.waiters = 1]
       IN  /\ fl' = [h \in Flights |->
                        IF h = f THEN new
                        ELSE IF h = g THEN [fl[h] EXCEPT !.retired = TRUE] ELSE fl[h]]
           /\ current' = [current EXCEPT ![p] = f]
           /\ retired' = IF g = None THEN retired ELSE retired + 1
    /\ req' = [req EXCEPT ![q].flight = f, ![q].slot = FALSE]
    /\ Goto(q, "arm")
    /\ UNCHANGED <<gen, lru, ready, bytes, woken, stopped>>

\* notification.enable()
Arm(q) ==
    /\ pc[q] = "arm"
    /\ woken' = [woken EXCEPT ![q] = FALSE]
    /\ Goto(q, "check")
    /\ UNCHANGED <<gen, cacheVars, fl, req, stopped>>

\* waiter.check, then the result under the flight's mutex, then the select.
Check(q) ==
    /\ pc[q] = "check"
    /\ Goto(q, IF stopped[q] \/ HasResult(req[q].flight) THEN "leave" ELSE "wait")
    /\ UNCHANGED <<gen, cacheVars, fl, req, woken, stopped>>

\* The notification, the cancellation or the deadline.
Wake(q) ==
    /\ pc[q] = "wait"
    /\ woken[q] \/ stopped[q]
    /\ Goto(q, "arm")
    /\ UNCHANGED <<gen, cacheVars, fl, req, woken, stopped>>

\* The request's future is dropped at its await.
Abort(q) ==
    /\ pc[q] = "wait"
    /\ Goto(q, "leave")
    /\ UNCHANGED <<gen, cacheVars, fl, req, woken, stopped>>

CancelWaiter(q) ==
    /\ pc[q] \notin {"idle", "linger"}
    /\ ~stopped[q]
    /\ stopped' = [stopped EXCEPT ![q] = TRUE]
    /\ UNCHANGED <<gen, cacheVars, fl, pc, req, woken>>

\* The requests that hold the Arc of f; with its task and the last of them the
\* flight is freed.
Holders(f) == {q \in Requests : req[q].flight = f}

\* Mutant: an abandoned flight stays the project's current one.
LeaveKeepsCurrent(q) ==
    /\ pc[q] = "leave"
    /\ LET f == req[q].flight
           last == fl[f].waiters = 1 /\ ~HasResult(f)
       IN  /\ fl' = [fl EXCEPT ![f].waiters = @ - 1,
                               ![f].abandoned = last \/ @,
                               ![f].retired = last \/ @]
           /\ retired' = IF last /\ ~fl[f].retired THEN retired + 1 ELSE retired
           /\ Goto(q, IF last THEN "abandon" ELSE "exit")
    /\ UNCHANGED <<gen, lru, ready, current, bytes, req, woken, stopped>>

\* Mutant: a flight that was replaced before is counted again.
LeaveRetiresTwice(q) ==
    /\ pc[q] = "leave"
    /\ LET f == req[q].flight
           p == req[q].project
           last == fl[f].waiters = 1 /\ ~HasResult(f)
       IN  /\ fl' = [fl EXCEPT ![f].waiters = @ - 1,
                               ![f].abandoned = last \/ @,
                               ![f].retired = last \/ @]
           /\ retired' = IF last THEN retired + 1 ELSE retired
           /\ current' = IF last /\ current[p] = f THEN [current EXCEPT ![p] = None] ELSE current
           /\ Goto(q, IF last THEN "abandon" ELSE "exit")
    /\ UNCHANGED <<gen, lru, ready, bytes, req, woken, stopped>>

\* Drop for WaiterGuard, under the cache's and the flight's mutexes.
Leave(q) ==
    /\ pc[q] = "leave"
    /\ LET f == req[q].flight
           p == req[q].project
           last == fl[f].waiters = 1 /\ ~HasResult(f)
       IN  /\ fl' = [fl EXCEPT ![f].waiters = @ - 1,
                               ![f].abandoned = last \/ @,
                               ![f].retired = last \/ @]
           /\ retired' = IF last /\ ~fl[f].retired THEN retired + 1 ELSE retired
           /\ current' = IF last /\ current[p] = f THEN [current EXCEPT ![p] = None] ELSE current
           /\ Goto(q, IF last THEN "abandon" ELSE "exit")
    /\ UNCHANGED <<gen, lru, ready, bytes, req, woken, stopped>>

\* Drop for WaiterGuard: cancel the abandoned flight, with no lock held.
CancelAbandoned(q) ==
    /\ pc[q] = "abandon"
    /\ fl' = [fl EXCEPT ![req[q].flight].stop = TRUE]
    /\ Goto(q, "exit")
    /\ UNCHANGED <<gen, cacheVars, req, woken, stopped>>

\* The last locals go, the slot among them.
Exit(q) ==
    /\ pc[q] = "exit"
    /\ EndCall(q)
    /\ fl' = [f \in Flights |-> IF fl[f].task = "done" /\ Holders(f) = {q}
                                THEN NoFlight ELSE fl[f]]
    /\ UNCHANGED <<gen, cacheVars>>
-----------------------------------------------------------------------------
(***************************************************************************)
(* The flight's task                                                       *)
(***************************************************************************)

\* Its control gets a reason: the producer's deadline, or shutdown.
StopFlight(f) ==
    /\ fl[f].task \in {"queued", "computing", "completing"} /\ ~fl[f].stop
    /\ fl' = [fl EXCEPT ![f].stop = TRUE]
    /\ UNCHANGED <<gen, cacheVars, reqVars>>

\* acquire_execution refuses, or some later step fails: the error is the
\* result.  The task's slot is dropped with its future.
Fail(f) ==
    /\ fl[f].task \in {"queued", "computing"}
    /\ fl' = [fl EXCEPT ![f].task = "completing", ![f].outcome = "error"]
    /\ UNCHANGED <<gen, cacheVars, reqVars>>

\* The lease is granted, the control checked, the first probe made.
Compute(f) ==
    /\ fl[f].task = "queued"
    /\ ~fl[f].stop
    /\ fl' = [fl EXCEPT ![f].task = "computing", ![f].before = gen[fl[f].project]]
    /\ UNCHANGED <<gen, cacheVars, reqVars>>

\* The ranking, the second probe and the last check of the control.
Computed(f, n) ==
    /\ fl[f].task = "computing"
    /\ ~fl[f].stop
    /\ LET g == fl[f].before
       IN  fl' = [fl EXCEPT ![f].task = "completing", ![f].outcome = "ok", ![f].bytes = n,
                            ![f].stable = g = gen[fl[f].project] /\ g = fl[f].gen]
    /\ UNCHANGED <<gen, cacheVars, reqVars>>

\* Mutant: a flight that another one replaced publishes its result too.
PublishableRetired(f) ==
    /\ ~fl[f].abandoned /\ ~fl[f].stop /\ fl[f].outcome = "ok" /\ fl[f].stable
    /\ fl[f].bytes <= MaxPayload

\* Whether complete() publishes the result.
Publishable(f) ==
    /\ ~fl[f].abandoned /\ ~fl[f].stop /\ fl[f].outcome = "ok" /\ fl[f].stable
    /\ current[fl[f].project] = f
    /\ fl[f].bytes <= MaxPayload

\* The bytes of the payloads of S, counted one by one.
BytesOf(S) == Cardinality(UNION {{v} \X (1..SizeOf(v)) : v \in S})

\* The loop that makes room for n bytes: the payloads of the k oldest entries
\* are dropped, until the counter says that they fit or none is left.
Oldest(p, k) == {lru[i] : i \in 1..k} \ {p}
Room(p, n, k) ==
    bytes - SizeOf(p) - BytesOf(Oldest(p, k)) + n <= MaxPayload \/ k = Len(lru)
MakesRoom(p, n, k) == Room(p, n, k) /\ \A j \in 0..(k - 1) : ~Room(p, n, j)

\* Mutant: the payload bound ignores what is already stored.
CompletePublishesAll(f) ==
    /\ fl[f].task = "completing"
    /\ LET p == fl[f].project
       IN  /\ retired' = IF fl[f].retired THEN retired - 1 ELSE retired
           /\ IF Publishable(f)
              THEN /\ ready' = [ready EXCEPT ![p] = [gen |-> fl[f].before, bytes |-> fl[f].bytes]]
                   /\ bytes' = bytes - SizeOf(p) + fl[f].bytes
              ELSE UNCHANGED <<ready, bytes>>
           /\ current' = IF current[p] = f THEN [current EXCEPT ![p] = None] ELSE current
    /\ fl' = [fl EXCEPT ![f].task = "notifying", ![f].retired = FALSE, ![f].before = 0,
                        ![f].bytes = 0, ![f].stable = FALSE]
    /\ UNCHANGED <<gen, lru, reqVars>>

\* OverviewCache::complete, under the cache's and the flight's mutexes.
Complete(f) ==
    /\ fl[f].task = "completing"
    /\ LET p == fl[f].project
           n == fl[f].bytes
       IN  /\ retired' = IF fl[f].retired THEN retired - 1 ELSE retired
           /\ IF Publishable(f)
              THEN \E k \in 0..Len(lru) :
                      /\ MakesRoom(p, n, k)
                      /\ ready' = [v \in Projects |->
                                     IF v = p THEN [gen |-> fl[f].before, bytes |-> n]
                                     ELSE IF v \in Oldest(p, k) THEN None ELSE ready[v]]
                      /\ bytes' = bytes - SizeOf(p) - BytesOf(Oldest(p, k)) + n
              ELSE UNCHANGED <<ready, bytes>>
           /\ current' = IF current[p] = f THEN [current EXCEPT ![p] = None] ELSE current
    /\ fl' = [fl EXCEPT ![f].task = "notifying", ![f].retired = FALSE, ![f].before = 0,
                        ![f].bytes = 0, ![f].stable = FALSE]
    /\ UNCHANGED <<gen, lru, reqVars>>

\* Mutant: the waiters are not told.
NotifyNobody(f) ==
    /\ fl[f].task = "notifying"
    /\ fl' = [fl EXCEPT ![f] = IF Holders(f) = {} THEN NoFlight ELSE [@ EXCEPT !.task = "done"]]
    /\ UNCHANGED <<gen, cacheVars, reqVars>>

\* flight.notify.notify_waiters(), after the mutexes are released.
Notify(f) ==
    /\ fl[f].task = "notifying"
    /\ fl' = [fl EXCEPT ![f] = IF Holders(f) = {} THEN NoFlight ELSE [@ EXCEPT !.task = "done"]]
    /\ woken' = [q \in Requests |-> woken[q] \/ req[q].flight = f]
    /\ UNCHANGED <<gen, cacheVars, pc, req, stopped>>
-----------------------------------------------------------------------------
RequestStep(q) ==
    \/ Probe(q) \/ Hit(q) \/ Join(q) \/ (\E f \in Flights : Own(q, f))
    \/ Arm(q) \/ Check(q) \/ Wake(q) \/ Leave(q) \/ CancelAbandoned(q) \/ Exit(q) \/ Linger(q)

\* A task ends by itself, or fails once it is stopped.
FlightStep(f) ==
    \/ Compute(f) \/ (\E n \in Sizes : Computed(f, n)) \/ Fail(f)
    \/ Complete(f) \/ Notify(f)

Next ==
    \/ \E p \in Projects : Commit(p)
    \/ \E q \in Requests, p \in Projects : Get(q, p) \/ Peek(q, p)
    \/ \E q \in Requests : RequestStep(q) \/ AbortProbe(q) \/ Abort(q) \/ CancelWaiter(q)
    \/ \E f \in Flights : FlightStep(f) \/ StopFlight(f)

Spec == Init /\ [][Next]_vars

\* The runtime keeps running every future and task, and a flight's producer
\* deadline bounds its computation.  No client is obliged to ask or to cancel.
\* The code allocates a new flight whenever it wants one: strong fairness of Own
\* says that the bound on Flights does not starve a request of one for ever.
FairSpec ==
    /\ Spec
    /\ \A q \in Requests : WF_vars(RequestStep(q)) /\ SF_vars(\E f \in Flights : Own(q, f))
    /\ \A f \in Flights : WF_vars(FlightStep(f))
-----------------------------------------------------------------------------
(***************************************************************************)
(* Properties                                                              *)
(***************************************************************************)

\* CacheState.bytes is the sum of the stored payloads, and their bound holds,
\* through publications, replacements and evictions (slot, complete).
PayloadAccounting ==
    /\ bytes = BytesOf(Projects)
    /\ bytes <= MaxPayload
    /\ \A p \in Projects : ready[p] # None => p \in ToSet(lru)

\* CacheState.retired counts the flights that are retired and not complete,
\* however replacement, abandonment and completion follow one another.
RetiredAccounting ==
    retired = Cardinality({f \in Flights : fl[f].retired})

\* get() finds the entry whose slot it holds: "risk cache project disappeared"
\* is never reported, whatever other projects were inserted during its probe.
HeldEntryStays ==
    \A q \in Requests : pc[q] \in {"probe", "lookup"} => req[q].project \in ToSet(lru)

\* The waiter count of a flight is its waiters, nobody waits for a flight that
\* was abandoned, and the flight a request can join has waiters and no result
\* (get and Drop for WaiterGuard).
WaitersCounted ==
    \A f \in Flights :
        LET W == {q \in Requests : req[q].flight = f /\ pc[q] \in {"arm", "check", "wait", "leave"}}
        IN  /\ fl[f].waiters = Cardinality(W)
            /\ fl[f].abandoned => W = {}
            /\ \A p \in Projects : current[p] = f =>
                   /\ fl[f].project = p /\ p \in ToSet(lru)
                   /\ ~fl[f].abandoned /\ ~fl[f].retired
                   /\ ~HasResult(f) /\ W # {}

\* The ranking of a project is never replaced by one of an older generation:
\* a flight that was retired by a request for a newer generation may finish
\* late, and a request that probed before a commit may start its flight after a
\* newer one was published (get, complete).
RankingNeverOlder ==
    [][\A p \in Projects :
          ready[p] # None /\ ready'[p] # None => ready'[p].gen >= ready[p].gen]_vars

\* Every get() ends: the flight a waiter shares always tells it.
EveryGetReturns ==
    \A q \in Requests : pc[q] \notin {"idle", "linger"} ~> pc[q] \in {"idle", "linger"}
=============================================================================
