-------------------------- MODULE RankingSnapshot --------------------------
(***************************************************************************)
(* Which risk ranking a daemon request may reuse.                          *)
(*                                                                         *)
(* A ranking is computed from one read snapshot of the project's SQLite    *)
(* index and cached under a Generation (crates/cli/src/mcp/                *)
(* overview_cache.rs): the identity of the file at the index path, the     *)
(* epoch of the observer connection that looked, and that connection's     *)
(* data_version.  The producer, and every request that uses a cached       *)
(* ranking, probe the generation before they open and pin their own        *)
(* snapshot and again afterwards; describe does the same with a connection *)
(* it opened first.  Indexers commit and the file at the path is replaced, *)
(* or restored, between any two of these steps.                            *)
(***************************************************************************)
EXTENDS Naturals

CONSTANTS Requests,    \* tool calls, each with its producer when it needs one
          Files,       \* index files that the path has named
          MaxCommits,  \* bound: commits by indexers
          MaxSwaps,    \* bound: changes of the file at the path
          MaxEpoch,    \* bound: an entry is evicted only below this epoch
          None

Content == Files \X (0..MaxCommits)
\* The version of a Generation counts from the opening of its connection.
Generations == [file : Files, epoch : Nat, version : 0..MaxCommits]
Rankings == [content : Content, gen : Generations, stable : BOOLEAN]
\* An Observer; base: the commits its file had seen when it was opened.
Observers == [file : Files, epoch : Nat, base : 0..MaxCommits]

ASSUME SnapshotAssumption ==
    /\ MaxCommits \in Nat /\ MaxSwaps \in Nat /\ MaxEpoch \in Nat
    /\ None \notin Requests \cup Files \cup Content \cup Generations \cup Rankings \cup Observers

VARIABLES path,      \* the file at .codesage/index.db
          commits,   \* commits each file has seen: <<f, commits[f]>> is its content
          swaps,     \* changes of the file at the path so far
          observer,  \* ProjectSlot.observer
          lock,      \* the request that holds the observer's mutex
          nextEpoch, \* NEXT_EPOCH
          ready,     \* ProjectEntry.ready
          at,        \* what each request is doing
          probe,     \* where it is inside ProjectSlot::generation
          seen,      \* the file identity the probe read, and its connection
          gen,       \* the Generation its last probe returned, or None
          job,       \* its locals: see NoJob
          \* History, which no guard reads:
          moves,     \* changes of the path since the request's current pair of
                     \* probes began, up to three
          flicker    \* some pair of probes has seen three of them

history == <<moves, flicker>>
world == <<path, commits, swaps, history>>
shared == <<observer, lock, nextEpoch, ready>>
prober == <<probe, seen, gen>>
vars == <<world, shared, at, prober, job>>

Activities == {"idle", "get", "first", "pin", "second", "complete",
               "readFirst", "readPin", "readSecond",
               "matchOpen", "matchFirst", "matchPin", "matchSecond", "answered"}
ProbeSteps == {"off", "identify", "lock", "open", "attestOpen", "version", "attest"}

Looks == [ident : Files \cup {None}, conn : Files \cup {None}, version : 0..MaxCommits]
NoLook == [ident |-> None, conn |-> None, version |-> 0]

\* before: the Generation of the first probe; flight: Flight.generation; db:
\* the file the request's own connection has open; snap: the content it
\* pinned; cached: the CachedRanking it got; used: the content whose ranking
\* it answered with.
NoJob == [before |-> None, flight |-> None, db |-> None, snap |-> None,
          cached |-> None, used |-> None]
Jobs == [before : Generations \cup {None}, flight : Generations \cup {None},
         db : Files \cup {None}, snap : Content \cup {None},
         cached : Rankings \cup {None}, used : Content \cup {None}]

TypeOK ==
    /\ path \in Files /\ commits \in [Files -> 0..MaxCommits] /\ swaps \in 0..MaxSwaps
    /\ observer \in Observers \cup {None}
    /\ lock \in Requests \cup {None}
    /\ nextEpoch \in Nat
    /\ ready \in Rankings \cup {None}
    /\ at \in [Requests -> Activities] /\ probe \in [Requests -> ProbeSteps]
    /\ seen \in [Requests -> Looks]
    /\ gen \in [Requests -> Generations \cup {None}]
    /\ job \in [Requests -> Jobs]
    /\ moves \in [Requests -> 0..3] /\ flicker \in BOOLEAN

Init ==
    /\ path \in Files
    /\ commits = [f \in Files |-> 0]
    /\ swaps = 0
    /\ observer = None /\ lock = None /\ nextEpoch = 1 /\ ready = None
    /\ at = [q \in Requests |-> "idle"]
    /\ probe = [q \in Requests |-> "off"]
    /\ seen = [q \in Requests |-> NoLook]
    /\ gen = [q \in Requests |-> None]
    /\ job = [q \in Requests |-> NoJob]
    /\ moves = [q \in Requests |-> 0] /\ flicker = FALSE
-----------------------------------------------------------------------------
(***************************************************************************)
(* The indexers and the file system                                        *)
(***************************************************************************)

\* An indexer commits to a file, the one at the path or one moved aside.
Commit(f) ==
    /\ commits[f] < MaxCommits
    /\ commits' = [commits EXCEPT ![f] = @ + 1]
    /\ UNCHANGED <<path, swaps, history, shared, at, prober, job>>

\* The places between the start of a pair of probes and its verdict.
Window == {"first", "pin", "second", "readFirst", "readPin", "readSecond",
           "matchOpen", "matchFirst", "matchPin", "matchSecond"}

\* Another file is renamed to the path, possibly one that was there before.
Swap(f) ==
    /\ swaps < MaxSwaps
    /\ f # path
    /\ path' = f
    /\ swaps' = swaps + 1
    /\ moves' = [q \in Requests |->
                   IF at[q] \in Window /\ moves[q] < 3 THEN moves[q] + 1 ELSE moves[q]]
    /\ flicker' = (flicker \/ \E q \in Requests : at[q] \in Window /\ moves[q] >= 2)
    /\ UNCHANGED <<commits, shared, at, prober, job>>
-----------------------------------------------------------------------------
(***************************************************************************)
(* ProjectSlot::generation                                                 *)
(***************************************************************************)

StartProbe(q) ==
    /\ probe' = [probe EXCEPT ![q] = "identify"]
    /\ gen' = [gen EXCEPT ![q] = None]

\* The first of a pair of probes, around a snapshot of the request's own.
StartPair(q) ==
    /\ StartProbe(q)
    /\ moves' = [moves EXCEPT ![q] = 0]
    /\ UNCHANGED flicker

\* FileIdentity::read, before the mutex is taken.
Identify(q) ==
    /\ probe[q] = "identify"
    /\ seen' = [seen EXCEPT ![q] = [NoLook EXCEPT !.ident = path]]
    /\ probe' = [probe EXCEPT ![q] = "lock"]
    /\ UNCHANGED <<world, shared, at, gen, job>>

\* The observer that is there serves if it has the identified file open and
\* the path still names that file.
LockObserver(q) ==
    /\ probe[q] = "lock"
    /\ lock = None
    /\ lock' = q
    /\ LET reopen == observer = None \/ observer.file # seen[q].ident \/ observer.file # path
       IN  /\ observer' = IF reopen THEN None ELSE observer
           /\ probe' = [probe EXCEPT ![q] = IF reopen THEN "open" ELSE "version"]
    /\ UNCHANGED <<world, nextEpoch, ready, at, seen, gen, job>>

\* Connection::open_with_flags
OpenObserver(q) ==
    /\ probe[q] = "open"
    /\ seen' = [seen EXCEPT ![q].conn = path]
    /\ probe' = [probe EXCEPT ![q] = "attestOpen"]
    /\ UNCHANGED <<world, shared, at, gen, job>>

\* The probe releases the mutex and returns g.
Return(q, g) ==
    /\ lock' = None
    /\ gen' = [gen EXCEPT ![q] = g]
    /\ seen' = [seen EXCEPT ![q] = NoLook]
    /\ probe' = [probe EXCEPT ![q] = "off"]

\* CacheUnavailable: the caller gets no generation.
Unavailable(q) == Return(q, None)

\* The path names the identified file, and so does the connection.
Attested(q, f) == path = seen[q].ident /\ f = path

\* The first require_attested; a new observer gets a new epoch.
AttestOpen(q) ==
    /\ probe[q] = "attestOpen"
    /\ IF Attested(q, seen[q].conn)
       THEN /\ observer' = [file |-> seen[q].conn, epoch |-> nextEpoch,
                            base |-> commits[seen[q].conn]]
            /\ nextEpoch' = nextEpoch + 1
            /\ probe' = [probe EXCEPT ![q] = "version"]
            /\ UNCHANGED <<lock, gen, seen>>
       ELSE Unavailable(q) /\ UNCHANGED <<observer, nextEpoch>>
    /\ UNCHANGED <<world, ready, at, job>>

\* PRAGMA data_version of the observer's connection.
ReadVersion(q) ==
    /\ probe[q] = "version"
    /\ seen' = [seen EXCEPT ![q].version = commits[observer.file] - observer.base]
    /\ probe' = [probe EXCEPT ![q] = "attest"]
    /\ UNCHANGED <<world, shared, at, gen, job>>

\* The second require_attested, and the result.
FinishProbe(q) ==
    /\ probe[q] = "attest"
    /\ IF Attested(q, observer.file)
       THEN Return(q, [file |-> seen[q].ident, epoch |-> observer.epoch,
                       version |-> seen[q].version])
       ELSE Unavailable(q)
    /\ UNCHANGED <<world, observer, nextEpoch, ready, at, job>>

ProbeStep(q) ==
    \/ Identify(q) \/ LockObserver(q) \/ OpenObserver(q) \/ AttestOpen(q)
    \/ ReadVersion(q) \/ FinishProbe(q)
-----------------------------------------------------------------------------
(***************************************************************************)
(* OverviewCache::get and its producer                                     *)
(***************************************************************************)

At(q, a) == at[q] = a /\ probe[q] = "off"
Go(q, a) == at' = [at EXCEPT ![q] = a]
\* No cached ranking is used: the request falls back to one computed from its
\* own snapshot, or reports an error.
GiveUp(q) ==
    /\ Go(q, "idle")
    /\ job' = [job EXCEPT ![q] = NoJob]
    /\ gen' = [gen EXCEPT ![q] = None]
    /\ UNCHANGED probe

BeginOverview(q) ==
    /\ At(q, "idle")
    /\ Go(q, "get")
    /\ StartProbe(q)
    /\ UNCHANGED <<world, shared, seen, job>>

\* A hit returns the ready ranking, anything else a flight of this generation.
Lookup(q) ==
    /\ At(q, "get")
    /\ IF gen[q] = None THEN GiveUp(q) /\ UNCHANGED history
       ELSE /\ StartPair(q)
            /\ IF ready # None /\ ready.gen = gen[q]
               THEN job' = [job EXCEPT ![q].cached = ready] /\ Go(q, "readFirst")
               ELSE job' = [job EXCEPT ![q].flight = gen[q]] /\ Go(q, "first")
    /\ UNCHANGED <<path, commits, swaps, shared, seen>>

\* The producer's Database::open_read_only
ProducerOpen(q) ==
    /\ At(q, "first")
    /\ IF gen[q] = None THEN GiveUp(q)
       ELSE /\ job' = [job EXCEPT ![q].before = gen[q], ![q].db = path]
            /\ Go(q, "pin")
            /\ UNCHANGED <<probe, gen>>
    /\ UNCHANGED <<world, shared, seen>>

\* read_snapshot
Pin(q) == job' = [job EXCEPT ![q].snap = <<job[q].db, commits[job[q].db]>>]

ProducerPin(q) ==
    /\ At(q, "pin")
    /\ Pin(q)
    /\ Go(q, "second")
    /\ StartProbe(q)
    /\ UNCHANGED <<world, shared, seen>>

\* path_still_matches_open_file for the request's own connection.
PathStillMatches(q) == job[q].db = path

\* Mutant: the result is stable whatever the second probe says.
StableUnprobed(q) == PathStillMatches(q) /\ job[q].before = job[q].flight

\* Nothing moved since the flight's generation was probed.
Stable(q) ==
    /\ PathStillMatches(q)
    /\ gen[q] = job[q].before
    /\ job[q].before = job[q].flight

\* The producer's result, after its second probe has returned.
ProducerResult(q) ==
    /\ At(q, "second")
    /\ job' = [job EXCEPT ![q].cached =
           [content |-> job[q].snap, gen |-> job[q].before, stable |-> Stable(q)]]
    /\ Go(q, "complete")
    /\ UNCHANGED <<world, shared, prober>>

\* complete: a stable result is published if its flight is the current one;
\* that of a retired or abandoned flight is not.
Complete(q, current) ==
    /\ At(q, "complete")
    /\ ready' = IF job[q].cached.stable /\ current THEN job[q].cached ELSE ready
    /\ Go(q, "readFirst")
    /\ StartPair(q)
    /\ UNCHANGED <<path, commits, swaps, observer, lock, nextEpoch, seen, job>>

\* Arc::strong_count(&entry.slot) > 1 or entry.flight.is_some() on account of
\* q: a probe takes the slot before it identifies the file and keeps it to its
\* end, get keeps it until its lookup, and the flight's task or the flight
\* itself stands until complete.
InUse(q) ==
    \/ probe[q] \notin {"off", "identify"}
    \/ At(q, "get")
    \/ at[q] \in {"first", "pin", "second", "complete"}

\* slot() drops the entry, observer included, of a project nobody is using.
Evict ==
    /\ \A q \in Requests : ~InUse(q)
    /\ observer # None /\ nextEpoch < MaxEpoch
    /\ ready' = None
    /\ observer' = None
    /\ UNCHANGED <<world, lock, nextEpoch, at, prober, job>>
-----------------------------------------------------------------------------
(***************************************************************************)
(* with_cached_snapshot                                                    *)
(***************************************************************************)

ReaderOpen(q) ==
    /\ At(q, "readFirst")
    /\ job' = [job EXCEPT ![q].before = gen[q], ![q].db = path]
    /\ Go(q, "readPin")
    /\ UNCHANGED <<world, shared, prober>>

ReaderPin(q) ==
    /\ At(q, "readPin")
    /\ Pin(q)
    /\ Go(q, "readSecond")
    /\ StartProbe(q)
    /\ UNCHANGED <<world, shared, seen>>

\* Mutant: trusts the generation probed before the snapshot was pinned.
ChangedOnlyBefore(q) ==
    \/ ~job[q].cached.stable
    \/ job[q].before # job[q].cached.gen
    \/ ~PathStillMatches(q)

Changed(q) ==
    \/ ~job[q].cached.stable
    \/ job[q].before # job[q].cached.gen
    \/ job[q].before # gen[q]
    \/ ~PathStillMatches(q)

Use(q, c) == job' = [job EXCEPT ![q].used = c] /\ Go(q, "answered")

\* The cached ranking, or one recomputed from the pinned snapshot.
Answer(q) ==
    /\ At(q, "readSecond")
    /\ Use(q, IF Changed(q) THEN job[q].snap ELSE job[q].cached.content)
    /\ UNCHANGED <<world, shared, prober>>
-----------------------------------------------------------------------------
(***************************************************************************)
(* describe: ready_for_snapshot, then snapshot_matches again               *)
(***************************************************************************)

\* Database::open_read_only.
BeginDescribe(q) ==
    /\ At(q, "idle")
    /\ job' = [job EXCEPT ![q].db = path]
    /\ Go(q, "matchOpen")
    /\ moves' = [moves EXCEPT ![q] = 0]
    /\ UNCHANGED <<path, commits, swaps, flicker, shared, prober>>

\* ready_for_snapshot reads the ready entry, then probes.
ReadReady(q) ==
    /\ At(q, "matchOpen")
    /\ IF ready = None THEN GiveUp(q)
       ELSE /\ job' = [job EXCEPT ![q].cached = ready]
            /\ Go(q, "matchFirst")
            /\ StartProbe(q)
    /\ UNCHANGED <<world, shared, seen>>

SnapshotMatches(q) == gen[q] = job[q].cached.gen /\ PathStillMatches(q)

\* ready_for_snapshot has its verdict; then read_snapshot.
DescribeMatched(q) ==
    /\ At(q, "matchFirst")
    /\ IF SnapshotMatches(q)
       THEN Go(q, "matchPin") /\ UNCHANGED <<job, probe, gen>>
       ELSE GiveUp(q)
    /\ UNCHANGED <<world, shared, seen>>

DescribePin(q) ==
    /\ At(q, "matchPin")
    /\ Pin(q)
    /\ Go(q, "matchSecond")
    /\ StartProbe(q)
    /\ UNCHANGED <<world, shared, seen>>

DescribeAnswer(q) ==
    /\ At(q, "matchSecond")
    /\ IF SnapshotMatches(q)
       THEN Use(q, job[q].cached.content) /\ UNCHANGED <<probe, gen>>
       ELSE GiveUp(q)
    /\ UNCHANGED <<world, shared, seen>>

\* The request is over.
Finish(q) ==
    /\ At(q, "answered")
    /\ GiveUp(q)
    /\ UNCHANGED <<world, shared, seen>>
-----------------------------------------------------------------------------
RequestStep(q) ==
    \/ ProbeStep(q)
    \/ BeginOverview(q) \/ Lookup(q) \/ ProducerOpen(q) \/ ProducerPin(q) \/ ProducerResult(q)
    \/ \E current \in BOOLEAN : Complete(q, current)
    \/ ReaderOpen(q) \/ ReaderPin(q) \/ Answer(q)
    \/ BeginDescribe(q) \/ ReadReady(q) \/ DescribeMatched(q) \/ DescribePin(q)
    \/ DescribeAnswer(q) \/ Finish(q)

Next ==
    \/ \E f \in Files : Commit(f) \/ Swap(f)
    \/ \E q \in Requests : RequestStep(q)
    \/ Evict

Spec == Init /\ [][Next]_vars
-----------------------------------------------------------------------------
(***************************************************************************)
(* Properties                                                              *)
(***************************************************************************)

\* A request never presents a ranking of other facts than those of the
\* snapshot it pinned, whether the ranking was cached, shared or recomputed
\* (with_cached_snapshot, describe), as long as the path has not changed three
\* times within one pair of probes.
RankingMatchesSnapshot ==
    ~flicker => \A q \in Requests : at[q] = "answered" => job[q].used = job[q].snap

\* A ranking that can still be hit, because the observer of its generation is
\* still there, was computed from the content the generation stands for: the
\* producer never publishes a ranking of another file or of another commit
\* (the producer's two probes around its snapshot).
PublishedRankingFaithful ==
    ready # None /\ observer # None /\ ready.gen.epoch = observer.epoch
        => ready.content = <<ready.gen.file, observer.base + ready.gen.version>>

\* The published ranking is faithful as long as the path has not changed three
\* times within one pair of probes (the producer's and its own connection).
PublishedFaithfulUnlessFlicker == ~flicker => PublishedRankingFaithful
=============================================================================
