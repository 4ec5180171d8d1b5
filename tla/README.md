# Verification of codesage

codesage indexes a code base (symbols, imports, embeddings, git history) into
one SQLite file per project and answers questions about it, from the command
line or through a daemon that serves MCP clients. This directory holds TLA+
models of the parts of it where order matters, the TLC configurations that
check them, and TLAPS proofs of the results that matter most.

Paths below are relative to the repository root; `PROJECT.json` gives, for
every definition, the lines it models.

## 1. The system

### Components, their state and their operations

| Component | Source | State | Operations |
|---|---|---|---|
| Work control | `crates/protocol/src/work.rs` | a reason (set once), a deadline, a map of callbacks | `cancel`, `reason`/`check`, `on_cancel`, drop of a registration |
| Work coordinator | `crates/cli/src/mcp/work.rs` | open requests, queue, running set, counters per project and lane, `last_project`, `closed` | `try_request`, `attach_project`, `acquire_execution`, the drops of three leases, `shutdown` |
| Guarded runs | `crates/embed/src/run_control.rs`, `install_work_control` in `crates/storage/src/db/mod.rs` | a terminate flag per ONNX run; interrupt flag and progress handler per SQLite connection | start, terminate, finish a run; execute, interrupt, poll a statement |
| Overview cache | `crates/cli/src/mcp/overview_cache.rs` | project entries with slot, ready ranking and current flight; byte and retired counters; observers | `slot`, `generation`, `get`, `spawn`, `complete`, `WaiterGuard`, `snapshot_matches` |
| Tool dispatch | `crates/cli/src/mcp/{dispatch,mod}.rs` | the request's lease, deadline, connection and snapshot | `with_cached_snapshot`, `describe`, `stopped` |
| Daemon lifecycle | `crates/cli/src/{daemon,daemon_control}.rs` | start lock, service and control socket, pid file | `ensure_daemon`, `run_daemon`, `run_daemon_stop` |
| Semantic index | `crates/graph/src/semantic.rs` | chunk vectors, content hash and header symbols per file, the table's fingerprint | full, incremental and per-file passes, removal |
| State watcher | `crates/cli/src/statewatcher.rs`, `lockfile.rs` | pending files, removals, parked retries, lost flag, index lock | event admission, debounce, re-index, bulk reconciliation |
| Watcher registry, project cache | `crates/cli/src/mcp/state.rs` | watcher slots by root, project states, model slots | reserve, stop, load, evict |
| Structural index | `crates/graph/src/index.rs` | symbols, references and context markers in SQLite | discovery, batched writes, purge |
| State files, session ledger | `crates/graph/src/{state_file,session_ledger}.rs` | JSON and JSONL files | replace by rename, append, prune |
| Git history, overlay | `crates/graph/src/git_history/`, `overlay.rs` | history rows with a recorded head; temporary shadow rows | incremental update, overlay of a worktree |
| Parser, features, graph queries, embedding models, installer, doctor, benchmarks | the other crates | none that outlives a call | pure or sequential |

### How they interact

A client's **shim** runs `ensure_daemon` and then only copies bytes. The daemon
gives each request a `WorkControl` with a deadline and a `RequestLease`
(`try_request`, `attach_project`). The blocking part of a request first gets an
`ExecutionLease` for its lane (`acquire_execution`), then runs under its control:
SQLite connections and ONNX sessions register callbacks with it, so that one
`cancel()`, by the client, by the deadline or by shutdown, reaches them all. A
request that needs the risk ranking asks the overview cache, which probes the
index generation and shares a **flight**: a task with a control and a lease of
its own. The ranking is then attached to the request's own read snapshot only if
the generation has not moved. Indexers (the CLI or the daemon's watchers) commit
to the same index file under the project's index lock, and may replace it.

### What is hard

- Futures are dropped at any await; leases, waiters and callbacks must go with
  them, whoever else is looking at the same entry.
- `cancel()` runs callbacks with no lock held; registrations and admissions race it.
- Notifications (`tokio::sync::Notify`) are lost unless armed before the look.
- The index file at a path changes between two system calls, and can change back.
- Daemons and shims agree through files that any of them may unlink.
- An index pass commits in several transactions and dies between any two.
- Watchers lose events, retry, give up and race the CLI for the index lock.

The `hazards` of `PROJECT.json` list these at their lines, with the properties
that would catch each going wrong. The few without a property say why; most of
them are in the structural index and the state files, the next part of the plan.

### What makes each component correct

| Component | Correct when |
|---|---|
| Work control | every callback registered before, during or after `cancel()` runs, and none outlives its owner |
| Work coordinator | counters equal what they count, bounds hold, no cancelled call is admitted, no eligible call sleeps, shutdown reaches and drains everything |
| Guarded runs | a cancelled run or statement ends, a terminated run is a stop and not a model error |
| Overview cache | a ranking is shown only with the snapshot it was computed from and is never replaced by an older one; waiters, flights and bytes are counted exactly; every `get` returns |
| Daemon lifecycle | one daemon serves and owns its paths; a dead starter's lock is recovered; a live one's is kept |
| Semantic index | an attested table holds vectors of one setup only; a clean pass covers the tree; vectors of replaced symbols are made again; interrupted tables recover |
| State watcher | every edit is in the index, announced, queued, or covered by a reconciliation, except what the code gives up; once edits stop the index matches the tree |
| Watcher registry | at most one watcher acts per root, under the newest configuration a call acted on; the last client's stop leaves none, and no stop takes a connected client's |

## 2. The modules

| Module | Models | Composition |
|---|---|---|
| `WorkControl` | the control: `cancel()` as its steps (win the reason, clone the callbacks, run each, return), late registration | instantiated by the next two |
| `Admission` | the coordinator's contract with its callers, without queue, counters and callbacks | abstract |
| `WorkCoordinator` | admission, queueing, leases, shutdown | `Ctl == INSTANCE WorkControl WITH Callbacks <- Calls`; implements `Admission` (`Promise == INSTANCE Admission WITH ...`) |
| `RunControl` | ONNX runs and SQLite statements under a control | `EXTENDS WorkControl` |
| `RankingSnapshot` | probes, observer, producer, readers, against a changing index file | |
| `OverviewCache` | entries, eviction, flights, waiters, payload | |
| `DaemonStart` | shims, daemons, `daemon stop`, kills | |
| `SemanticIndex` | passes, transactions, attestation, and the structural writes they depend on | |
| `StateWatcher` | the watcher's loop, its queues, the event channel, the index lock shared with `codesage index` | |
| `WatcherRegistry` | calls, stops, sweeps and watcher threads around one root's registry entry | |
| `WorkCoordinatorProofs`, `RunControlProofs`, `RankingSnapshotProofs`, `OverviewCacheProofs`, `DaemonStartProofs`, `SemanticIndexProofs`, `WatcherRegistryProofs`, `StateWatcherProofs` | theorems | `EXTENDS` the module and `TLAPS` |
| `MC*` | lanes, callback ownership, symmetry sets, initial states for TLC | `EXTENDS` the module |

**WorkCoordinator.** A call slot is one `acquire_execution` in progress: `pc` is
its position, `work` its arguments, `phase` the atomic of its queue entry,
`woken` its armed `Notified`. Each section under the state mutex is one action
(`Enqueue`, `Admit`, `DropPending`, `Release`, ...); everything outside the mutex
is a step of its own: the registration, the arming, the check of the control,
the callback's store of `STOPPED`, each step of `cancel()`. `Abort` is the drop
of the future at its await, from which the Drop impls run in the code's order.
`shutdown()` is `Close` (collect under the mutex), `CloseCancel` per control and
`CloseNotify`. The `Flights` are controls of cache producers, which hold no
request lease. A finished slot or control is used again, so behaviours are
unbounded although the state is finite.

**Admission.** An order is placed, begins or is withdrawn, and finishes. It
begins only with room in its lane and for its project, never for a control whose
`cancel()` has returned, never after closing. The mapping from `WorkCoordinator`
is `order <- work`, `executing <- running`, `cancelled` the controls whose
canceller is done, `shut <- closed`: the queue, the counters, the phases, the
callbacks and the wakeups disappear, and that together they enforce the four
guards of `Begin` is what `ImplementsAdmission` says.

**RunControl.** A worker has the control `Of[w]`. A run goes through
`run_guarded`: first check, registration, second check, start, run, mapping of
the error. A cancellation may fall between the second check and the start, so a
run may start with its flag set; what is claimed is that it is then told to stop.
A failing `terminate()`, which the code logs, is left out. A connection installs its callback and its progress handler; SQLite
clears the interrupt flag when a statement begins, so an `interrupt()` between
two statements is forgotten, and the progress handler is what still stops the
next one. A deadline expires on its own; whoever looks first (the timer in
`dispatch.rs` or a worker's `check`) becomes the canceller, in its own thread.

**RankingSnapshot.** The file at the path is one of `Files`; its content is the
pair of the file and its number of commits. `probe` follows
`ProjectSlot::generation` call by call (identity, mutex, open, attest, version,
attest); `at` follows the request through `get`, the producer,
`with_cached_snapshot` and `describe`. `data_version` is counted from the
opening of a connection, as SQLite defines it only for one connection; the
observer's `base` remembers from where. Whether a flight is still current when
it completes is a free choice here and is the subject of `OverviewCache`. An
entry is evicted whenever nobody holds its slot (`InUse`), also between the two
probes of a reader. The
configuration digest and the coupling policy in a `Generation` are left out.
`moves` and `flicker` are history variables: how often the path changed since a
request's current pair of probes began, and whether any pair saw three changes.

**OverviewCache.** `lru` is the project map ordered by `touched`; `SlotInUse` is
`Arc::strong_count(&slot) > 1`, with the holders the code has: requests,
detached probes, flights that still execute. A flight is a task with its own
steps; `Leave` and `CancelAbandoned` are the two halves of
`Drop for WaiterGuard`, before and after the mutex is released; `Complete` and
`Notify` are those of `complete`. The loop that makes room for a payload drops
the oldest rankings as the code does, subtracting each from the byte counter
(`MakesRoom` says after how many of them it stops; `BytesOf` is what a set of
rankings weighs, as the number of its bytes).
A generation is a number here; `RankingSnapshot` says what it stands for.

**DaemonStart.** Each process's system calls are separate actions: create the
lock, write the pid in it, probe, unlink, bind. A socket file listens as long as
its daemon is in the states between bind and exit. Timeouts may fire at any
moment. `clash` is a history variable: a startup met another one or a cleanup.
Every process runs once; `Manual` daemons are started by a user.

**SemanticIndex.** A pass is `Discover` or `NameFiles`, `OpenTable` (which clears
the fingerprint of a foreign table before the first write), `RemoveOrphans`,
`ReadBatch`/`WriteBatch` per batch, `Record`; each is one transaction or the reads
before it, and `Interrupt` may come between any two. A row holds the content
hash and the set of setups its vectors were made under, because reuse of
unchanged chunks may mix them. Passes exclude each other by the index lock.
`symbols` is what the structural index holds of each file: the content it parsed
and the language it took it for, since a header file is C or C++ depending on
other files. Vectors are embedded with a header made of these symbols if the
language gets one (`Augmented`, the code's `should_augment`). That language is
the one the semantic pass's own discovery took the file for; it is chosen freely
in `WriteBatch` and kept in the row, and need not be the one `symbols` has. As
headers depend on symbols, `upsert_file` deletes the semantic hash even when the
bytes are the same (`WithoutHash`) and keeps the vectors, whose unchanged chunks
the next pass may reuse. `WriteSymbols` and `DropSymbols` are the writes of a structural pass, file by
file; how that pass chooses its files is not modelled, so any file may be written
at any time.

**StateWatcher.** The watcher is one thread; `pc` is its place in the loop and
`loc` the locals of the step it is in. `q` holds the maps and sets of per-file
work (`pending`, `parked`, the removed paths and prefixes, the retry counters),
`bulk`, `startup` and `refresh` the scheduled passes over the tree, `chan` and
`lost` the bounded channel and its overflow flag. The steps between which the
code holds no lock are actions of their own, and edits, notifications and a
`codesage index` of another process come between them: reading the ignore files
and registering the watches (`Start`, `Register`); in `reindex_one`, reading the
file (`ReadyRead`), asking for its semantic hash (`ReadyLook`), asking for its
structural hash (`ReadyFresh`, `ReadyDiffers`) and writing under the index lock
(`ReadyIndex`, which reads the file again); the read and the write of a pass over
the tree. The taking of the lock, the second read and the write of one file are
one action: who else wants the lock gets it before or after, and an edit after
the read is announced as one after the write is.

A structural write deletes the semantic hash of every file it writes, changed or
not (`Disowned`, from `upsert_file`). Which unchanged files a pass writes is a
free choice `W`: all of them with `--full`, and in an incremental pass those that
`index_discovery_report` selects for another reason, such as every Java file once
one has changed. A `codesage index` run may be full or incremental, may end after
its structural half (`--no-semantic`, an error, a kill) and drops the rows of files
it cannot read (`Droppable`): those of both kinds when full, the vectors also when
the table is of another setup.

An iteration in which nothing is due changes nothing and is a stuttering step. A
busy machine (backpressure) and a busy database are counted as faults, as the
code bounds the first and SQLite's timeout the second. Header dialects and the
status file are left out. Two history variables name what the properties do not
promise: `excused`, the files not edited since the code stopped owing them
anything although their rows may be stale, and `blind`, those whose ignore rules
changed between `Start` and `Register`. Section 3 lists each case.

**WatcherRegistry.** One project root. A call resolves the project (from the
cache, or by `stat` and read of `config.toml`), takes the root's lifecycle lease
and its lock, decides, and reserves, retires, spawns or stops a watcher; each
critical section of the registry map and each access to the file system is an
action. The stop of all watchers and the sweep of dead entries do not take the
lifecycle lock. The check after `Lock`, and the drop of the lease after the
unlock, are merged with their neighbours, since nothing else can see the
difference; so are the read of `config.toml` and its insertion in the cache, and a
cached state that `resolve_project` inserts again is one with its own stamp, so
that the pair stays valid or not as a whole. Every write of `config.toml` has a
stamp of its own: two writes in one tick of the file system's clock are left out.
Whether a call wants a watcher (`semantic_query`, `watch`) is a free
choice in `Decide`, which also stands for the `watch.disabled` marker and
`CODESAGE_WATCH`. The waits for an exit may time out at any moment at which
the watcher lives; a watcher is detached only after it was told to stop. Join
handles, other roots and the daemon's `shutdown_all_watchers` (the same stop,
after which nobody calls) are left out.

## 3. The runs

Every run states its bounds in its `.cfg`. Times are for two workers.

| Run | Checks | Bounds and why they are enough |
|---|---|---|
| `coordinator` | `TypeOK`, `AccountingExact`, `LimitsRespected`, `NoLostWakeup`, `ShutdownReachesAll`, `NoLeakedCallback`, `CancelledNeverAdmitted`, `ImplementsAdmission` | two calls, one request and one flight control, two projects, a lane with two slots (one per project) and one place: queueing, refusal, round robin and every race of a call with a canceller and with shutdown happen. 0.9 M states, 80 s. For larger limits see the theorems |
| `coordinator_live` | `EveryCallReturns`, `ShutdownDrains` | two calls of two flights compete for one slot with two places |
| `cancel_workers` | `TypeOK`, `CancelledRunsTerminated`, `TerminationReportedAsStop`, `CallbacksOwned`, `CancellationStopsWork` | two runs and a connection share a control, so that one's check cancels the others. 0.14 M states, 35 s |
| `ranking` | `RankingMatchesSnapshot`, `PublishedFaithfulUnlessFlicker` | one request, two files, one commit each, three changes of the path, one eviction of the observer; or two requests, one file and two commits, for the shared observer, its mutex and the published ranking (`PathsOrRequests`: both at once exceed the time; a behaviour is not followed past a flicker, where nothing is claimed). 2.3 M states, 1 min |
| `ranking_aba` | `PublishedRankingFaithful`, violated | three changes of the path within one pair of probes |
| `cache` | `TypeOK`, `HeldEntryStays`, `PayloadAccounting`, `RetiredAccounting`, `RankingNeverOlder` | three projects with room for two entries and one ranking, or one project with two generations (`OneOrMany`); two requests and flights: eviction, making room, join, abandon, replace, complete, also after a newer generation was asked for or published. 0.8 M states, 1 min |
| `cache_live` | `WaitersCounted`, `EveryGetReturns` | two requests for one project and one flight at a time |
| `daemon_handover` | `CleanHandover`, `StaleLockRecovered` | two shims with two attempts, a spawned and a manual daemon, a stopper, one kill. 0.6 M states, 2 min |
| `daemon_starter` | `LiveLockKept`, violated | three shims, one kill |
| `semantic_passes` | `AttestedRowsUniform`, `PassCovers`, `HeadersCurrent`, `TableRecovers` | two files, two contents, two setups, two dialects, batches of one file; three events of any kind: edit, structural write, interruption, unreadable file, change of setup, a file embedded in a language without headers (`Alike` starts with one content, one setup and at most one named file missing, as they are interchangeable). 1.2 M states, 2.5 min |
| `watcher` | `TypeOK`, `NoLostEdit`, `Converges` | one file in a directory that may be moved in and out or ignored, two contents, a channel of one event, one retry, two startup attempts, two removal failures; two edits, two faults, one pass of `codesage index`, full or not: overflow, parking, giving up, a rewrite of an unchanged file, and an edit between any two steps happen. 0.8 M states, 2.5 min |
| `registry` | `OneWatcher`, `NoPhantomWatcher`, `NewestConfigActs`, `CachedConfigCurrent`, `ClientKeepsWatcher`, `StopsWithLastClient` | two clients, two configurations besides `Off` and `Broken`, two watchers, two lifecycle locks, one write of `config.toml`, one removal or creation of the index. 3.0 M states, 2.5 min |

Deadlock is checked everywhere except in `DaemonStart`, where every process
ends, and `WatcherRegistry`, where nobody has to call.

Each property of a passing run has a mutant in `PROJECT.json`: a one-definition
change, kept beside the definition it changes, that a plausible mistake in the
code would amount to (a guard dropped, a counter not given back, a fingerprint
cleared late) and that makes TLC report exactly that property.

### Fairness

- `WorkCoordinator`, `RunControl`, `OverviewCache`: weak fairness of the steps a
  task, a canceller or a drop takes by itself, because tokio and the blocking
  pool run every task that can run. A running execution is assumed to end
  (`Release`), as its control's deadline stops it (`CancellationStopsWork` is that
  claim for the two kinds of native work). No client is obliged to call, cancel
  or shut down. `EveryCallReturns` is checked with shutdown as the only reason to
  stop: an endless stream of calls of one project that queue and are cancelled by
  their clients is not excluded by the code and could keep another project's
  queued call waiting.
- `OverviewCache` has strong fairness of `Own`: the code allocates a flight
  whenever it needs one, and the bound on `Flights` must not starve a request.
- `DaemonStart`: weak fairness of each shim and daemon, as the kernel schedules
  every process; kills, stops and manual starts are free.
- `SemanticIndex`: a pass that began goes on, and an incremental pass is run
  infinitely often (strong fairness, since other passes may hold the index lock
  whenever it is tried). The events are bounded, so after the last of them the
  table must recover.
- `StateWatcher`: weak fairness of the watcher's loop as a whole (`Running`: some
  step of it is taken while one is due, since the thread runs and deadlines pass)
  and of the other process's pass, which ends. Edits, faults, further passes, and
  the start and the exit of the watcher are free.

### Two disagreements

- **`ranking_aba`** (`overview_cache.rs:654`). The producer takes its result for
  stable when both its probes returned one generation and its own connection
  still matches the file at the path. Nothing compares the file of the one with
  the file of the other. If the path names A during both probes, and B when the
  producer opens and when it attests its connection, B's ranking is published
  under A's generation. The test
  `producer_ancestor_symlink_aba_cannot_publish_another_database_ranking` (line
  1765) exercises two changes of the path; this takes three between one pair of
  probes. The reader's checks have the same shape, so three changes can also make
  a reader show one file's ranking with the other's snapshot. Three is exact:
  `RankingIsOfSnapshot` and `PublishedIsFaithful` prove both properties for any
  number of changes, commits and requests as long as no pair of probes sees three
  of them.
- **`daemon_starter`** (`daemon.rs:906`). `clean_stale_lock` decides on what it
  read and removes what is there. If the lock was reclaimed and acquired by
  another shim in between, or was read before its holder wrote the pid, a live
  holder's lock goes, against the comment at `daemon.rs:843`. `run_daemon`'s own
  checks remain as the second line of defence (`CleanHandover`, which for this
  reason speaks of startups that do not meet).

### Known limits of the code that the properties step around

Each is excluded by name in the property that would meet it, except the last,
which the models do not show.

- **A file found fresh without the lock** (`statewatcher.rs:1142`, `1146`). The
  watcher compares a file's hashes with its rows without the index lock. A
  `codesage index` that has read the older content may still write it afterwards,
  or may write the file between the two comparisons and so delete the semantic
  hash the first was about; nothing is queued for the file any more. `NoLostEdit`
  and `Converges` have it in `excused`.
- **An unchanged file rewritten and not embedded** (`structural.rs:324`,
  `statewatcher.rs:1497`). A structural pass that rewrites unchanged files deletes
  their semantic hashes. When the semantic half of a burst's bulk pass then fails,
  `apply_bulk_outcome` drops the retry, and no event names these files; a
  `codesage index` that ends after its structural half, or a full one that cannot
  read a file, leaves the same. They have no current vectors until their next edit
  or the next pass over the tree. Also in `excused`, and a hazard of its own in
  `PROJECT.json`.
- **What is given up.** After the last startup failure and the last removal failure
  the watcher logs an error and owes nothing more (`excused`).
- **Ignore rules edited while a watcher starts** (`statewatcher.rs:219`). Between
  the reading of the ignore files and the registration of the watches an edit of
  them is announced to nobody, and the old filter stays until something else makes
  the watcher reload it. `blind` holds the files concerned.
- **A header embedded as C** (`semantic.rs:386`, `657`). Each pass discovers the
  tree for itself. If the one `.cpp` that makes a `.h` C++ is gone at the semantic
  pass and was there at the structural one, the file's vectors get no header, and
  if it is back before the next structural pass nobody makes them again.
  `HeadersCurrent` asks for the stored symbols of rows embedded in a language with
  headers, and for none of the others.
- **Startups that meet.** Two startups, or a startup and a `daemon stop` or an
  exit's cleanup, can unlink each other's files; `CleanHandover` speaks of the
  behaviours without such a `clash`. The code's look at a socket file and its
  connection attempt are one step here, as the difference is inside a clash.
- **A watcher nobody attends.** A call whose client has left in the meantime may
  reserve a watcher after the last client's stop has looked at the registry; the
  watcher lives until it idles out, where `CHANGELOG.md:596` says it "stops with
  the last client". `StopsWithLastClient` speaks of the others.
- **A configuration that changes and changes back.** If `config.toml` goes from A
  to B and back to A between the resolution of a call and the spawn, the watcher
  runs with B's exclusions under A's key (`state.rs`, the spawn reads the file
  again). The model keeps a configuration's value and stamp together and does not
  show it.

## 4. The proofs

The eight `*Proofs` modules prove for every value of the constants what the runs
check on small ones. They rest only on the assumptions of the modules:

| Assumption | Says |
|---|---|
| `LimitsAssumption` | what `WorkLimits::validate` insists on, and that finitely many calls and controls are in flight |
| `NoReasonAssumption`, `WorkersAssumption` | a deadline is a reason to stop; a worker is a run or a connection and works under one control |
| `CacheAssumption` | there is room for one entry; sizes are natural numbers |
| `SnapshotAssumption` | the bounds on commits, changes of the path and evictions are natural numbers |
| `StartAssumption` | a shim tries at least once |
| `IndexAssumption` | a batch holds at least one file |
| `WatcherAssumption` | a file has some content; the directory is no file; at least one attempt is made at the startup pass and at a removal |
| `RegistryAssumption` | finitely many clients, and a fresh identity for a new lifecycle lock whenever no call has one |

Besides, they say that the value for "none" is no member of the sets it is added
to. Each inductive invariant was checked with TLC, on the bounds of the
component's run, before it was proved.

**Coordinator.** `AccountingExact` and `LimitsRespected` are not inductive: a
drop decrements a counter on the strength of owning an entry. `OwnershipInv` says
who owns what: a call is queued exactly from `Enqueue` to its admission or drop,
is in `running` exactly from `Admit` to `Release`, is queued once, and only an
open request is attached. `IInv == TypeOK /\ OwnershipInv /\ AccountingExact /\
LimitsRespected` is inductive (`Inductive`). The proof has one lemma per action
that touches the counters (`EnqueueStep`, `AdmitStep`, `DropPendingStep`,
`ReleaseStep`, `TryRequestStep`, `AttachProjectStep`, `DropRequestStep`), built
on lemmas about `PutCounts`, `PruneProject`, `RemoveAt` and cardinalities; the
others are frame arguments. `TypeCorrect`, `Accounting` and `Limits` follow.

`NoAdmissionAfterCancel` needs `CancelInv`: a registered call that is still
`PENDING` is in the path of its control's canceller, first among the callbacks
and then among the clones. So when `cancel()` has returned no call of that
control is `PENDING`, and `Admit` takes only a `PENDING` one. `CallbacksOwned`
proves `CancelInv` with `NoLeakedCallback`.

`ShutdownComplete` needs `ShutdownInv`: once closed, a live control has a reason
or is still to be cancelled; the set of live controls only shrinks after `Close`,
since every insertion checks `closed` under the same mutex.

`Wakeup` (`NoLostWakeup`) compares what `eligible()` returns before and after each
step. Steps that add an entry at the tail or leave the entries alone change
neither the ready positions nor the preferred ones among the old entries
(`ReadyFrame`), so a sleeper that becomes eligible does so by a release, an
admission, the drop of an entry or a callback, and each of these notifies in the
same step. What makes it hold is `CancelInv` and `OwnershipInv` again: only a
pending, queued call sleeps.

`Refinement` (`Spec => ImplementsAdmission`) puts these together. `AdmitBegins`
shows that an admission satisfies the guards of `Begin`: the project's room from
the counter by `AccountingExact`, the control by `CancelInv`. `StepImplements`
shows of every other action which abstract step it is, or that callers cannot
see it; it needs one more invariant, `IdleInv` (a slot without a call holds no
order).

**Guarded runs.** That a cancelled run is terminated (`CancelReaches`) depends on
where a cancellation falls between the two checks and the registration of
`run_guarded`. `CoverInv` says that from the registration on the run's callback
has run or is in the canceller's path (`Covered`); `ReasonInv` and `CloneInv` tie
the canceller's stage to the reason and to the clones it holds. `StopReported`
needs `SignalInv` and `ReportInv`: a run fails as terminated only with its flag
set, which only a cancelled control does, so the check in the error mapping finds
a reason.

**Overview cache.** The counts are kept by guards that run anywhere between two
holds of the mutex. The invariant says what a request holds at each place of
`get()` (`RequestInv`), that a flight with a reference to it is not freed
(`HolderInv`), what a flight that has gone or has a result looks like
(`FlightInv`), and what the joinable flight of a project is (`CurrentInv`: not
finished, not abandoned, somebody waits, its entry is there). `CountInv` and
`RetiredInv` count by cardinality. Each action has a lemma for its effect on the
record it changes, then one for the invariant; the steps that change no waiter set
share `QuietIInv` and `CalmIInv`. `EntryStays` rests on `ReplaceEffect`: of the
entries only the evicted one goes, and an entry whose slot is held is not
evictable. The theorems are `WaitersAreCounted`, `RetiredIsCounted` and
`EntryStays`.

`RankingsOnlyRenewed` (`RankingNeverOlder`) needs `AgeInv`: while a flight whose
result is stable is its project's current one, nothing newer than it is stored.
The second probe of a producer shows that no commit came before its result; a
commit after it can lead to a newer ranking only through a request of the new
generation, which retires the flight first.

`PayloadCounted` is about a counter that is only ever added to and subtracted
from. The weight of a set of rankings is the cardinality of the set of their
bytes, so weights of disjoint sets add up and one never exceeds that of a larger
set; both follow from the library's facts on finite sets. `PayloadInv` adds that
`lru` names every entry once, which is what makes the loop subtract each ranking
once: the bytes of the rankings dropped, of those kept and of the one replaced are
disjoint, so the counter after `Complete` is the weight of what is there and is
within the limit, and no subtraction goes below zero (`TypeCorrect`).

**Rankings and snapshots.** A generation names an observer by its epoch, and the
observer's `data_version` counts commits to the one file it has open (`Known`). So
two probes with the same generation enclose no commit to that file, and a snapshot
of it pinned in between has the content the generation stands for (`PinOK`). The
code never compares the file of the generation with the file of the connection
that pinned. `WindowOK` derives it by counting: the path named the generation's
file at both probes and the connection's file at its opening and at the last
check, and if these are different files the path changed at least three times in
between. `ClaimInv` carries this beyond the probes: whatever is published, held by
a reader or about to be published is a claim that a generation stands for a
content, every claim agrees with the observer of its generation, and no two claims
of one generation differ, even when the observer is gone. The last part is what a
reader needs whose observer was replaced between its lookup and its probes. The
theorems are `TypeCorrect`, `RankingIsOfSnapshot` and `PublishedIsFaithful`.

**Daemon start.** `Handover` is about startups that meet neither another startup
nor a cleanup. Under that condition (`~clash`) the invariant `Apart` says: a
daemon past its startup owns the control socket until its last removal
(`ControlOwned`); one that has found the control socket dead is alone
(`StartsAlone`); what a startup has bound so far is its own (`StarterOwns`); who
removes files that it found dead finds no server (`CleanersAlone`). Once there was
a clash nothing is claimed, which is why the invariant is an implication.

**Watcher registry.** `LockInv` says that every lease is of the lock in the map
and that the lock has one holder, although the map entry goes with the last lease
and a new lock takes its place; so what a call decided under the lock still holds
when it reserves and spawns (`Alone`). `TargetInv` gives a reservation to its call
until the thread exists; with `AliveInv` (what looks alive is registered, or was
told to stop and then detached) this gives `OneWatcherRuns` and `NoPhantom`.
`StampInv` (no state is newer than the file; one resolved under the lock is as new
as anything acted on) gives `NewestActs`, and a write of `config.toml` makes every
earlier read invalid, which is `CacheCurrent`. `AssuredInv` and `AbsenceInv` carry
`ClientKeeps` and `StopsWithLast`: with no client connected and no stop about to
look, what lives was told to stop or came after the last client.

**State watcher.** `NoLostEdit` is far from inductive: an event may be queued that
the watcher will drop, and a pass may be scheduled that a failure makes it forget.
`Covered(f)` counts only what is sure to have the file looked at again: an event
that the filter lets pass and that still finds what it says (`Ev`), a pass that no
outcome of `BulkOutcome` forgets (`PassOwed`), the queues and hands of the loop
(`Kept`; those of the removals only while the file is gone), or `excused`.
`CoverInv` claims it of every file whose rows differ from the tree and of every
file of which another process holds an old content that it may yet write.

The rest of `IInv` is about the moments between looking and acting. A pass, a
`reindex_one` and a removal that have read what is no longer there are told of it
(`PassInv`, `LookInv`, `PurgeInv`); a file whose vectors are to be made has structural rows of its
content or somebody else will look at it (`StaleInv`); a directory without a watch
and a filter that is not the tree's have an event or a reload coming (`DirInv`,
`FilterInv`), which is what makes an unreported edit harmless. `LockInv` and
`LocalsInv` say who holds the index lock and which locals are live at each place
of the loop, `HandInv` that `reindex_one` has one file in hand which is nowhere
else, `EventInv` and `AbsentInv` what notifications say. There is a lemma
per operation for its effect on the queues or the locals (`RequeuedEffect`,
`QueuedEffect`, `RemovalEffect`, ...), a frame for edits (`EditFrame`), for steps
on one file (`OneFile`) and for steps that only move work (`WorkMoves`), and one
lemma per step of the loop. While the watcher is off, starting or stopping only the
first six conjuncts are claimed; `Register` establishes the others, because the
pass it owes covers everything but the files in `blind`.

**Semantic index.** `AttestedRowsUniform` needs to know during a pass that a
fingerprint still in place is the pass's own (`OpenInv`: so the rows it writes,
and those it copies vectors from, agree with it), and that a pass which will
attest at its end has left no foreign vectors among the files it is done with
(`RecordInv`). `PassCovers` needs the same for coverage (`CoverInv`), and that
what was seen and read are contents the file really had (`HistoryInv`).
`HeadersCurrent` is inductive with `TypeOK`: symbols change only together with the
row's hash (`WithoutHashEffect`), and a row is written with the symbols of its own
content, or with none where the language of the pass gets none. The theorems are `Inductive`, `TypeCorrect`, `Attestation`,
`Coverage` and `Headers`.

**Model-checked only.** Liveness (`EveryCallReturns`, `ShutdownDrains`,
`CancellationStopsWork`, `EveryGetReturns`, `StaleLockRecovered`,
`TableRecovers`, `Converges`) and anything about `ENABLED` are out of the prover's
reach. Every safety property of a passing run is a theorem.

## 5. Not modelled

- **Data.** SQL, parsing, chunking, embedding, ranking formulas, response
  formats: pure functions of a snapshot.
- **Time.** Deadlines, debounce and timeouts may fire at any moment once set;
  their lengths are left out.
- **Platform.** Only the Unix paths of the daemon; sockets are files that listen
  or do not. Reaping daemons of other executables is left out.
- **Gauges.** Diagnostic counters and log lines.
- **Model pools.** An idle model is evicted by count of its holders; the race left
  needs a call that sleeps between two statements for longer than the idle
  timeout.
- `PROJECT.json` lists every component with its status and the reason.

## 6. Plan

In order of importance:

1. `StructuralIndex`: discovery, context markers, batches and purge of failed
   files, with interruptions, on the pattern of `SemanticIndex`.
2. An abstract `ProjectIndex` (edits happen, the index catches up) that
   `StateWatcher` with `SemanticIndex` implements under a refinement mapping, and
   an abstract single-flight cache that `OverviewCache` implements.
3. `StateFiles`: rename, torn tails, the session ledger's cap without a lock.
4. Git history, overlay, model pools.
