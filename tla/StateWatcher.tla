---------------------------- MODULE StateWatcher ----------------------------
(***************************************************************************)
(* The per-project watcher that keeps the index current while files change *)
(* (crates/cli/src/statewatcher.rs), the bounded event channel that feeds  *)
(* it and the project's advisory index lock (crates/cli/src/lockfile.rs),  *)
(* which a `codesage index` run of another process takes as well.          *)
(*                                                                         *)
(* The watcher is one thread.  An iteration of its loop receives an event  *)
(* and then, in this order and each only when its time has come, replaces  *)
(* the watch registrations, runs a bulk pass over the tree, purges removed *)
(* files, reindexes quiet files one by one and revives parked ones.  What  *)
(* it still owes the index lives in several queues; every path through the *)
(* loop moves work between them.  The files, the other process and the     *)
(* notifications interleave with every step.                               *)
(*                                                                         *)
(* Time is abstracted: a debounce, retry, cooldown or backpressure window  *)
(* may end at any moment.  Header dialects are left out.                   *)
(***************************************************************************)
EXTENDS Naturals, Sequences, FiniteSets

CONSTANTS Files, Contents,
          Dir, Nested,         \* a top-level directory and the files in it
          Ignorable,           \* the files a .gitignore edit may exclude
          QueueCapacity,       \* EVENT_QUEUE_CAPACITY
          PendingLimit,        \* PENDING_PATH_LIMIT
          MaxWorkRetries,      \* MAX_WORK_RETRIES
          StartupTries,        \* the three attempts of startup_outcome
          MaxRemovalFailures,  \* MAX_REMOVAL_FAILURES
          MaxEdits, MaxFaults, MaxPasses,  \* bounds: edits, errors, `codesage index` runs
          None

ASSUME WatcherAssumption ==
    /\ Nested \subseteq Files /\ Ignorable \subseteq Files /\ Dir \notin Files
    /\ QueueCapacity \in Nat /\ PendingLimit \in Nat /\ MaxWorkRetries \in Nat
    /\ StartupTries \in Nat \ {0} /\ MaxRemovalFailures \in Nat \ {0}
    /\ MaxEdits \in Nat /\ MaxFaults \in Nat /\ MaxPasses \in Nat
    /\ Contents # {} /\ None \notin Contents /\ None \notin {"watcher", "cli"}

VARIABLES
    disk,      \* the working tree
    dir,       \* the directory: absent, there but not registered, or watched
    ignored,   \* what .gitignore excludes
    st, se,    \* per file: the content its structural and its semantic rows are of
    holder,    \* who holds the index lock
    cli,       \* the other process's pass: its stage and what it has read
    chan, lost, \* EventAdmission
    filter,    \* the files the watcher's WatchFilter ignores
    blind,     \* history: the files it was wrong about when the watches were registered
    q,         \* the queues of per-file work
    bulk,      \* bulk_retry_at is set
    startup,   \* startup_failures; StartupTries once it is None
    refresh,   \* FilterRefresh
    pc, loc,   \* the watcher's place in its loop, and its locals
    excused,   \* history: files not edited since the watcher owed them nothing although
               \* their rows may be stale
    edits, faults, passes

world == <<disk, dir, ignored>>
work == <<q, bulk, startup, refresh>>
vars == <<disk, dir, ignored, st, se, holder, cli, chan, lost, filter, blind, q, bulk,
          startup, refresh, pc, loc, excused, edits, faults, passes>>

Row == Contents \cup {None}
Paths == Files \cup {Dir}
Kinds == {"Modify", "Remove", "Rename", "Create", "Ignore"}
Events == [kind : Kinds, path : Paths]

\* pending, parked: the keys of the maps; retries: work_retries; failures:
\* removal_fail_count.
Queues == [pending : SUBSET Files, parked : SUBSET Files, paths : SUBSET Files,
           prefixes : SUBSET Paths, retries : [Files -> 0..MaxWorkRetries],
           failures : 0..MaxRemovalFailures - 1]
NoWork == [pending |-> {}, parked |-> {}, paths |-> {}, prefixes |-> {},
           retries |-> [f \in Files |-> 0], failures |-> 0]
NoRefresh == [reload |-> FALSE, reconciling |-> FALSE]

\* ready, stale: process_ready's ready and semantic_todo; now, text, old: the
\* file reindex_one has in hand, its content and whether stale_semantic is set;
\* purge: the paths given to purge_index_rows, `from` naming its caller; seen:
\* what a bulk pass has read; bare: the unchanged files it has rewritten; burst,
\* stopping: why the step runs.
Locals == [ready : SUBSET Files, stale : SUBSET Files, now : SUBSET Files, text : Row,
           old : BOOLEAN, purge : SUBSET Files, from : {"removals", "ready"},
           seen : [Files -> Row], bare : SUBSET Files, burst : BOOLEAN, stopping : BOOLEAN]
Blank == [f \in Files |-> None]
NoLocals == [ready |-> {}, stale |-> {}, now |-> {}, text |-> None, old |-> FALSE,
             purge |-> {}, from |-> "ready", seen |-> Blank, bare |-> {},
             burst |-> FALSE, stopping |-> FALSE]
NoPass == [stage |-> "none", seen |-> Blank]

TypeOK ==
    /\ disk \in [Files -> Row] /\ dir \in {"absent", "unwatched", "watched"}
    /\ ignored \subseteq Ignorable /\ filter \subseteq Ignorable /\ blind \subseteq Files
    /\ st \in [Files -> Row] /\ se \in [Files -> Row]
    /\ holder \in {"watcher", "cli", None}
    /\ cli \in [stage : {"none", "structural", "semantic"}, seen : [Files -> Row]]
    /\ chan \in Seq(Events) /\ Len(chan) <= QueueCapacity /\ lost \in BOOLEAN
    /\ q \in Queues /\ bulk \in BOOLEAN /\ startup \in 0..StartupTries
    /\ refresh \in [reload : BOOLEAN, reconciling : BOOLEAN]
    /\ pc \in {"off", "starting", "top", "begin", "reload", "retry", "removals", "drain",
               "revive", "ready", "look", "compare", "index", "gone", "purge", "structural",
               "semantic"}
    /\ loc \in Locals /\ excused \subseteq Files
    /\ edits \in 0..MaxEdits /\ faults \in 0..MaxFaults /\ passes \in 0..MaxPasses

\* What the index should hold of each file: discovery skips ignored ones.
View == [f \in Files |-> IF f \in ignored THEN None ELSE disk[f]]
Stale(f) == st[f] # View[f] \/ se[f] # View[f]

\* A project that has not been indexed; its files have one content between
\* them, for all contents are alike until the first edit.
Init ==
    /\ disk \in [Files -> {None, CHOOSE c \in Contents : TRUE}]
    /\ dir = IF \E f \in Nested : disk[f] # None THEN "unwatched" ELSE "absent"
    /\ ignored = {} /\ filter = {} /\ blind = {}
    /\ st = Blank /\ se = Blank
    /\ holder = None /\ cli = NoPass
    /\ chan = <<>> /\ lost = FALSE
    /\ q = NoWork /\ bulk = FALSE /\ startup = 0 /\ refresh = NoRefresh
    /\ pc = "off" /\ loc = NoLocals /\ excused = {}
    /\ edits = 0 /\ faults = 0 /\ passes = 0

\* Whether something goes wrong in a step.
Fault(b) == /\ b => faults < MaxFaults
            /\ faults' = IF b THEN faults + 1 ELSE faults
-----------------------------------------------------------------------------
(***************************************************************************)
(* Edits of the tree and their notifications                               *)
(***************************************************************************)

\* Mutant: the channel has no bound.
AdmitUnbounded(e) == chan' = Append(chan, e) /\ UNCHANGED <<lost, faults>>

\* EventAdmission::admit.  A backend error stands for the events it swallowed.
Admit(e) ==
    \/ /\ Len(chan) < QueueCapacity
       /\ chan' = Append(chan, e) /\ UNCHANGED <<lost, faults>>
    \/ /\ Len(chan) < QueueCapacity => faults < MaxFaults
       /\ faults' = IF Len(chan) < QueueCapacity THEN faults + 1 ELSE faults
       /\ lost' = TRUE /\ UNCHANGED chan

\* The watches are registered.
Watching == pc \notin {"off", "starting"}

\* The backend reports what happens in the root and in registered trees.
Notify(kind, p) ==
    IF Watching /\ (p \in Nested => dir = "watched")
    THEN Admit([kind |-> kind, path |-> p])
    ELSE UNCHANGED <<chan, lost, faults>>

\* An edit renews what the watcher owes the files it changes.
Edit == /\ edits < MaxEdits /\ edits' = edits + 1
        /\ excused' = {f \in excused : View'[f] = View[f]}
        /\ UNCHANGED <<st, se, holder, cli, filter, blind, q, bulk, startup, refresh, pc,
                       loc, passes>>

Save(f, c) ==
    /\ f \in Nested => dir # "absent"
    /\ c # disk[f] /\ disk' = [disk EXCEPT ![f] = c] /\ UNCHANGED <<dir, ignored>>
    /\ Notify("Modify", f) /\ Edit

Unlink(f) ==
    /\ disk[f] # None
    /\ disk' = [disk EXCEPT ![f] = None] /\ UNCHANGED <<dir, ignored>>
    /\ Notify("Remove", f) /\ Edit

\* The directory arrives with files in it; the backend reports the directory.
MoveIn(F, c) ==
    /\ dir = "absent" /\ dir' = "unwatched"
    /\ disk' = [f \in Files |-> IF f \in F THEN c ELSE disk[f]] /\ UNCHANGED ignored
    /\ Notify("Create", Dir) /\ Edit

\* Renamed out of the tree: one event for the directory, none for its files.
MoveOut ==
    /\ dir # "absent" /\ dir' = "absent"
    /\ disk' = [f \in Files |-> IF f \in Nested THEN None ELSE disk[f]] /\ UNCHANGED ignored
    /\ Notify("Rename", Dir) /\ Edit

EditIgnore(F) ==
    /\ F # ignored /\ ignored' = F /\ UNCHANGED <<disk, dir>>
    /\ Notify("Ignore", Dir) /\ Edit
-----------------------------------------------------------------------------
(***************************************************************************)
(* `codesage index` in another process                                     *)
(***************************************************************************)

\* The semantic rows after a structural write of the files in F.  upsert_file
\* deletes the hash whatever the content was: of the files that changed, and of
\* those in W, which a pass writes although they did not.  The removal of a file
\* deletes its rows.
Disowned(seen, F, W) ==
    [f \in Files |-> IF f \in F /\ (f \in W \/ seen[f] # st[f] \/ seen[f] = None)
                     THEN None ELSE se[f]]

WriteStructural(seen, F, W) ==
    /\ st' = [f \in Files |-> IF f \in F THEN seen[f] ELSE st[f]]
    /\ se' = Disowned(seen, F, W)

\* The files whose vectors such a write disowns although nobody edited them.
Bared(seen, F, W) == {f \in F \cap W : seen[f] = st[f] /\ seen[f] # None}

WriteSemantic(seen, F) == se' = [f \in Files |-> IF f \in F THEN seen[f] ELSE se[f]]

CliBegin ==
    /\ cli.stage = "none" /\ passes < MaxPasses /\ holder = None
    /\ passes' = passes + 1 /\ holder' = "cli"
    /\ cli' = [stage |-> "structural", seen |-> View]
    /\ UNCHANGED <<world, st, se, chan, lost, filter, blind, work, pc, loc, excused, edits,
                   faults>>

\* The files a pass over the whole table has discovered and then cannot read.
Droppable(F, D) == D \cap F = {} /\ \A f \in D : cli.seen[f] # None

CliEnd == cli' = NoPass /\ holder' = None

\* The pass writes the files in F, changed or in W, and cannot read the others.
\* With --full it writes all and drops the rows of those in D, which it cannot
\* read; an incremental one rewrites unchanged files too, such as every Java file
\* once one has changed.  The run ends here with --no-semantic, with an error, or
\* because it dies.
CliStructural(F, W, D) ==
    /\ cli.stage = "structural" /\ Fault(F # Files)
    /\ Droppable(F, D) /\ (D # {} => W = Files)
    /\ st' = [f \in Files |-> IF f \in D THEN None ELSE IF f \in F THEN cli.seen[f] ELSE st[f]]
    /\ se' = Disowned(cli.seen, F, W)
    /\ excused' = excused \cup Bared(cli.seen, F, W) \cup D
    /\ \/ cli' = [cli EXCEPT !.stage = "semantic", !.seen = View] /\ UNCHANGED holder
       \/ CliEnd
    /\ UNCHANGED <<world, chan, lost, filter, blind, work, pc, loc, edits, passes>>

\* The same of the vectors; the rows in D go also in an incremental pass, when
\* the table is of another setup and is made anew.
CliSemantic(F, D) ==
    /\ cli.stage = "semantic" /\ Fault(F # Files)
    /\ Droppable(F, D)
    /\ WriteSemantic([f \in Files |-> IF f \in D THEN None ELSE cli.seen[f]], F \cup D)
    /\ excused' = excused \cup D
    /\ CliEnd
    /\ UNCHANGED <<world, st, chan, lost, filter, blind, work, pc, loc, edits, passes>>
-----------------------------------------------------------------------------
(***************************************************************************)
(* The watcher: start, and the events                                      *)
(***************************************************************************)

\* WatchFilter::new reads the ignore files.
Start ==
    /\ pc = "off" /\ pc' = "starting" /\ filter' = ignored
    /\ UNCHANGED <<world, st, se, holder, cli, chan, lost, blind, work, loc, excused, edits,
                   faults, passes>>

\* Registers the watches, then owes the index a bulk pass over the tree.  Nobody
\* has been told what happened to the ignore files since Start.
Register ==
    /\ pc = "starting" /\ pc' = "top" /\ loc' = NoLocals
    /\ blind' = (filter \ ignored) \cup (ignored \ filter)
    /\ dir' = IF dir = "absent" THEN dir ELSE "watched"
    /\ chan' = <<>> /\ lost' = FALSE
    /\ q' = NoWork /\ bulk' = TRUE /\ startup' = 0 /\ refresh' = NoRefresh
    /\ excused' = {}
    /\ UNCHANGED <<disk, ignored, st, se, holder, cli, filter, edits, faults, passes>>

Under(P) == UNION {IF p = Dir THEN Nested ELSE {p} : p \in P}

\* pending_work_exceeds_budget
OverBudget == LET retried == {f \in Files : q.retries[f] > 0}
              IN  Cardinality(q.pending) + Cardinality(retried) + Cardinality(q.parked)
                    + Cardinality(q.paths) + Cardinality(q.prefixes) > PendingLimit

\* Mutant: a lost notification is forgotten unless the work is over the budget.
SweepForgets ==
    /\ pc = "top" /\ (OverBudget \/ lost)
    /\ q' = IF OverBudget THEN [NoWork EXCEPT !.failures = q.failures] ELSE q
    /\ refresh' = [refresh EXCEPT !.reload = @ \/ OverBudget]
    /\ lost' = FALSE
    /\ UNCHANGED <<world, st, se, holder, cli, chan, filter, blind, bulk, startup, pc, loc,
                   excused, edits, faults, passes>>

\* The head of the loop: work over the budget is replaced by a full
\* reconciliation, and so is a lost notification.
Sweep ==
    /\ pc = "top" /\ (OverBudget \/ lost)
    /\ q' = IF OverBudget THEN [NoWork EXCEPT !.failures = q.failures] ELSE q
    /\ refresh' = [refresh EXCEPT !.reload = TRUE]
    /\ lost' = FALSE
    /\ UNCHANGED <<world, st, se, holder, cli, chan, filter, blind, bulk, startup, pc, loc,
                   excused, edits, faults, passes>>

RefreshPending == refresh.reload \/ refresh.reconciling

\* The rest of an event's iteration.  When the burst threshold is reached a
\* bulk pass runs at once or, in the cooldown of the last one, is scheduled.
AfterEvent(scheduled) ==
    \/ pc' = "reload" /\ bulk' = scheduled /\ UNCHANGED loc
    \/ /\ ~refresh'.reload /\ ~refresh'.reconciling
       /\ \/ pc' = "begin" /\ bulk' = scheduled /\ loc' = [loc EXCEPT !.burst = TRUE]
          \/ pc' = "top" /\ bulk' = TRUE /\ UNCHANGED loc

Receive(e) == /\ pc = "top" /\ chan # <<>> /\ e = Head(chan)
              /\ ~OverBudget /\ chan' = Tail(chan)
              /\ UNCHANGED <<disk, ignored, st, se, holder, cli, lost, filter, blind,
                             startup, excused, edits, faults, passes>>

ReceiveIgnore(e) ==
    /\ Receive(e) /\ e.kind = "Ignore"
    /\ refresh' = [refresh EXCEPT !.reload = TRUE] /\ bulk' = TRUE
    /\ pc' = "reload" /\ UNCHANGED <<dir, q, loc>>

\* A directory that arrived is registered, which may fail, and then scanned for
\* the files that came before the watch; too many of them wait for a bulk pass.
ReceiveDirectory(e) ==
    /\ Receive(e) /\ e.path = Dir /\ e.kind \in {"Create", "Rename"} /\ dir # "absent"
    /\ refresh' = [refresh EXCEPT !.reload = TRUE] /\ bulk' = TRUE
    /\ dir' \in {dir, "watched"}
    /\ \E scan \in {{}, {f \in Nested : disk[f] # None} \ filter} :
          q' = [q EXCEPT !.paths = @ \ scan, !.pending = @ \cup scan]
    /\ pc' = "reload" /\ UNCHANGED loc

\* The path of the event is gone: its rows, and those of the files that were
\* under it, are looked up in the index later.
Vanished(e) == /\ e.kind \in {"Remove", "Rename"} /\ e.path \notin filter
               /\ IF e.path = Dir THEN dir = "absent" ELSE disk[e.path] = None

Queued(e) ==
    LET q1 == IF Vanished(e) THEN [q EXCEPT !.prefixes = @ \cup {e.path}] ELSE q
    IN  IF e.path \notin Files \ filter THEN q1
        ELSE IF e.kind = "Modify"
             THEN [q1 EXCEPT !.paths = @ \ {e.path}, !.pending = @ \cup {e.path}]
             ELSE [q1 EXCEPT !.paths = @ \cup {e.path}]

ReceivePath(e) ==
    /\ Receive(e) /\ e.kind # "Ignore"
    /\ ~(e.path = Dir /\ e.kind \in {"Create", "Rename"} /\ dir # "absent")
    /\ q' = Queued(e)
    /\ UNCHANGED <<dir, refresh>>
    /\ AfterEvent(bulk \/ Vanished(e))

ReceiveEvent ==
    /\ pc = "top" /\ chan # <<>>
    /\ \E e \in Events : ReceiveIgnore(e) \/ ReceiveDirectory(e) \/ ReceivePath(e)

\* POLL_INTERVAL passes without an event, and the iteration goes on.  One in
\* which nothing is due either is no step at all.
Polled == pc = "top" /\ chan = <<>> /\ ~OverBudget
-----------------------------------------------------------------------------
(***************************************************************************)
(* Replacing the registrations, and the bulk pass                          *)
(***************************************************************************)

\* The new filter is in force and every tree registered before the
\* reconciliation reads the first file; on an error the old ones stay.
Reload ==
    /\ refresh.reload /\ (pc = "reload" \/ Polled)
    /\ \/ /\ Fault(FALSE)
          /\ filter' = ignored /\ blind' = {}
          /\ dir' = IF dir = "absent" THEN dir ELSE "watched"
          /\ refresh' = [reload |-> FALSE, reconciling |-> TRUE]
       \/ Fault(TRUE) /\ UNCHANGED <<filter, blind, dir, refresh>>
    /\ pc' = "retry"
    /\ UNCHANGED <<disk, ignored, st, se, holder, cli, chan, lost, q, bulk, startup, loc,
                   excused, edits, passes>>

\* startup_outcome: the first failures count as contention.
StartupOutcome(outcome) ==
    IF outcome = "Failed" /\ startup + 1 < StartupTries THEN "Skipped" ELSE outcome

StartupAfter(outcome) ==
    IF startup = StartupTries \/ outcome = "Skipped" THEN startup
    ELSE IF outcome = "Done" THEN StartupTries ELSE startup + 1

StaleNext == {f \in Files : st'[f] # View[f] \/ se'[f] # View[f]}

\* What the loop does with the result of run_bulk_guarded: apply_bulk_outcome,
\* and startup_outcome or the bookkeeping of the filter's reconciliation.  The
\* last startup failure gives up what no queue holds; a later one gives up the
\* files in `bare`, which the pass rewrote unchanged and did not embed.
BulkOutcome(outcome, bare) ==
    LET forFilter == refresh.reconciling
        applied == IF forFilter THEN outcome ELSE StartupOutcome(outcome)
        later == IF forFilter /\ outcome = "Done" THEN NoRefresh ELSE refresh
    IN  /\ refresh' = later
        /\ startup' = IF forFilter THEN startup ELSE StartupAfter(outcome)
        /\ q' = IF applied = "Done" THEN [NoWork EXCEPT !.failures = q.failures] ELSE q
        /\ bulk' = (applied = "Skipped")
        /\ excused' = IF applied = "Done" THEN {}
                     ELSE IF applied = "Failed" /\ ~forFilter
                     THEN excused \cup IF startup = StartupTries THEN bare ELSE StaleNext
                     ELSE excused
        /\ pc' = IF loc.burst \/ later.reconciling THEN "top" ELSE "removals"
        /\ loc' = NoLocals

\* Mutant: the deadline of a retry is looked at only with a new filter.
BulkDueRefresh == \/ pc = "begin"
                  \/ /\ pc \in {"reload", "retry"} \/ Polled
                     /\ ~refresh.reload
                     /\ refresh.reconciling

\* A bulk pass is due: of the filter's reconciliation, of a retry, or of a burst.
BulkDue == \/ pc = "begin"
           \/ /\ pc \in {"reload", "retry"} \/ Polled
              /\ ~refresh.reload
              /\ refresh.reconciling \/ bulk

BulkBegin ==
    /\ BulkDue /\ holder = None
    /\ holder' = "watcher" /\ pc' = "structural" /\ loc' = [loc EXCEPT !.seen = View]
    /\ UNCHANGED <<world, st, se, cli, chan, lost, filter, blind, work, excused, edits,
                   faults, passes>>

\* The index lock is held, or the machine is busy: should_defer lets that happen
\* for BACKPRESSURE_MAX_DEFER and no longer.
BulkSkipped ==
    /\ BulkDue /\ Fault(holder = None) /\ BulkOutcome("Skipped", {})
    /\ UNCHANGED <<world, st, se, holder, cli, chan, lost, filter, blind, edits, passes>>

\* The lock, the database, a file or the model fails, after the rows in F.
BulkFailed(F, W) ==
    /\ Fault(TRUE)
    /\ \/ /\ BulkDue /\ holder = None /\ UNCHANGED <<st, se>>
          /\ BulkOutcome("Failed", {})
       \/ /\ pc = "structural" /\ WriteStructural(loc.seen, F, W)
          /\ BulkOutcome("Failed", Bared(loc.seen, F, W))
       \/ /\ pc = "semantic" /\ WriteSemantic(loc.seen, F) /\ UNCHANGED st
          /\ BulkOutcome("Failed", loc.bare \ F)
    /\ holder' = None
    /\ UNCHANGED <<world, cli, chan, lost, filter, blind, edits, passes>>

BulkStructural(W) ==
    /\ pc = "structural"
    /\ WriteStructural(loc.seen, Files, W)
    /\ pc' = "semantic"
    /\ loc' = [loc EXCEPT !.seen = View, !.bare = Bared(loc.seen, Files, W)]
    /\ UNCHANGED <<world, holder, cli, chan, lost, filter, blind, work, excused, edits,
                   faults, passes>>

BulkSemantic ==
    /\ pc = "semantic"
    /\ WriteSemantic(loc.seen, Files) /\ UNCHANGED st
    /\ holder' = None /\ BulkOutcome("Done", {})
    /\ UNCHANGED <<world, cli, chan, lost, filter, blind, edits, faults, passes>>
-----------------------------------------------------------------------------
(***************************************************************************)
(* Removals, and the per-file work                                         *)
(***************************************************************************)

\* The loop is at p, or before it with nothing due in between; a
\* reconciliation ends the iteration before the removals.
UpTo == [removals |-> {"reload", "retry", "removals"},
         drain    |-> {"reload", "retry", "removals", "drain"},
         revive   |-> {"reload", "retry", "removals", "drain", "revive"}]
Reaches(p) == ~refresh.reconciling /\ (Polled \/ pc \in UpTo[p])

Owed == q.paths \cup Under(q.prefixes)

\* handle_removals, first half: under the lock, the files that are still gone.
RemovalsBegin ==
    /\ holder = None /\ Reaches("removals") /\ Owed # {}
    /\ holder' = "watcher" /\ pc' = "purge"
    /\ loc' = [loc EXCEPT !.purge = {f \in Owed : disk[f] = None}, !.from = "removals"]
    /\ UNCHANGED <<world, st, se, cli, chan, lost, filter, blind, work, excused, edits,
                   faults, passes>>

\* apply_removal_outcome
RemovalOutcome(outcome) ==
    LET giveUp == outcome = "Failed" /\ q.failures + 1 = MaxRemovalFailures
        settled == giveUp \/ outcome = "Done"
    IN  /\ q' = IF settled THEN [q EXCEPT !.paths = {}, !.prefixes = {}, !.failures = 0]
                ELSE IF outcome = "Failed" THEN [q EXCEPT !.failures = @ + 1] ELSE q
        /\ excused' = IF giveUp
                     THEN excused \cup (Owed \cap StaleNext)
                     ELSE excused
        /\ pc' = IF loc.stopping THEN "ready" ELSE "drain"

\* The lock is held, or cannot be taken.
RemovalsDeferred ==
    /\ Owed # {} /\ Reaches("removals")
    /\ UNCHANGED <<st, se>>
    /\ \/ holder # None /\ Fault(FALSE) /\ RemovalOutcome("Skipped")
       \/ holder = None /\ Fault(TRUE) /\ RemovalOutcome("Failed")
    /\ UNCHANGED <<world, holder, cli, chan, lost, filter, blind, bulk, startup, refresh,
                   loc, edits, passes>>

\* requeue_failed_work: a path out of retries is parked.
Requeued(k, F) ==
    LET spent == {f \in F : k.retries[f] = MaxWorkRetries}
    IN  [k EXCEPT !.pending = (@ \cup F) \ spent, !.parked = @ \cup spent,
                  !.retries = [f \in Files |-> IF f \in spent THEN 0
                                               ELSE IF f \in F THEN @[f] + 1 ELSE @[f]]]

\* The obligations of the files in F are met.
Settled(k, F) == [k EXCEPT !.parked = @ \ F,
                           !.retries = [f \in Files |-> IF f \in F THEN 0 ELSE @[f]]]

\* What the caller of purge_index_rows does with its outcome.
PurgeOutcome(outcome) ==
    IF loc.from = "removals" THEN RemovalOutcome(outcome)
    ELSE /\ q' = CASE outcome = "Done" -> Settled(q, loc.purge)
                   [] outcome = "Skipped" -> [q EXCEPT !.pending = @ \cup loc.purge]
                   [] outcome = "Failed" -> Requeued(q, loc.purge)
         /\ pc' = "ready" /\ UNCHANGED excused

\* purge_index_rows, which gives no second look at the disk.  An error, or a
\* busy database, comes before or after the rows are gone.
Purge ==
    /\ pc = "purge"
    /\ \/ WriteStructural(Blank, loc.purge, {}) /\ Fault(FALSE) /\ PurgeOutcome("Done")
       \/ /\ Fault(TRUE)
          /\ WriteStructural(Blank, loc.purge, {}) \/ UNCHANGED <<st, se>>
          /\ PurgeOutcome("Skipped") \/ PurgeOutcome("Failed")
    /\ holder' = None /\ loc' = [loc EXCEPT !.purge = {}, !.from = "ready"]
    /\ UNCHANGED <<world, cli, chan, lost, filter, blind, bulk, startup, refresh, edits,
                   passes>>

\* drain_pending takes the files whose debounce has elapsed.
DrainBegin(R) ==
    /\ R # {} /\ R \subseteq q.pending /\ Reaches("drain")
    /\ pc' = "ready" /\ loc' = [loc EXCEPT !.ready = R]
    /\ UNCHANGED <<world, st, se, holder, cli, chan, lost, filter, blind, work, excused,
                   edits, faults, passes>>

\* process_ready takes the next file f out of pending.
Take(f) == /\ pc = "ready" /\ f \in loc.ready
           /\ UNCHANGED <<world, st, se, holder, cli, chan, lost, filter, blind, bulk,
                          startup, refresh, excused, edits, passes>>
Rest(f) == [q EXCEPT !.pending = @ \ {f}]
Left(f) == [loc EXCEPT !.ready = @ \ {f}]

ReadyIgnored(f) ==
    /\ Take(f) /\ f \in filter
    /\ q' = Settled(Rest(f), {f}) /\ loc' = Left(f)
    /\ UNCHANGED <<pc, faults>>

\* reindex_one reads the file; an absent or empty one is to be purged.
ReadyRead(f) ==
    /\ Take(f) /\ f \notin filter
    /\ q' = Rest(f) /\ loc' = [Left(f) EXCEPT !.now = {f}, !.text = disk[f]]
    /\ pc' = IF disk[f] = None THEN "gone" ELSE "look"
    /\ UNCHANGED faults

ReadyUnread(f) ==
    /\ Take(f) /\ f \notin filter /\ Fault(TRUE)
    /\ q' = Requeued(Rest(f), {f}) /\ loc' = Left(f)
    /\ UNCHANGED pc

\* The steps of reindex_one after that, each of them open to the other process.
AtFile(f, places) ==
    /\ pc \in places /\ f \in loc.now
    /\ UNCHANGED <<world, cli, chan, lost, filter, blind, bulk, startup, refresh, edits,
                   passes>>

\* It returns; the files in F are embedded later.
Returns(F) == /\ pc' = "ready"
              /\ loc' = [loc EXCEPT !.now = {}, !.text = None, !.old = FALSE,
                                    !.stale = @ \cup F]

\* semantic_hash_is_fresh, which an error makes false.
ReadyLook(f) ==
    /\ AtFile(f, {"look"}) /\ pc' = "compare"
    /\ \E b \in BOOLEAN : Fault(b) /\ loc' = [loc EXCEPT !.old = b \/ se[f] # loc.text]
    /\ UNCHANGED <<st, se, holder, q, excused>>

\* structural_hash_is_fresh: nothing to do for the structural rows.  Both
\* answers come without the index lock.  A pass of the other process that has
\* read another content may yet write it, and one that has written the file
\* between the two has deleted the semantic hash the first was about.
ReadyFresh(f) ==
    /\ AtFile(f, {"compare"}) /\ st[f] = loc.text
    /\ q' = IF loc.old THEN q ELSE Settled(q, {f})
    /\ Returns(IF loc.old THEN {f} ELSE {})
    /\ excused' = IF \/ cli.stage # "none" /\ cli.seen[f] # loc.text
                     \/ ~loc.old /\ se[f] # loc.text
                  THEN excused \cup {f} ELSE excused
    /\ UNCHANGED <<st, se, holder, faults>>

ReadyDiffers(f) ==
    /\ AtFile(f, {"compare"}) /\ pc' = "index" /\ Fault(st[f] = loc.text)
    /\ UNCHANGED <<st, se, holder, q, loc, excused>>

\* index_files under the lock: it reads the file again.
ReadyIndex(f) ==
    /\ AtFile(f, {"index"}) /\ holder = None /\ disk[f] # None
    /\ WriteStructural(disk, {f}, {f}) /\ Returns({f})
    /\ UNCHANGED <<holder, q, excused, faults>>

\* purge_one_locked
ReadyPurge(f) ==
    /\ AtFile(f, {"gone"}) /\ holder = None
    /\ holder' = "watcher" /\ pc' = "purge"
    /\ loc' = [loc EXCEPT !.now = {}, !.text = None, !.purge = {f}, !.from = "ready"]
    /\ UNCHANGED <<st, se, q, excused, faults>>

\* The rows after an attempt that fails, perhaps after the write.
Attempt(f) == \/ UNCHANGED <<st, se>>
              \/ /\ pc = "index" /\ holder = None /\ disk[f] # None
                 /\ WriteStructural(disk, {f}, {f})

\* The index lock is held, or the database is busy, perhaps only when the hash
\* that was written is read back.
ReadySkipped(f) ==
    /\ AtFile(f, {"gone", "index"}) /\ Fault(holder = None) /\ Attempt(f)
    /\ q' = [q EXCEPT !.pending = @ \cup {f}] /\ Returns({})
    /\ UNCHANGED <<holder, excused>>

\* The file has gone, or the lock or the database fails.
ReadyFailed(f) ==
    /\ AtFile(f, {"gone", "index"})
    /\ Fault(~(pc = "index" /\ holder = None /\ disk[f] = None)) /\ Attempt(f)
    /\ q' = Requeued(q, {f}) /\ Returns({})
    /\ UNCHANGED <<holder, excused>>

AfterReady == /\ pc = "ready" /\ loc.ready = {} /\ loc.stale # {}
              /\ loc' = [loc EXCEPT !.stale = {}]
              /\ pc' = IF loc.stopping THEN "ready" ELSE "revive"
              /\ UNCHANGED <<world, st, holder, cli, chan, lost, filter, blind, bulk,
                             startup, refresh, excused, edits, passes>>

\* semantic_reindex_batch and apply_semantic_outcome; the files in F cannot be
\* read or embedded.
Embed(F) ==
    /\ AfterReady /\ holder = None /\ F \subseteq loc.stale
    /\ \A f \in loc.stale : disk[f] = None => f \in F
    /\ Fault(\E f \in F : disk[f] # None)
    /\ WriteSemantic(disk, loc.stale \ F)
    /\ q' = Requeued(Settled(q, loc.stale \ F), F)

EmbedSkipped ==
    /\ AfterReady /\ Fault(holder = None)
    /\ q' = [q EXCEPT !.pending = @ \cup loc.stale]
    /\ UNCHANGED se

EmbedFailed ==
    /\ AfterReady /\ Fault(TRUE)
    /\ q' = Requeued(q, loc.stale)
    /\ UNCHANGED se

\* The end of an iteration: parked files whose interval is over go back to
\* pending, and a removal queue that is empty forgets its failures.
Revive(F) ==
    /\ F \subseteq q.parked
    /\ \/ Reaches("revive")
       \/ pc = "ready" /\ loc.ready = {} /\ loc.stale = {} /\ ~loc.stopping
    /\ q' = [Settled(q, F) EXCEPT !.pending = @ \cup F,
                                  !.failures = IF Owed = {} THEN 0 ELSE @]
    /\ pc' = "top"
    /\ UNCHANGED <<world, st, se, holder, cli, chan, lost, filter, blind, bulk, startup,
                   refresh, loc, excused, edits, faults, passes>>

\* A reconciliation that is not due yet.
Continue ==
    /\ pc \in {"reload", "retry"} /\ refresh.reconciling
    /\ pc' = "top"
    /\ UNCHANGED <<world, st, se, holder, cli, chan, lost, filter, blind, work, loc, excused,
                   edits, faults, passes>>
-----------------------------------------------------------------------------
(***************************************************************************)
(* The ends of a watcher                                                   *)
(***************************************************************************)

\* The watches, the channel and the locals of the thread go with it.
Exit == /\ pc' = "off" /\ loc' = NoLocals /\ excused' = {}
        /\ filter' = {} /\ blind' = {} /\ dir' = IF dir = "absent" THEN dir ELSE "unwatched"
        /\ chan' = <<>> /\ lost' = FALSE
        /\ q' = NoWork /\ bulk' = FALSE /\ startup' = 0 /\ refresh' = NoRefresh
        /\ UNCHANGED <<disk, ignored, st, se, cli, edits, passes>>

\* The idle timeout passes with nothing owed.
IdleExit ==
    /\ Reaches("revive") /\ q.pending = {} /\ q.parked = {} /\ Owed = {}
    /\ ~bulk /\ ~refresh.reload /\ ~lost
    /\ Exit /\ UNCHANGED <<holder, faults>>

\* The disabled marker, or the death of the process, which frees its lock.
Die == /\ pc # "off" /\ Fault(TRUE) /\ Exit
       /\ holder' = IF holder = "watcher" THEN None ELSE holder

\* Shutdown: one attempt at the removals and at every pending file.
Shutdown ==
    /\ (pc = "reload" \/ Polled) /\ Fault(TRUE)
    /\ IF Owed # {} /\ holder = None
       THEN /\ holder' = "watcher" /\ pc' = "purge"
            /\ loc' = [loc EXCEPT !.stopping = TRUE, !.ready = q.pending, !.from = "removals",
                                  !.purge = {f \in Owed : disk[f] = None}]
       ELSE /\ UNCHANGED holder /\ pc' = "ready"
            /\ loc' = [loc EXCEPT !.stopping = TRUE, !.ready = q.pending]
    /\ UNCHANGED <<world, st, se, cli, chan, lost, filter, blind, work, excused, edits,
                   passes>>

ShutdownDone ==
    /\ pc = "ready" /\ loc.stopping /\ loc.ready = {} /\ loc.stale = {}
    /\ Exit /\ UNCHANGED <<holder, faults>>
-----------------------------------------------------------------------------
Indexing ==
    /\ cli.stage # "none"
    /\ \E F, D \in SUBSET Files :
          CliSemantic(F, D) \/ \E W \in SUBSET Files : CliStructural(F, W, D)

Environment ==
    \/ \E f \in Files : Unlink(f) \/ \E c \in Contents : Save(f, c)
    \/ \E F \in SUBSET Nested, c \in Contents : MoveIn(F, c)
    \/ MoveOut
    \/ \E F \in SUBSET Ignorable : EditIgnore(F)
    \/ CliBegin \/ Indexing

ReadyStep ==
    /\ pc \in {"ready", "look", "compare", "index", "gone"}
    /\ \E f \in Files : \/ ReadyIgnored(f) \/ ReadyRead(f) \/ ReadyUnread(f)
                        \/ ReadyLook(f) \/ ReadyFresh(f) \/ ReadyDiffers(f)
                        \/ ReadyIndex(f) \/ ReadyPurge(f)
                        \/ ReadySkipped(f) \/ ReadyFailed(f)
EmbedStep ==
    pc = "ready" /\ ((\E F \in SUBSET Files : Embed(F)) \/ EmbedSkipped \/ EmbedFailed)
BulkWrites == pc = "structural" /\ \E W \in SUBSET Files : BulkStructural(W)
EndStep == \E F \in SUBSET Files : Revive(F)

Watcher ==
    \/ Start \/ Register \/ Sweep \/ ReceiveEvent \/ Reload
    \/ BulkBegin \/ BulkSkipped \/ BulkWrites \/ BulkSemantic
    \/ \E F \in SUBSET Files : DrainBegin(F) \/ \E W \in SUBSET Files : BulkFailed(F, W)
    \/ RemovalsBegin \/ RemovalsDeferred \/ Purge \/ ReadyStep \/ EmbedStep \/ EndStep
    \/ Continue \/ IdleExit \/ Die \/ Shutdown \/ ShutdownDone

Next == Environment \/ Watcher
Spec == Init /\ [][Next]_vars

\* The watcher's thread runs and its deadlines pass: while something is due the
\* loop goes on.  The other process finishes its pass.
Running == \/ Register \/ Sweep \/ ReceiveEvent \/ Reload
           \/ BulkBegin \/ BulkWrites \/ BulkSemantic \/ RemovalsBegin \/ Purge
           \/ ReadyStep \/ EmbedStep \/ ShutdownDone \/ Continue
           \/ \E F \in SUBSET Files : DrainBegin(F) \/ ((pc # "top" \/ F # {}) /\ Revive(F))
Fairness == WF_vars(Running) /\ WF_vars(Indexing)

FairSpec == Spec /\ Fairness
-----------------------------------------------------------------------------
\* The queued events that concern f.
Announced(f) == \E i \in 1..Len(chan) : chan[i].path = f \/ chan[i].kind = "Ignore"
                                        \/ (chan[i].path = Dir /\ f \in Nested)

\* The watcher's loop holds f, or a pass over the whole tree, in its hands.
InHand(f) == \/ f \in loc.ready \cup loc.now \cup loc.stale \cup loc.purge
             \/ pc \in {"begin", "structural", "semantic"}

\* While a watcher runs, an index row that differs from the tree has work owed
\* for it somewhere: in the channel, in a queue, in a scheduled pass or in
\* hand.  The exceptions, each ended by the next edit of the file: what the last
\* startup failure and the last removal failure give up with an error logged; a
\* file found current without the index lock while a pass of another process is
\* behind, or writes; and one that a pass rewrote unchanged, or a full one could
\* not read, without embedding it.  Files whose ignore rules changed while the
\* watcher started are in `blind`.
NoLostEdit ==
    Watching /\ ~loc.stopping =>
        \A f \in Files \ blind : Stale(f) =>
            \/ Announced(f) \/ lost \/ RefreshPending \/ bulk
            \/ f \in q.pending \cup q.parked \cup Owed
            \/ InHand(f) \/ f \in excused

\* Once the edits stop, a watcher that keeps running brings every row up to
\* date with the tree, but for the files NoLostEdit excuses and those that a
\* pass under way has rewritten and is about to embed.
Converges ==
    <>[](pc = "off" \/ \A f \in Files \ blind : Stale(f) => f \in excused \cup loc.bare)
=============================================================================
