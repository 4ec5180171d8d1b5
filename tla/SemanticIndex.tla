--------------------------- MODULE SemanticIndex ---------------------------
(***************************************************************************)
(* The semantic index of a project (crates/graph/src/semantic.rs): a table *)
(* of chunk vectors per file, the content hash each file was embedded at,  *)
(* and the fingerprint that attests under which setup (model, provider,    *)
(* chunking) every stored vector was made.  A query trusts the table only  *)
(* under its own fingerprint.  A chunk is embedded with a header made of   *)
(* the file's symbols, which structural passes replace.                    *)
(*                                                                         *)
(* A pass commits in several transactions and may be interrupted between   *)
(* any two of them, by an error or by the death of the process; files and  *)
(* configuration change while it runs.  Passes exclude one another by the  *)
(* project's index lock.                                                   *)
(***************************************************************************)
EXTENDS Naturals, FiniteSets

CONSTANTS Files, Contents,
          Setups,       \* semantic fingerprints
          Dialects,     \* the languages discovery may take a file for
          Augmented,    \* should_augment: those whose chunks get a header
          BatchSize,    \* COMMIT_BATCH_SIZE
          MaxEvents,    \* bound: edits, structural writes, interruptions, unreadable
                        \* files, changes of setup and batches without headers
          None

\* The structural rows of a file: the content they are of and its language.
Symbols == [hash : Contents, dialect : Dialects]

\* What the table keeps of a file: its hash, unless a structural write took it
\* away, the setups of its vectors, the language its chunks were taken for and
\* the symbols in their headers.
Row == [hash : Contents \cup {None}, setups : SUBSET Setups, dialect : Dialects,
        header : Symbols \cup {None}]

ASSUME IndexAssumption ==
    /\ BatchSize \in Nat \ {0} /\ MaxEvents \in Nat
    /\ Augmented \subseteq Dialects
    /\ None \notin Contents \cup Setups \cup Symbols \cup Row

VARIABLES disk,    \* the working tree
          setup,   \* the fingerprint of the configuration in force
          symbols, \* per file: its structural rows
          rows,    \* per file: its recorded hash and the setups of its vectors
          attest,  \* semantic_models.fingerprint
          pc, run, \* the pass and its locals
          events

vars == <<disk, setup, symbols, rows, attest, pc, run, events>>

Strategies == {"full", "incremental", "files"}
\* found, failed, seen: the discovery report; had: history, the contents each
\* file has had since; sel: the files of the batch that were read.
Run == [strategy : Strategies \cup {None}, setup : Setups \cup {None},
        found : SUBSET Files, failed : SUBSET Files, seen : [Files -> Contents \cup {None}],
        had : [Files -> SUBSET (Contents \cup {None})],
        stale : BOOLEAN, records : BOOLEAN, todo : SUBSET Files,
        sel : [Files -> Contents \cup {None}], bad : BOOLEAN]

Nothing == [f \in Files |-> None]
NoRun == [strategy |-> None, setup |-> None, found |-> {}, failed |-> {}, seen |-> Nothing,
          had |-> [f \in Files |-> {}], stale |-> FALSE, records |-> FALSE, todo |-> {},
          sel |-> Nothing, bad |-> FALSE]

TypeOK ==
    /\ disk \in [Files -> Contents \cup {None}]
    /\ setup \in Setups
    /\ symbols \in [Files -> Symbols \cup {None}]
    /\ rows \in [Files -> Row \cup {None}]
    /\ attest \in Setups \cup {None}
    /\ pc \in {"idle", "open", "orphans", "batch", "write", "record"}
    /\ run \in Run
    /\ pc # "idle" => run.setup \in Setups /\ run.strategy \in Strategies
    /\ events \in 0..MaxEvents

Init ==
    /\ disk \in [Files -> Contents \cup {None}]
    /\ setup \in Setups
    /\ symbols = Nothing /\ rows = Nothing
    /\ attest = None
    /\ pc = "idle" /\ run = NoRun
    /\ events = 0

\* Whether the world intervenes in a step.
Event(b) == /\ b => events < MaxEvents
            /\ events' = IF b THEN events + 1 ELSE events
-----------------------------------------------------------------------------
(***************************************************************************)
(* The world around a pass                                                 *)
(***************************************************************************)

Edit(f, c) ==
    /\ c # disk[f] /\ Event(TRUE)
    /\ disk' = [disk EXCEPT ![f] = c]
    /\ run' = IF pc = "idle" THEN run ELSE [run EXCEPT !.had[f] = @ \cup {c}]
    /\ UNCHANGED <<setup, symbols, rows, attest, pc>>

\* Another model, provider or chunking is configured.
Configure(s) ==
    /\ s # setup
    /\ Event(TRUE)
    /\ setup' = s
    /\ UNCHANGED <<disk, symbols, rows, attest, pc, run>>

\* The pass returns an error, or its process dies.
Interrupt ==
    /\ pc # "idle"
    /\ Event(TRUE)
    /\ pc' = "idle" /\ run' = NoRun
    /\ UNCHANGED <<disk, setup, symbols, rows, attest>>

\* remove_file, then semantic_remove_files, which finds nothing left.
RemoveFiles(F) ==
    /\ pc = "idle"
    /\ symbols' = [f \in Files |-> IF f \in F THEN None ELSE symbols[f]]
    /\ rows' = [f \in Files |-> IF f \in F THEN None ELSE rows[f]]
    /\ UNCHANGED <<disk, setup, attest, pc, run, events>>

Unrecorded(row) == IF row.setups = {} THEN None ELSE [row EXCEPT !.hash = None]

\* Mutant: the semantic hash survives a write of unchanged bytes.
WithoutHashIfChanged(f) ==
    IF rows[f] = None THEN None
    ELSE IF symbols[f] # None /\ rows[f].hash = disk[f] THEN rows[f]
    ELSE Unrecorded(rows[f])

\* What upsert_file leaves of the semantic row: the vectors, if there are any.
WithoutHash(f) == IF rows[f] = None THEN None ELSE Unrecorded(rows[f])

\* A structural pass writes the file, taken for dialect d.
WriteSymbols(f, d) ==
    /\ pc = "idle" /\ disk[f] # None
    /\ Event(TRUE)
    /\ symbols' = [symbols EXCEPT ![f] = [hash |-> disk[f], dialect |-> d]]
    /\ rows' = [rows EXCEPT ![f] = WithoutHash(f)]
    /\ UNCHANGED <<disk, setup, attest, pc, run>>

\* A full structural pass cannot read the file; its semantic row stays.
DropSymbols(f) ==
    /\ pc = "idle" /\ symbols[f] # None
    /\ Event(TRUE)
    /\ symbols' = [symbols EXCEPT ![f] = None]
    /\ UNCHANGED <<disk, setup, rows, attest, pc, run>>
-----------------------------------------------------------------------------
(***************************************************************************)
(* A pass: semantic_index_discovery_report and semantic_index_files        *)
(***************************************************************************)

Present == {f \in Files : disk[f] # None}

\* Discovery of the tree; some paths may be unreadable.
Discover(strategy, bad) ==
    /\ pc = "idle"
    /\ strategy \in {"full", "incremental"}
    /\ bad \subseteq Present
    /\ Event(bad # {})
    /\ run' = [NoRun EXCEPT !.strategy = strategy, !.setup = setup,
                            !.found = Present \ bad, !.failed = bad,
                            !.seen = disk, !.had = [f \in Files |-> {disk[f]}],
                            !.bad = bad # {}]
    /\ pc' = "open"
    /\ UNCHANGED <<disk, setup, symbols, rows, attest>>

\* The watcher names the files itself.
NameFiles(F) ==
    /\ pc = "idle"
    /\ F # {}
    /\ run' = [NoRun EXCEPT !.strategy = "files", !.setup = setup, !.found = F, !.seen = disk,
                            !.had = [f \in Files |-> {disk[f]}]]
    /\ pc' = "open"
    /\ UNCHANGED <<disk, setup, symbols, rows, attest, events>>

\* stored_vectors_reusable
Reusable == run.strategy # "full" /\ ~run.stale

\* Mutant: a table of another setup is rewritten only on request.
WholeOnRequest == run.strategy = "full"

\* `selection` is Full: every discovered file is rewritten.
Whole == run.strategy = "full" \/ (run.strategy = "incremental" /\ run.stale)

\* Mutant: a table of another setup keeps its fingerprint until the end.
OpenTableKeepsFingerprint ==
    /\ pc = "open"
    /\ run' = [run EXCEPT !.stale = attest # run.setup]
    /\ pc' = "orphans"
    /\ UNCHANGED <<disk, setup, symbols, rows, attest, events>>

\* semantic_table_state, and clear_semantic_fingerprint before the first write.
OpenTable ==
    /\ pc = "open"
    /\ LET stale == attest # run.setup
       IN  /\ run' = [run EXCEPT !.stale = stale]
           /\ attest' = IF run.strategy = "full" \/ stale THEN None ELSE attest
    /\ pc' = "orphans"
    /\ UNCHANGED <<disk, setup, symbols, rows, events>>

\* Whether the pass may attest the table in the end (records_fingerprint).
Records ==
    /\ ~(run.stale /\ \E f \in run.failed : rows[f] # None)
    /\ Whole \/ (run.strategy = "incremental" /\ \A f \in Files : rows[f] = None)

\* Mutant: a file that has rows is up to date.
SelectedByPath(f) ==
    /\ f \in run.found
    /\ ~Whole /\ run.strategy = "incremental" => rows[f] = None

\* select_semantic_files
Selected(f) ==
    /\ f \in run.found
    /\ ~Whole /\ run.strategy = "incremental" => rows[f] = None \/ rows[f].hash # run.seen[f]

\* The transaction that removes the rows of files no longer discovered.
RemoveOrphans ==
    /\ pc = "orphans"
    /\ rows' = IF run.strategy = "files" THEN rows
               ELSE [f \in Files |-> IF f \in run.found \cup run.failed THEN rows[f] ELSE None]
    /\ run' = [run EXCEPT !.records = Records, !.todo = {f \in Files : Selected(f)}]
    /\ pc' = IF \E f \in Files : Selected(f) THEN "batch" ELSE "record"
    /\ UNCHANGED <<disk, setup, symbols, attest, events>>

\* process_semantic_batch: the files of B are read, those of bad are not, and
\* on a pass that rewrites the table lose their rows in a transaction.
ReadBatch(B, bad) ==
    /\ pc = "batch"
    /\ B # {} /\ B \subseteq run.todo
    /\ Cardinality(B) <= BatchSize
    /\ B \ Present \subseteq bad /\ bad \subseteq B
    /\ Event(bad \cap Present # {})
    /\ rows' = IF Whole THEN [f \in Files |-> IF f \in bad THEN None ELSE rows[f]] ELSE rows
    /\ run' = [run EXCEPT !.todo = @ \ B, !.bad = @ \/ bad # {},
                          !.sel = [f \in Files |-> IF f \in B \ bad THEN disk[f] ELSE None]]
    /\ pc' = "write"
    /\ UNCHANGED <<disk, setup, symbols, attest>>

\* The symbols that the header of a chunk of language d is made of: the stored
\* ones, if the language gets a header and they are of the content that was read.
Header(f, d) ==
    IF d \in Augmented /\ symbols[f] # None /\ symbols[f].hash = run.sel[f] THEN symbols[f] ELSE None

\* The files of the batch that were read.
Read == {f \in Files : run.sel[f] # None}

\* write_semantic_updates, with the vectors of unchanged chunks where they may
\* be reused.  V: the setups of each file's vectors, none for an empty file.
\* L: the language this pass's own discovery took each file for, which depends
\* on the files around it and need not be the one the structural pass stored.
WriteBatch(V, L) ==
    /\ pc = "write"
    /\ \A f \in Read :
          V[f] \subseteq {run.setup} \cup (IF Reusable /\ rows[f] # None THEN rows[f].setups ELSE {})
    /\ rows' = [f \in Files |-> IF f \notin Read THEN rows[f]
                                ELSE [hash |-> run.sel[f], setups |-> V[f], dialect |-> L[f],
                                      header |-> Header(f, L[f])]]
    /\ run' = [run EXCEPT !.sel = Nothing]
    /\ pc' = IF run.todo = {} THEN "record" ELSE "batch"
    /\ Event(\E f \in Read : L[f] \notin Augmented)
    /\ UNCHANGED <<disk, setup, symbols, attest>>

\* record_fingerprint, and the end of the pass.
Record ==
    /\ pc = "record"
    /\ attest' = IF run.records THEN run.setup ELSE attest
    /\ pc' = "idle" /\ run' = NoRun
    /\ UNCHANGED <<disk, setup, symbols, rows, events>>
-----------------------------------------------------------------------------
PassStep ==
    \/ OpenTable \/ RemoveOrphans
    \/ pc = "batch" /\ \E B, bad \in SUBSET Files : ReadBatch(B, bad)
    \/ pc = "write" /\ \E V \in [Read -> SUBSET Setups], L \in [Read -> Dialects] : WriteBatch(V, L)
    \/ Record

Next ==
    \/ \E f \in Files, c \in Contents \cup {None} : Edit(f, c)
    \/ \E s \in Setups : Configure(s)
    \/ Interrupt
    \/ \E F \in SUBSET Files : RemoveFiles(F) \/ NameFiles(F)
    \/ \E f \in Files : DropSymbols(f) \/ \E d \in Dialects : WriteSymbols(f, d)
    \/ \E strategy \in Strategies, bad \in SUBSET Files : Discover(strategy, bad)
    \/ PassStep

Spec == Init /\ [][Next]_vars

\* A pass that has begun goes on, and `codesage index` is run again and again.
Fairness == WF_vars(PassStep) /\ SF_vars(Discover("incremental", {}))

FairSpec == Spec /\ Fairness
-----------------------------------------------------------------------------
(***************************************************************************)
(* Properties                                                              *)
(***************************************************************************)

RowUnder(f, s) == rows[f] # None => rows[f].setups \subseteq {s}

\* Every stored vector of an attested table was made under the setup it
\* attests, whatever interruptions, failed files and changes of setup led
\* there: "an interrupted rebuild must not leave mixed vectors attested".
AttestedRowsUniform ==
    attest # None => \A f \in Files : RowUnder(f, attest)

\* A whole pass that met no failure has embedded every file at a content the
\* file had since discovery, and has left no rows of any other file.
PassCovers ==
    pc = "record" /\ run.strategy # "files" /\ ~run.bad =>
        \A f \in Files :
            IF f \in run.found THEN rows[f] # None /\ rows[f].hash \in run.had[f]
                               ELSE rows[f] = None

\* Vectors that an incremental pass takes for current carry the symbols the
\* structural index holds of that content, in the language it is taken for now,
\* whatever structural and semantic passes came in which order: "semantic
\* headers depend on symbols, even when source bytes did not change".  Only
\* chunks that were taken for a language without headers have none, even where
\* the structural index takes the file for another one.
HeadersCurrent ==
    \A f \in Files :
        symbols[f] # None /\ rows[f] # None /\ rows[f].hash = symbols[f].hash =>
            rows[f].header = IF rows[f].dialect \in Augmented THEN symbols[f] ELSE None

\* Ordinary incremental passes bring an interrupted, half rewritten or foreign
\* table back to one attested under the configured setup.
TableRecovers == []<>(attest = setup)
=============================================================================
