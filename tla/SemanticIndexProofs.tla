------------------------ MODULE SemanticIndexProofs ------------------------
(***************************************************************************)
(* For any files, contents, setups, batch size and number of edits,        *)
(* structural writes and interruptions: the table's attestation is never   *)
(* false, a pass that met no failure covered the tree it discovered, and   *)
(* no row taken for current has the header of replaced symbols.            *)
(***************************************************************************)
EXTENDS SemanticIndex, TLAPS

Running == pc # "idle"
Opened == pc \in {"orphans", "batch", "write", "record"}
Writing == pc \in {"batch", "write", "record"}

\* A fingerprint still in place while rows are written is the pass's own, and
\* then every vector it may copy was made under that setup.
OpenInv ==
    Opened => /\ Reusable => attest = run.setup
              /\ ~Reusable => attest = None
              /\ ~run.stale => \A f \in Files : RowUnder(f, run.setup)

\* Work that is done is not looked at again: what is neither left to do nor
\* in the batch being written is as the pass wants it.
Settled(f) == f \notin run.todo /\ run.sel[f] = None

\* A pass that will attest has left no settled file with foreign vectors.
RecordInv ==
    Writing /\ run.records =>
        /\ run.strategy # "files"
        /\ \A f \in Files : Settled(f) => RowUnder(f, run.setup)

\* The batch's contents are on their way to the table only while it is written.
BatchInv ==
    /\ pc # "write" => run.sel = Nothing
    /\ pc = "record" => run.todo = {}

\* What discovery and the batch saw are contents the file has had since.
HistoryInv ==
    Running => /\ \A f \in Files : disk[f] \in run.had[f] /\ run.seen[f] \in run.had[f]
               /\ \A f \in Files : run.sel[f] # None => run.sel[f] \in run.had[f]
               /\ ~run.bad => run.failed = {}

\* A whole pass without failures has every settled file covered.
CoverInv ==
    Writing /\ run.strategy # "files" /\ ~run.bad =>
        /\ run.todo \subseteq run.found
        /\ \A f \in Files : run.sel[f] # None => f \in run.found
        /\ \A f \in Files \ run.found : rows[f] = None
        /\ \A f \in run.found :
              Settled(f) => rows[f] # None /\ rows[f].hash \in run.had[f]

IInv == /\ TypeOK /\ AttestedRowsUniform /\ OpenInv /\ RecordInv
        /\ BatchInv /\ HistoryInv /\ CoverInv
-----------------------------------------------------------------------------
\* The definitions that only abbreviate.
USE DEF Running, Opened, Writing, Settled, RowUnder, Reusable, Whole

\* The initial table is empty and attests nothing.
LEMMA InitIInv == Init => IInv
BY IndexAssumption
   DEF Init, IInv, TypeOK, AttestedRowsUniform, OpenInv, RecordInv, BatchInv, HistoryInv,
       CoverInv, NoRun, Nothing, Run

\* A header is made of stored symbols, or of none.
LEMMA HeaderType ==
    ASSUME TypeOK, NEW f \in Files, NEW d
    PROVE  Header(f, d) \in Symbols \cup {None}
BY DEF TypeOK, Header

\* A structural write leaves a row of no recorded content, with no vector more.
LEMMA WithoutHashEffect ==
    ASSUME TypeOK, NEW f \in Files
    PROVE  /\ WithoutHash(f) \in Row \cup {None}
           /\ WithoutHash(f) # None => /\ rows[f] # None
                                      /\ WithoutHash(f).hash = None
                                      /\ WithoutHash(f).setups = rows[f].setups
<1>1. CASE rows[f] = None
  BY <1>1 DEF WithoutHash
<1>2. CASE rows[f] # None
  <2>1. rows[f] \in Row
    BY <1>2 DEF TypeOK
  <2>2. Unrecorded(rows[f]) = None \/ Unrecorded(rows[f]) = [rows[f] EXCEPT !.hash = None]
    BY DEF Unrecorded
  <2>3. /\ [rows[f] EXCEPT !.hash = None] \in Row
        /\ [rows[f] EXCEPT !.hash = None].hash = None
        /\ [rows[f] EXCEPT !.hash = None].setups = rows[f].setups
    BY <2>1 DEF Row
  <2> QED BY <1>2, <2>2, <2>3 DEF WithoutHash
<1> QED BY <1>1, <1>2

\* Every step keeps the state well typed.
LEMMA NextTypeOK == TypeOK /\ [Next]_vars => TypeOK'
<1> SUFFICES ASSUME TypeOK, [Next]_vars PROVE TypeOK'
  OBVIOUS
<1> USE IndexAssumption
<1>1. ASSUME NEW f \in Files, NEW c \in Contents \cup {None}, Edit(f, c) PROVE TypeOK'
  BY <1>1 DEF TypeOK, Edit, Event, Run
<1>2. ASSUME NEW s \in Setups, Configure(s) PROVE TypeOK'
  BY <1>2 DEF TypeOK, Configure, Event
<1>3. CASE Interrupt
  BY <1>3 DEF TypeOK, Interrupt, Event, NoRun, Nothing, Run
<1>4. ASSUME NEW F \in SUBSET Files, RemoveFiles(F) PROVE TypeOK'
  BY <1>4 DEF TypeOK, RemoveFiles
<1>5. ASSUME NEW F \in SUBSET Files, NameFiles(F) PROVE TypeOK'
  BY <1>5 DEF TypeOK, NameFiles, NoRun, Nothing, Run, Strategies
<1>6. ASSUME NEW s \in Strategies, NEW bad \in SUBSET Files, Discover(s, bad) PROVE TypeOK'
  <2>1. (bad # {}) \in BOOLEAN
    OBVIOUS
  <2>2. PICK b : b = (bad # {})
    OBVIOUS
  <2>3. run' = [NoRun EXCEPT !.strategy = s, !.setup = setup, !.found = Present \ bad,
                             !.failed = bad, !.seen = disk, !.had = [f \in Files |-> {disk[f]}],
                             !.bad = b]
    BY <1>6, <2>2 DEF Discover
  <2>4. run' = [strategy |-> s, setup |-> setup, found |-> Present \ bad, failed |-> bad,
                seen |-> disk, had |-> [f \in Files |-> {disk[f]}], stale |-> FALSE,
                records |-> FALSE, todo |-> {}, sel |-> Nothing, bad |-> b]
    BY <2>3 DEF NoRun
  <2>5. /\ [f \in Files |-> {disk[f]}] \in [Files -> SUBSET (Contents \cup {None})]
        /\ Present \ bad \in SUBSET Files /\ Nothing \in [Files -> Contents \cup {None}]
        /\ b \in BOOLEAN
    BY <2>1, <2>2 DEF TypeOK, Present, Nothing
  <2>6. run' \in Run
    BY <2>4, <2>5 DEF TypeOK, Run
  <2>7. run'.setup \in Setups /\ run'.strategy \in Strategies
    BY <2>4 DEF TypeOK
  <2>8. events' \in 0..MaxEvents
    BY <1>6 DEF TypeOK, Discover, Event
  <2> QED BY <1>6, <2>6, <2>7, <2>8 DEF TypeOK, Discover
<1>7. CASE OpenTable
  BY <1>7 DEF TypeOK, OpenTable, Run
<1>8. CASE RemoveOrphans
  <2>1. Records \in BOOLEAN
    BY DEF Records
  <2> QED BY <1>8, <2>1 DEF TypeOK, RemoveOrphans, Run
<1>9. ASSUME NEW B \in SUBSET Files, NEW bad \in SUBSET Files, ReadBatch(B, bad) PROVE TypeOK'
  <2>1. (run.bad \/ bad # {}) \in BOOLEAN
    OBVIOUS
  <2>2. PICK b : b = (run.bad \/ bad # {})
    OBVIOUS
  <2>3. run' = [run EXCEPT !.todo = run.todo \ B, !.bad = b,
                           !.sel = [f \in Files |-> IF f \in B \ bad THEN disk[f] ELSE None]]
    BY <1>9, <2>2 DEF ReadBatch
  <2>4. run' \in Run
    BY <2>1, <2>2, <2>3 DEF TypeOK, Run
  <2> QED BY <1>9, <2>3, <2>4 DEF TypeOK, ReadBatch, Event
<1>10. ASSUME NEW V \in [Read -> SUBSET Setups], NEW L \in [Read -> Dialects], WriteBatch(V, L) PROVE TypeOK'
  <2>1. \A f \in Files : rows'[f] \in Row \cup {None}
    BY <1>10, HeaderType DEF TypeOK, WriteBatch, Read, Run, Row
  <2>2. rows' \in [Files -> Row \cup {None}]
    BY <1>10, <2>1 DEF WriteBatch, Read
  <2>3. run' \in Run /\ run'.setup = run.setup /\ run'.strategy = run.strategy
    BY <1>10 DEF TypeOK, WriteBatch, Read, Nothing, Run
  <2> QED BY <1>10, <2>2, <2>3 DEF TypeOK, WriteBatch, Read, Event
<1>11. CASE Record
  BY <1>11 DEF TypeOK, Record, NoRun, Nothing, Run
<1>12. CASE UNCHANGED vars
  BY <1>12 DEF TypeOK, vars
<1>13. ASSUME NEW f \in Files, NEW d \in Dialects, WriteSymbols(f, d) PROVE TypeOK'
  <2>1. disk[f] \in Contents
    BY <1>13 DEF TypeOK, WriteSymbols
  <2>2. [hash |-> disk[f], dialect |-> d] \in Symbols
    BY <2>1 DEF Symbols
  <2>3. symbols' \in [Files -> Symbols \cup {None}]
    BY <1>13, <2>2 DEF TypeOK, WriteSymbols
  <2>4. rows' \in [Files -> Row \cup {None}]
    BY <1>13, WithoutHashEffect DEF TypeOK, WriteSymbols
  <2> QED BY <1>13, <2>3, <2>4 DEF TypeOK, WriteSymbols, Event
<1>14. ASSUME NEW f \in Files, DropSymbols(f) PROVE TypeOK'
  BY <1>14 DEF TypeOK, DropSymbols, Event
<1> QED
  BY <1>1, <1>2, <1>3, <1>4, <1>5, <1>6, <1>7, <1>8, <1>9, <1>10, <1>11, <1>12, <1>13, <1>14
  DEF Next, PassStep
-----------------------------------------------------------------------------
\* The locals of a pass that no batch changes.
SameLocals ==
    /\ run'.strategy = run.strategy /\ run'.setup = run.setup
    /\ run'.found = run.found /\ run'.failed = run.failed
    /\ run'.seen = run.seen /\ run'.had = run.had
    /\ run'.stale = run.stale /\ run'.records = run.records

\* What reading the batch B changes, where the files of bad could not be read.
ReadEffect(B, bad) ==
    /\ SameLocals
    /\ pc = "batch" /\ pc' = "write" /\ B \subseteq run.todo
    /\ attest' = attest /\ disk' = disk
    /\ run'.todo = run.todo \ B
    /\ \A f \in Files : run'.sel[f] = IF f \in B \ bad THEN disk[f] ELSE None
    /\ run'.bad <=> run.bad \/ bad # {}
    /\ \A f \in Files : rows'[f] = IF Whole /\ f \in bad THEN None ELSE rows[f]
    /\ \A f \in B \ bad : disk[f] # None

\* What writing it changes.
WriteEffect(V, L) ==
    /\ SameLocals
    /\ pc = "write" /\ pc' = IF run.todo = {} THEN "record" ELSE "batch"
    /\ attest' = attest /\ disk' = disk
    /\ run'.todo = run.todo /\ run'.bad = run.bad /\ run'.sel = Nothing
    /\ \A f \in Files :
          /\ run.sel[f] = None => rows'[f] = rows[f]
          /\ run.sel[f] # None => /\ rows'[f] # None
                                 /\ rows'[f].hash = run.sel[f]
                                 /\ rows'[f].setups = V[f] /\ rows'[f].dialect = L[f]
                                 /\ rows'[f].header = Header(f, L[f])

\* Reading a batch has that effect.
LEMMA ReadBatchEffect ==
    ASSUME TypeOK, NEW B \in SUBSET Files, NEW bad \in SUBSET Files, ReadBatch(B, bad)
    PROVE  ReadEffect(B, bad)
BY DEF TypeOK, ReadBatch, Run, Present, ReadEffect, SameLocals

\* And writing it; a row is never mistaken for a missing one.
LEMMA WriteBatchEffect ==
    ASSUME TypeOK, NEW V \in [Read -> SUBSET Setups], NEW L \in [Read -> Dialects], WriteBatch(V, L)
    PROVE  WriteEffect(V, L)
<1>1. ASSUME NEW f \in Files, run.sel[f] # None
      PROVE  /\ rows'[f] # None /\ rows'[f].hash = run.sel[f]
             /\ rows'[f].setups = V[f] /\ rows'[f].dialect = L[f]
             /\ rows'[f].header = Header(f, L[f])
  <2>1. PICK row : row = [hash |-> run.sel[f], setups |-> V[f], dialect |-> L[f],
                        header |-> Header(f, L[f])]
    OBVIOUS
  <2>2. rows'[f] = row
    BY <1>1, <2>1 DEF WriteBatch, Read
  <2>3. run.sel[f] \in Contents \cup {None}
    BY DEF TypeOK, Run
  <2>4. row \in Row
    BY <1>1, <2>1, <2>3, HeaderType DEF Row, Read
  <2>5. row # None
    BY <2>4, IndexAssumption
  <2> QED BY <2>1, <2>2, <2>5
<1> QED BY <1>1 DEF TypeOK, WriteBatch, Read, Run, WriteEffect, SameLocals

\* No step makes the attestation false, or leaves it in place where the rows
\* about to be written could make it so.
LEMMA NextAttested ==
    IInv /\ [Next]_vars => AttestedRowsUniform' /\ OpenInv' /\ RecordInv' /\ BatchInv'
<1> SUFFICES ASSUME IInv, [Next]_vars
             PROVE  AttestedRowsUniform' /\ OpenInv' /\ RecordInv' /\ BatchInv'
  OBVIOUS
<1> DEFINE Goal == AttestedRowsUniform' /\ OpenInv' /\ RecordInv' /\ BatchInv'
<1> USE IndexAssumption DEF IInv, AttestedRowsUniform, OpenInv, RecordInv, BatchInv
<1>1. ASSUME NEW f \in Files, NEW c \in Contents \cup {None}, Edit(f, c) PROVE Goal
  BY <1>1 DEF TypeOK, Edit, Run
<1>2. ASSUME NEW s \in Setups, Configure(s) PROVE Goal
  BY <1>2 DEF Configure
<1>3. CASE Interrupt
  BY <1>3 DEF Interrupt, NoRun
<1>4. ASSUME NEW F \in SUBSET Files, RemoveFiles(F) PROVE Goal
  BY <1>4 DEF TypeOK, RemoveFiles
<1>5. ASSUME NEW F \in SUBSET Files, NameFiles(F) PROVE Goal
  BY <1>5 DEF NameFiles, NoRun
<1>6. ASSUME NEW s \in Strategies, NEW bad \in SUBSET Files, Discover(s, bad) PROVE Goal
  BY <1>6 DEF Discover, NoRun
<1>7. CASE OpenTable
  BY <1>7 DEF TypeOK, OpenTable, Run
<1>8. CASE RemoveOrphans
  BY <1>8 DEF TypeOK, RemoveOrphans, Records, Selected, Nothing, Run
<1>9. ASSUME NEW B \in SUBSET Files, NEW bad \in SUBSET Files, ReadBatch(B, bad) PROVE Goal
  <2>1. ReadEffect(B, bad)
    BY <1>9, ReadBatchEffect
  <2>2. AttestedRowsUniform' /\ OpenInv' /\ BatchInv'
    BY <2>1 DEF ReadEffect, SameLocals
  <2>3. ASSUME run.records, NEW f \in Files, Settled(f)' PROVE RowUnder(f, run.setup)'
    <3>1. CASE f \in B
      <4>1. f \in bad
        BY <2>1, <2>3, <3>1 DEF ReadEffect
      <4>2. CASE Whole
        BY <2>1, <4>1, <4>2 DEF ReadEffect
      <4>3. CASE ~Whole
        BY <2>1, <2>3, <4>3 DEF ReadEffect, SameLocals, TypeOK, Run, Strategies
      <4> QED BY <4>2, <4>3
    <3>2. CASE f \notin B
      BY <2>1, <2>3, <3>2 DEF ReadEffect, SameLocals, Nothing
    <3> QED BY <3>1, <3>2
  <2>4. RecordInv'
    BY <2>1, <2>3 DEF ReadEffect, SameLocals
  <2> QED BY <2>2, <2>4
<1>10. ASSUME NEW V \in [Read -> SUBSET Setups], NEW L \in [Read -> Dialects], WriteBatch(V, L) PROVE Goal
  <2>1. WriteEffect(V, L)
    BY <1>10, WriteBatchEffect
  <2>2. \A f \in Files : run.sel[f] # None =>
          V[f] \subseteq {run.setup} \cup (IF Reusable /\ rows[f] # None THEN rows[f].setups ELSE {})
    BY <1>10 DEF WriteBatch, Read
  <2> QED BY <2>1, <2>2 DEF WriteEffect, SameLocals, Nothing
<1>11. CASE Record
  BY <1>11 DEF TypeOK, Record, NoRun, Nothing, Run
<1>12. CASE UNCHANGED vars
  BY <1>12 DEF vars
<1>13. ASSUME NEW f \in Files, NEW d \in Dialects, WriteSymbols(f, d) PROVE Goal
  <2>1. \A g \in Files : rows'[g] = IF g = f THEN WithoutHash(f) ELSE rows[g]
    BY <1>13 DEF TypeOK, WriteSymbols
  <2>2. /\ pc = "idle" /\ pc' = "idle" /\ run' = run /\ attest' = attest
    BY <1>13 DEF WriteSymbols
  <2>3. \A g \in Files : RowUnder(g, attest) => RowUnder(g, attest)'
    BY <2>1, <2>2, WithoutHashEffect
  <2> QED BY <2>2, <2>3
<1>14. ASSUME NEW f \in Files, DropSymbols(f) PROVE Goal
  BY <1>14 DEF DropSymbols
<1> QED
  BY <1>1, <1>2, <1>3, <1>4, <1>5, <1>6, <1>7, <1>8, <1>9, <1>10, <1>11, <1>12, <1>13, <1>14
  DEF Next, PassStep

\* No step loses a file of a pass that met no failure.
LEMMA NextCovers == IInv /\ [Next]_vars => HistoryInv' /\ CoverInv'
<1> SUFFICES ASSUME IInv, [Next]_vars PROVE HistoryInv' /\ CoverInv'
  OBVIOUS
<1> DEFINE Goal == HistoryInv' /\ CoverInv'
<1> USE IndexAssumption DEF IInv, BatchInv, HistoryInv, CoverInv
<1>1. ASSUME NEW f \in Files, NEW c \in Contents \cup {None}, Edit(f, c) PROVE Goal
  BY <1>1 DEF TypeOK, Edit, Run
<1>2. ASSUME NEW s \in Setups, Configure(s) PROVE Goal
  BY <1>2 DEF Configure
<1>3. CASE Interrupt
  BY <1>3 DEF Interrupt
<1>4. ASSUME NEW F \in SUBSET Files, RemoveFiles(F) PROVE Goal
  BY <1>4 DEF RemoveFiles
<1>5. ASSUME NEW F \in SUBSET Files, NameFiles(F) PROVE Goal
  BY <1>5 DEF TypeOK, NameFiles, NoRun, Nothing
<1>6. ASSUME NEW s \in Strategies, NEW bad \in SUBSET Files, Discover(s, bad) PROVE Goal
  BY <1>6 DEF TypeOK, Discover, NoRun, Nothing
<1>7. CASE OpenTable
  BY <1>7 DEF TypeOK, OpenTable, Run
<1>8. CASE RemoveOrphans
  BY <1>8 DEF TypeOK, RemoveOrphans, Selected, Nothing, Run, Strategies
<1>9. ASSUME NEW B \in SUBSET Files, NEW bad \in SUBSET Files, ReadBatch(B, bad) PROVE Goal
  <2>1. ReadEffect(B, bad)
    BY <1>9, ReadBatchEffect
  <2>2. HistoryInv'
    BY <2>1 DEF ReadEffect, SameLocals
  <2>3. ASSUME run.strategy # "files", ~run.bad, bad = {} PROVE CoverInv'
    <3>1. \A f \in Files : rows'[f] = rows[f] /\ (run'.sel[f] # None <=> f \in B)
      BY <2>1, <2>3 DEF ReadEffect
    <3>2. \A f \in Files : run.sel[f] = None
      BY <2>1 DEF ReadEffect, Nothing
    <3>3. run.found \subseteq Files
      BY DEF TypeOK, Run
    <3> QED BY <2>1, <2>3, <3>1, <3>2, <3>3 DEF ReadEffect, SameLocals
  <2>4. CoverInv'
    BY <2>1, <2>3 DEF ReadEffect, SameLocals
  <2> QED BY <2>2, <2>4
<1>10. ASSUME NEW V \in [Read -> SUBSET Setups], NEW L \in [Read -> Dialects], WriteBatch(V, L) PROVE Goal
  <2>1. WriteEffect(V, L)
    BY <1>10, WriteBatchEffect
  <2>2. HistoryInv'
    BY <2>1 DEF WriteEffect, SameLocals, Nothing
  <2>3. run.found \subseteq Files
    BY DEF TypeOK, Run
  <2>4. CoverInv'
    BY <2>1, <2>3 DEF WriteEffect, SameLocals, Nothing
  <2> QED BY <2>2, <2>4
<1>11. CASE Record
  BY <1>11 DEF Record
<1>12. CASE UNCHANGED vars
  BY <1>12 DEF vars
<1>13. ASSUME NEW f \in Files, NEW d \in Dialects, WriteSymbols(f, d) PROVE Goal
  BY <1>13 DEF WriteSymbols
<1>14. ASSUME NEW f \in Files, DropSymbols(f) PROVE Goal
  BY <1>14 DEF DropSymbols
<1> QED
  BY <1>1, <1>2, <1>3, <1>4, <1>5, <1>6, <1>7, <1>8, <1>9, <1>10, <1>11, <1>12, <1>13, <1>14
  DEF Next, PassStep

\* No step leaves a row recorded at the content of newer symbols.
LEMMA NextHeaders == TypeOK /\ HeadersCurrent /\ [Next]_vars => HeadersCurrent'
<1> SUFFICES ASSUME TypeOK, HeadersCurrent, [Next]_vars PROVE HeadersCurrent'
  OBVIOUS
<1> USE IndexAssumption DEF HeadersCurrent
<1>1. ASSUME symbols' = symbols, \A f \in Files : rows'[f] = rows[f] \/ rows'[f] = None
      PROVE  HeadersCurrent'
  BY <1>1
<1>2. ASSUME NEW f \in Files, NEW c \in Contents \cup {None}, Edit(f, c) PROVE HeadersCurrent'
  BY <1>1, <1>2 DEF Edit
<1>3. ASSUME NEW s \in Setups, Configure(s) PROVE HeadersCurrent'
  BY <1>1, <1>3 DEF Configure
<1>4. CASE Interrupt
  BY <1>1, <1>4 DEF Interrupt
<1>5. ASSUME NEW F \in SUBSET Files, RemoveFiles(F) PROVE HeadersCurrent'
  BY <1>5 DEF RemoveFiles
<1>6. ASSUME NEW F \in SUBSET Files, NameFiles(F) PROVE HeadersCurrent'
  BY <1>1, <1>6 DEF NameFiles
<1>7. ASSUME NEW f \in Files, DropSymbols(f) PROVE HeadersCurrent'
  BY <1>7 DEF DropSymbols, TypeOK
<1>8. ASSUME NEW f \in Files, NEW d \in Dialects, WriteSymbols(f, d) PROVE HeadersCurrent'
  <2>1. \A g \in Files \ {f} : symbols'[g] = symbols[g] /\ rows'[g] = rows[g]
    BY <1>8 DEF TypeOK, WriteSymbols
  <2>2. rows'[f] = WithoutHash(f) /\ symbols'[f].hash \in Contents
    BY <1>8 DEF TypeOK, WriteSymbols
  <2>3. rows'[f] = None \/ rows'[f].hash # symbols'[f].hash
    BY <2>2, WithoutHashEffect
  <2> QED BY <2>1, <2>3
<1>9. ASSUME NEW s \in Strategies, NEW bad \in SUBSET Files, Discover(s, bad) PROVE HeadersCurrent'
  BY <1>1, <1>9 DEF Discover
<1>10. CASE OpenTable
  BY <1>1, <1>10 DEF OpenTable
<1>11. CASE RemoveOrphans
  BY <1>1, <1>11 DEF RemoveOrphans
<1>12. ASSUME NEW B \in SUBSET Files, NEW bad \in SUBSET Files, ReadBatch(B, bad) PROVE HeadersCurrent'
  <2>1. symbols' = symbols
    BY <1>12 DEF ReadBatch
  <2>2. ReadEffect(B, bad)
    BY <1>12, ReadBatchEffect
  <2>3. \A f \in Files : rows'[f] = rows[f] \/ rows'[f] = None
    BY <2>2 DEF ReadEffect
  <2> QED BY <1>1, <2>1, <2>3
<1>13. ASSUME NEW V \in [Read -> SUBSET Setups], NEW L \in [Read -> Dialects], WriteBatch(V, L) PROVE HeadersCurrent'
  <2>1. symbols' = symbols
    BY <1>13 DEF WriteBatch, Read
  <2>2. WriteEffect(V, L)
    BY <1>13, WriteBatchEffect
  <2> QED BY <2>1, <2>2 DEF WriteEffect, Header
<1>14. CASE Record
  BY <1>1, <1>14 DEF Record
<1>15. CASE UNCHANGED vars
  BY <1>1, <1>15 DEF vars
<1> QED
  BY <1>2, <1>3, <1>4, <1>5, <1>6, <1>7, <1>8, <1>9, <1>10, <1>11, <1>12, <1>13, <1>14, <1>15
  DEF Next, PassStep
-----------------------------------------------------------------------------
\* The invariant the three results below rest on holds throughout.
THEOREM Inductive == Spec => []IInv
<1>1. IInv /\ [Next]_vars => IInv'
  BY NextTypeOK, NextAttested, NextCovers DEF IInv
<1> QED BY InitIInv, <1>1, PTL DEF Spec

\* The pass, the table and its fingerprint are always well typed.
THEOREM TypeCorrect == Spec => []TypeOK
BY Inductive, PTL DEF IInv

\* No sequence of passes, interruptions, unreadable files, edits and changes
\* of setup leaves mixed or foreign vectors under an attested fingerprint.
THEOREM Attestation == Spec => []AttestedRowsUniform
BY Inductive, PTL DEF IInv

\* A whole pass that met no failure reaches its end with every discovered
\* file embedded at a content it had since, and with no other rows.
THEOREM Coverage == Spec => []PassCovers
<1>1. IInv => PassCovers
  BY DEF IInv, BatchInv, CoverInv, PassCovers, Nothing
<1> QED BY Inductive, <1>1, PTL

\* No order of structural and semantic passes leaves vectors that the next
\* incremental pass would keep with the header of symbols since replaced.
THEOREM Headers == Spec => []HeadersCurrent
<1>1. Init => HeadersCurrent
  BY DEF Init, HeadersCurrent, Nothing
<1>2. Spec => []TypeOK
  BY TypeCorrect
<1> QED BY <1>1, <1>2, NextHeaders, PTL DEF Spec
=============================================================================
