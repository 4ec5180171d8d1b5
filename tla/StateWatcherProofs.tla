------------------------- MODULE StateWatcherProofs -------------------------
(***************************************************************************)
(* For any tree, any queue sizes and any number of edits, faults and       *)
(* passes of other processes: the watcher owes something for every file    *)
(* whose rows differ from the tree.                                        *)
(***************************************************************************)
EXTENDS StateWatcher, TLAPS

\* The events that have not been received.
Waiting == {chan[i] : i \in 1..Len(chan)}

\* A running watcher that has not been told to stop.
Active == Watching /\ ~loc.stopping

InPass == pc \in {"structural", "semantic"}

\* reindex_one has a file in hand.
AtOne == pc \in {"look", "compare", "index", "gone"}

\* An event will have f looked at when it is received: its own, as long as the
\* filter lets it pass and a removal still finds the file gone; one of the
\* directory, which is registered if it is there, and else had to be left; or
\* one that replaces the filter.
Ev(f) ==
    \E e \in Waiting :
        \/ e.kind = "Ignore"
        \/ /\ f \notin filter
           /\ \/ e.path = f /\ (e.kind = "Modify" \/ disk[f] = None)
              \/ e.path = Dir /\ f \in Nested /\ (dir # "absent" \/ e.kind = "Rename")

\* Something will be received, or a reload of the filter precedes the next
\* pass.
Told(f) == Ev(f) \/ lost \/ refresh.reload

\* A pass over the tree is owed, and no failure will make the loop forget it.
PassOwed == lost \/ RefreshPending \/ (bulk /\ startup < StartupTries)

\* The queues, or the step in progress, hold f.  Those of the removals count
\* only as long as the file is gone, and none does for a file that is ignored.
Kept(f) ==
    /\ f \notin filter
    /\ \/ f \in q.pending \cup q.parked \cup loc.ready \cup loc.now \cup loc.stale
       \/ disk[f] = None /\ f \in Owed \cup loc.purge

Covered(f) == Ev(f) \/ PassOwed \/ f \in excused \/ Kept(f) \/ f \in loc.bare

\* What the other process has read, and may still write.
CliBehind(f) == cli.stage # "none" /\ cli.seen[f] # View[f]

-----------------------------------------------------------------------------
\* The index lock has the holder that thinks it has it.
LockInv ==
    /\ holder = "cli" <=> cli.stage # "none"
    /\ holder = "watcher" <=> pc \in {"structural", "semantic", "purge"}

\* The locals of a step are there while the step is.
LocalsInv ==
    /\ ~(pc \in {"ready", "purge"} \/ AtOne) => loc.ready = {} /\ loc.stale = {}
    /\ pc = "purge" /\ loc.from = "removals" /\ ~loc.stopping => loc.ready = {} /\ loc.stale = {}
    /\ pc # "purge" => loc.purge = {}
    /\ pc = "purge" /\ loc.from = "removals" => loc.purge \subseteq Owed
    /\ pc = "purge" /\ loc.from = "ready" => loc.purge \cap (loc.ready \cup loc.stale) = {}
    /\ loc.stopping => pc \in {"ready", "purge"} \/ AtOne
    /\ pc \in {"begin", "structural", "semantic"} => ~refresh.reload
    /\ loc.ready \cap loc.stale = {} /\ loc.stale \cap filter = {} /\ loc.ready \subseteq q.pending

\* At most one file is in hand, and it is in no other.
HandInv ==
    /\ ~AtOne => loc.now = {}
    /\ loc.now \cap filter = {} /\ loc.now \cap (loc.ready \cup loc.stale) = {}
    /\ \A f, g \in loc.now : f = g
    /\ pc = "gone" => loc.text = None
    /\ pc # "semantic" => loc.bare = {}

\* What the notifications say.
EventInv ==
    \A e \in Waiting : IF e.path = Dir THEN e.kind \in {"Create", "Rename", "Ignore"}
                                       ELSE e.kind \in {"Modify", "Remove"}

\* A directory that is not there has no files.
AbsentInv == dir = "absent" => \A f \in Nested : disk[f] = None

\* A directory without a watch, and a filter that is not the tree's, have an
\* event or a reload coming.
DirInv == dir = "unwatched" => lost \/ refresh.reload \/ \E e \in Waiting : e.path = Dir
FilterInv ==
    \A f \in Files \ blind : (f \in filter) # (f \in ignored) =>
        lost \/ refresh.reload \/ \E e \in Waiting : e.kind = "Ignore"

\* A pass has read what is there, or is told of the difference.
PassInv ==
    InPass => \A f \in Files \ blind :
        loc.seen[f] # View[f] \/ (pc = "semantic" /\ st[f] # View[f]) => Told(f)

\* So has reindex_one.
LookInv == \A f \in loc.now \ blind : loc.text # View[f] => Told(f)

\* A removal knows what is gone, or is told of the difference.
PurgeInv ==
    pc = "purge" =>
        /\ \A f \in loc.purge \ blind : View[f] # None => Told(f)
        /\ loc.from = "removals" =>
              \A f \in ((Owed \ loc.purge) \ filter) \ blind : disk[f] = None => Told(f)

\* A file whose vectors are to be made has the rows of its content, or
\* somebody else will look at it.
StaleInv ==
    \A f \in loc.stale \ blind :
        st[f] # View[f] \/ CliBehind(f) => Ev(f) \/ PassOwed \/ f \in excused

\* Every difference between rows and tree, present or in the hands of the
\* other process, is accounted for.
CoverInv == \A f \in Files \ blind : Stale(f) \/ CliBehind(f) => Covered(f)

ActiveInv == DirInv /\ FilterInv /\ PassInv /\ LookInv /\ PurgeInv /\ StaleInv /\ CoverInv

IInv == /\ TypeOK /\ LockInv /\ LocalsInv /\ HandInv /\ EventInv /\ AbsentInv
        /\ Active => ActiveInv

-----------------------------------------------------------------------------
(* The queues and the locals.                                              *)

\* What the operations on the queues return.
Same(n, k) == n.paths = k.paths /\ n.prefixes = k.prefixes /\ n.failures = k.failures

LEMMA RequeuedEffect ==
    ASSUME NEW k \in Queues, NEW F \in SUBSET Files
    PROVE  /\ Requeued(k, F) \in Queues /\ Same(Requeued(k, F), k)
           /\ k.pending \cup F \subseteq Requeued(k, F).pending \cup Requeued(k, F).parked
           /\ k.parked \subseteq Requeued(k, F).parked
           /\ k.pending \ F \subseteq Requeued(k, F).pending
<1> DEFINE spent == {f \in F : k.retries[f] = MaxWorkRetries}
           r == [f \in Files |-> IF f \in spent THEN 0
                                 ELSE IF f \in F THEN k.retries[f] + 1 ELSE k.retries[f]]
           n == [k EXCEPT !.pending = (@ \cup F) \ spent, !.parked = @ \cup spent, !.retries = r]
<1>1. n = Requeued(k, F)
  BY DEF Requeued, Queues
<1>2. k.retries \in [Files -> 0..MaxWorkRetries] /\ MaxWorkRetries \in Nat
  BY WatcherAssumption DEF Queues
<1>3. \A f \in Files : r[f] \in 0..MaxWorkRetries
  BY <1>2
<1>4. r \in [Files -> 0..MaxWorkRetries]
  BY <1>3
<1> HIDE DEF r
<1>5. (k.pending \cup F) \ spent \in SUBSET Files /\ k.parked \cup spent \in SUBSET Files
  BY DEF Queues
<1> HIDE DEF spent
<1>6. /\ n \in Queues /\ Same(n, k)
      /\ n.pending = (k.pending \cup F) \ spent /\ n.parked = k.parked \cup spent
  BY <1>4, <1>5 DEF Queues, Same
<1>7. spent \subseteq F
  BY DEF spent
<1> HIDE DEF n
<1> QED
  BY <1>1, <1>6, <1>7

LEMMA SettledEffect ==
    ASSUME NEW k \in Queues, NEW F \in SUBSET Files
    PROVE  /\ Settled(k, F) \in Queues /\ Same(Settled(k, F), k)
           /\ Settled(k, F).pending = k.pending
           /\ Settled(k, F).parked = k.parked \ F
<1> DEFINE r == [f \in Files |-> IF f \in F THEN 0 ELSE k.retries[f]]
           n == [k EXCEPT !.parked = @ \ F, !.retries = r]
<1>1. n = Settled(k, F)
  BY DEF Settled, Queues
<1>2. r \in [Files -> 0..MaxWorkRetries]
  BY WatcherAssumption DEF Queues
<1> HIDE DEF r
<1>3. k.parked \ F \in SUBSET Files
  BY DEF Queues
<1>4. /\ n \in Queues /\ Same(n, k)
      /\ n.pending = k.pending /\ n.parked = k.parked \ F
  BY <1>2, <1>3 DEF Queues, Same
<1> HIDE DEF n
<1> QED
  BY <1>1, <1>4

LEMMA PendingEffect ==
    ASSUME NEW k \in Queues, NEW X \in SUBSET Files
    PROVE  LET n == [k EXCEPT !.pending = X]
           IN  n \in Queues /\ Same(n, k) /\ n.pending = X /\ n.parked = k.parked
<1> DEFINE n == [k EXCEPT !.pending = X]
<1>1. n \in Queues /\ Same(n, k) /\ n.pending = X /\ n.parked = k.parked
  BY DEF Queues, Same
<1> QED
  BY <1>1

\* An empty set of queues but for the failures of the removals.
LEMMA ClearedEffect ==
    ASSUME TypeOK, q' = [NoWork EXCEPT !.failures = q.failures]
    PROVE  q' \in Queues /\ q'.pending = {}
<1>1. [f \in Files |-> 0] \in [Files -> 0..MaxWorkRetries]
  BY WatcherAssumption
<1>2. q.failures \in 0..MaxRemovalFailures - 1
  BY DEF TypeOK, Queues
<1> DEFINE n == [pending |-> {}, parked |-> {}, paths |-> {}, prefixes |-> {},
                 retries |-> [f \in Files |-> 0], failures |-> q.failures]
<1>3. n \in Queues /\ n.pending = {}
  BY <1>1, <1>2 DEF Queues
<1>4. q' = n
  BY DEF NoWork
<1> QED
  BY <1>3, <1>4

LEMMA NoWorkType == NoWork \in Queues
<1>1. [f \in Files |-> 0] \in [Files -> 0..MaxWorkRetries]
  BY WatcherAssumption
<1>2. 0 \in 0..MaxRemovalFailures - 1
  BY WatcherAssumption
<1> QED
  BY <1>1, <1>2 DEF Queues, NoWork

LEMMA BlankType == Blank \in [Files -> Row]
  BY DEF Blank, Row

LEMMA NoLocalsType ==
    /\ NoLocals \in Locals
    /\ NoLocals.ready = {} /\ NoLocals.stale = {} /\ NoLocals.purge = {}
    /\ NoLocals.now = {} /\ NoLocals.bare = {} /\ NoLocals.text = None
    /\ ~NoLocals.stopping /\ ~NoLocals.burst
  BY BlankType DEF NoLocals, Locals, Row

LEMMA ViewType == TypeOK => View \in [Files -> Row]
  BY DEF TypeOK, View, Row

LEMMA OwedType == TypeOK => Owed \subseteq Files
<1> SUFFICES ASSUME TypeOK PROVE Owed \subseteq Files
  OBVIOUS
<1>1. q.paths \subseteq Files /\ q.prefixes \subseteq Paths
  BY DEF TypeOK, Queues
<1>2. Nested \subseteq Files
  BY WatcherAssumption
<1> QED
  BY <1>1, <1>2 DEF Owed, Under, Paths

-----------------------------------------------------------------------------
(* The channel.                                                            *)

LEMMA AdmitEffect ==
    ASSUME TypeOK, NEW e \in Events, Admit(e)
    PROVE  /\ chan' \in Seq(Events) /\ Len(chan') <= QueueCapacity
           /\ lost' \in BOOLEAN /\ faults' \in 0..MaxFaults
           /\ \/ Waiting' = Waiting \cup {e} /\ lost' = lost
              \/ Waiting' = Waiting /\ lost'
<1>1. chan \in Seq(Events) /\ Len(chan) \in Nat /\ Len(chan) <= QueueCapacity
  BY DEF TypeOK
<1>2. QueueCapacity \in Nat /\ MaxFaults \in Nat /\ faults \in 0..MaxFaults /\ lost \in BOOLEAN
  BY WatcherAssumption DEF TypeOK
<1>3. CASE /\ Len(chan) < QueueCapacity
           /\ chan' = Append(chan, e) /\ UNCHANGED <<lost, faults>>
  <2>1. /\ chan' \in Seq(Events) /\ Len(chan') = Len(chan) + 1
        /\ \A i \in 1..Len(chan) : chan'[i] = chan[i]
        /\ chan'[Len(chan) + 1] = e
    BY <1>1, <1>3
  <2>2. Waiting' = Waiting \cup {e}
    BY <1>1, <2>1 DEF Waiting
  <2> QED
    BY <1>1, <1>2, <1>3, <2>1, <2>2
<1>4. CASE /\ Len(chan) < QueueCapacity => faults < MaxFaults
           /\ faults' = IF Len(chan) < QueueCapacity THEN faults + 1 ELSE faults
           /\ lost' = TRUE /\ UNCHANGED chan
  <2>1. Waiting' = Waiting
    BY <1>4 DEF Waiting
  <2> QED
    BY <1>1, <1>2, <1>4, <2>1
<1> QED
  BY <1>3, <1>4 DEF Admit

LEMMA NotifyEffect ==
    ASSUME TypeOK, NEW k \in Kinds, NEW p \in Paths, Notify(k, p)
    PROVE  /\ chan' \in Seq(Events) /\ Len(chan') <= QueueCapacity
           /\ lost' \in BOOLEAN /\ faults' \in 0..MaxFaults
           /\ \/ Waiting' = Waiting \cup {[kind |-> k, path |-> p]} /\ lost' = lost
              \/ Waiting' = Waiting /\ lost'
              \/ /\ Waiting' = Waiting /\ lost' = lost
                 /\ ~(Watching /\ (p \in Nested => dir = "watched"))
<1> DEFINE e == [kind |-> k, path |-> p]
<1>1. e \in Events
  BY DEF Events
<1>2. CASE Watching /\ (p \in Nested => dir = "watched")
  <2>1. Admit(e)
    BY <1>2 DEF Notify
  <2> HIDE DEF e
  <2>2. /\ chan' \in Seq(Events) /\ Len(chan') <= QueueCapacity
        /\ lost' \in BOOLEAN /\ faults' \in 0..MaxFaults
        /\ \/ Waiting' = Waiting \cup {e} /\ lost' = lost
           \/ Waiting' = Waiting /\ lost'
    BY <1>1, <2>1, AdmitEffect
  <2> QED
    BY <2>2 DEF e
<1>3. CASE ~(Watching /\ (p \in Nested => dir = "watched"))
  <2>1. UNCHANGED <<chan, lost, faults>>
    BY <1>3 DEF Notify
  <2> QED
    BY <1>3, <2>1 DEF TypeOK, Waiting
<1> QED
  BY <1>2, <1>3

LEMMA ReceiveEffect ==
    ASSUME TypeOK, NEW e \in Events, Receive(e)
    PROVE  /\ chan' \in Seq(Events) /\ Len(chan') <= QueueCapacity
           /\ e \in Waiting /\ Waiting' \subseteq Waiting /\ Waiting \subseteq Waiting' \cup {e}
<1>1. chan \in Seq(Events) /\ Len(chan) \in Nat /\ Len(chan) <= QueueCapacity /\ QueueCapacity \in Nat
  BY WatcherAssumption DEF TypeOK
<1>2. chan # <<>> /\ e = Head(chan) /\ chan' = Tail(chan)
  BY DEF Receive
<1>3. /\ Len(chan) >= 1 /\ e = chan[1] /\ chan' \in Seq(Events) /\ Len(chan') = Len(chan) - 1
      /\ \A i \in 1..Len(chan) - 1 : chan'[i] = chan[i + 1]
  BY <1>1, <1>2
<1>4. e \in Waiting
  BY <1>1, <1>3 DEF Waiting
<1>5. Waiting' \subseteq Waiting
  <2> SUFFICES ASSUME NEW i \in 1..Len(chan') PROVE chan'[i] \in Waiting
    BY DEF Waiting
  <2>1. i + 1 \in 1..Len(chan) /\ chan'[i] = chan[i + 1]
    BY <1>1, <1>3
  <2> QED
    BY <2>1 DEF Waiting
<1>6. Waiting \subseteq Waiting' \cup {e}
  <2> SUFFICES ASSUME NEW i \in 1..Len(chan), i # 1 PROVE chan[i] \in Waiting'
    BY <1>3 DEF Waiting
  <2>1. i - 1 \in 1..Len(chan') /\ chan'[i - 1] = chan[i]
    BY <1>1, <1>3
  <2> QED
    BY <2>1 DEF Waiting
<1> QED
  BY <1>1, <1>3, <1>4, <1>5, <1>6

-----------------------------------------------------------------------------
(* What the steps do to the locals and the queues.                         *)

\* The locals after a step that changes only what is named.
KeepsStop == loc'.stopping = loc.stopping /\ loc'.burst = loc.burst
KeepsFiles == loc'.ready = loc.ready /\ loc'.stale = loc.stale
KeepsPurge == loc'.purge = loc.purge /\ loc'.from = loc.from
KeepsHand == loc'.now = loc.now /\ loc'.text = loc.text /\ loc'.bare = loc.bare

LEMMA SeenLocals ==
    ASSUME TypeOK, loc' = [loc EXCEPT !.seen = View]
    PROVE  /\ loc' \in Locals /\ loc'.seen = View
           /\ KeepsStop /\ KeepsFiles /\ KeepsPurge /\ KeepsHand
<1>1. View \in [Files -> Row] /\ loc \in Locals
  BY ViewType DEF TypeOK
<1> QED
  BY <1>1 DEF Locals, KeepsStop, KeepsFiles, KeepsPurge, KeepsHand

LEMMA BareLocals ==
    ASSUME TypeOK, NEW B \in SUBSET Files, loc' = [loc EXCEPT !.seen = View, !.bare = B]
    PROVE  /\ loc' \in Locals /\ loc'.seen = View /\ loc'.bare = B
           /\ loc'.now = loc.now /\ loc'.text = loc.text
           /\ KeepsStop /\ KeepsFiles /\ KeepsPurge
<1>1. View \in [Files -> Row] /\ loc \in Locals
  BY ViewType DEF TypeOK
<1> QED
  BY <1>1 DEF Locals, KeepsStop, KeepsFiles, KeepsPurge

LEMMA BurstLocals ==
    ASSUME TypeOK, loc' = [loc EXCEPT !.burst = TRUE]
    PROVE  /\ loc' \in Locals /\ loc'.seen = loc.seen /\ loc'.stopping = loc.stopping
           /\ KeepsFiles /\ KeepsPurge /\ KeepsHand
<1>1. loc \in Locals
  BY DEF TypeOK
<1> QED
  BY <1>1 DEF Locals, KeepsFiles, KeepsPurge, KeepsHand

LEMMA ReadyLocals ==
    ASSUME TypeOK, NEW R \in SUBSET Files, loc' = [loc EXCEPT !.ready = R]
    PROVE  /\ loc' \in Locals /\ loc'.ready = R /\ loc'.stale = loc.stale
           /\ KeepsStop /\ KeepsPurge /\ KeepsHand
<1>1. loc \in Locals
  BY DEF TypeOK
<1> QED
  BY <1>1 DEF Locals, KeepsStop, KeepsPurge, KeepsHand

LEMMA LeftLocals ==
    ASSUME TypeOK, NEW f \in Files, loc' = Left(f)
    PROVE  /\ loc' \in Locals /\ loc'.ready = loc.ready \ {f} /\ loc'.stale = loc.stale
           /\ KeepsStop /\ KeepsPurge /\ KeepsHand
<1>1. loc \in Locals
  BY DEF TypeOK
<1> QED
  BY <1>1 DEF Locals, Left, KeepsStop, KeepsPurge, KeepsHand

LEMMA ReadLocals ==
    ASSUME TypeOK, NEW f \in Files, loc' = [Left(f) EXCEPT !.now = {f}, !.text = disk[f]]
    PROVE  /\ loc' \in Locals /\ loc'.ready = loc.ready \ {f} /\ loc'.stale = loc.stale
           /\ loc'.now = {f} /\ loc'.text = disk[f] /\ loc'.bare = loc.bare
           /\ KeepsStop /\ KeepsPurge
<1>1. loc \in Locals /\ disk[f] \in Row
  BY DEF TypeOK
<1>2. PICK t : t = Left(f)
  OBVIOUS
<1>3. /\ t \in Locals /\ t.ready = loc.ready \ {f} /\ t.stale = loc.stale
      /\ t.stopping = loc.stopping /\ t.burst = loc.burst
      /\ t.purge = loc.purge /\ t.from = loc.from /\ t.bare = loc.bare
  BY <1>1, <1>2 DEF Locals, Left
<1>4. {f} \in SUBSET Files /\ loc' = [t EXCEPT !.now = {f}, !.text = disk[f]]
  BY <1>2
<1> QED
  BY <1>1, <1>3, <1>4 DEF Locals, KeepsStop, KeepsPurge

LEMMA OldLocals ==
    ASSUME TypeOK, NEW b \in BOOLEAN, loc' = [loc EXCEPT !.old = b]
    PROVE  /\ loc' \in Locals /\ loc'.old = b
           /\ KeepsStop /\ KeepsFiles /\ KeepsPurge /\ KeepsHand
<1>1. loc \in Locals
  BY DEF TypeOK
<1> QED
  BY <1>1 DEF Locals, KeepsStop, KeepsFiles, KeepsPurge, KeepsHand

LEMMA ReturnLocals ==
    ASSUME TypeOK, NEW F \in SUBSET Files, Returns(F)
    PROVE  /\ loc' \in Locals /\ loc'.ready = loc.ready /\ loc'.stale = loc.stale \cup F
           /\ loc'.now = {} /\ loc'.text = None /\ loc'.bare = loc.bare
           /\ KeepsStop /\ KeepsPurge /\ pc' = "ready"
<1>1. loc \in Locals /\ None \in Row
  BY DEF TypeOK, Row
<1> QED
  BY <1>1 DEF Returns, Locals, KeepsStop, KeepsPurge

LEMMA PurgeOneLocals ==
    ASSUME TypeOK, NEW f \in Files,
           loc' = [loc EXCEPT !.now = {}, !.text = None, !.purge = {f}, !.from = "ready"]
    PROVE  /\ loc' \in Locals /\ loc'.now = {} /\ loc'.text = None /\ loc'.bare = loc.bare
           /\ loc'.purge = {f} /\ loc'.from = "ready" /\ KeepsStop /\ KeepsFiles
<1>1. loc \in Locals /\ None \in Row
  BY DEF TypeOK, Row
<1> QED
  BY <1>1 DEF Locals, KeepsStop, KeepsFiles

LEMMA DoneLocals ==
    ASSUME TypeOK, loc' = [loc EXCEPT !.stale = {}]
    PROVE  /\ loc' \in Locals /\ loc'.ready = loc.ready /\ loc'.stale = {}
           /\ KeepsStop /\ KeepsPurge /\ KeepsHand
<1>1. loc \in Locals
  BY DEF TypeOK
<1> QED
  BY <1>1 DEF Locals, KeepsStop, KeepsPurge, KeepsHand

LEMMA PurgedLocals ==
    ASSUME TypeOK, loc' = [loc EXCEPT !.purge = {}, !.from = "ready"]
    PROVE  /\ loc' \in Locals /\ KeepsStop /\ KeepsFiles /\ KeepsHand /\ loc'.purge = {}
<1>1. loc \in Locals
  BY DEF TypeOK
<1> QED
  BY <1>1 DEF Locals, KeepsStop, KeepsFiles, KeepsHand

LEMMA RemovalLocals ==
    ASSUME TypeOK, NEW P \in SUBSET Files,
           loc' = [loc EXCEPT !.purge = P, !.from = "removals"]
    PROVE  /\ loc' \in Locals /\ KeepsStop /\ KeepsFiles /\ KeepsHand
           /\ loc'.purge = P /\ loc'.from = "removals"
<1>1. loc \in Locals
  BY DEF TypeOK
<1> QED
  BY <1>1 DEF Locals, KeepsStop, KeepsFiles, KeepsHand

LEMMA StopLocals ==
    ASSUME TypeOK, Shutdown
    PROVE  /\ loc' \in Locals /\ loc'.stopping /\ loc'.ready = q.pending /\ loc'.stale = loc.stale
           /\ KeepsHand
           /\ \/ Owed # {} /\ holder = None /\ pc' = "purge" /\ holder' = "watcher"
                 /\ loc'.from = "removals" /\ loc'.purge = {f \in Owed : disk[f] = None}
              \/ ~(Owed # {} /\ holder = None) /\ pc' = "ready" /\ UNCHANGED holder /\ KeepsPurge
<1>1. loc \in Locals /\ q.pending \in SUBSET Files
  BY DEF TypeOK, Queues
<1>2. CASE Owed # {} /\ holder = None
  <2>1. PICK P \in SUBSET Files : P = {f \in Owed : disk[f] = None}
    BY OwedType
  <2>2. loc' = [loc EXCEPT !.stopping = TRUE, !.ready = q.pending, !.from = "removals", !.purge = P]
    BY <1>2, <2>1 DEF Shutdown
  <2>3. /\ loc' \in Locals /\ loc'.stopping = TRUE /\ loc'.ready = q.pending /\ loc'.stale = loc.stale
        /\ loc'.from = "removals" /\ loc'.purge = P /\ KeepsHand
    BY <1>1, <2>2 DEF Locals, KeepsHand
  <2> QED
    BY <1>2, <2>1, <2>3 DEF Shutdown
<1>3. CASE ~(Owed # {} /\ holder = None)
  <2>1. loc' = [loc EXCEPT !.stopping = TRUE, !.ready = q.pending]
    BY <1>3 DEF Shutdown
  <2>2. /\ loc' \in Locals /\ loc'.stopping = TRUE /\ loc'.ready = q.pending /\ loc'.stale = loc.stale
        /\ KeepsPurge /\ KeepsHand
    BY <1>1, <2>1 DEF Locals, KeepsPurge, KeepsHand
  <2> QED
    BY <1>3, <2>2 DEF Shutdown
<1> QED
  BY <1>2, <1>3

-----------------------------------------------------------------------------
\* What is queued for the removals.
LEMMA OwedSame ==
    ASSUME q'.paths = q.paths, q'.prefixes = q.prefixes
    PROVE  Owed' = Owed
  BY DEF Owed, Under

\* After a pass over the tree: it is tried again, it is given up, or it is
\* done.
LEMMA BulkSkippedEffect ==
    ASSUME TypeOK, NEW B, BulkOutcome("Skipped", B)
    PROVE  /\ UNCHANGED <<refresh, q, excused, startup>>
           /\ bulk' = TRUE /\ loc' = NoLocals /\ pc' \in {"top", "removals"}
  BY DEF BulkOutcome, StartupOutcome, StartupAfter

LEMMA BulkFailedEffect ==
    ASSUME TypeOK, NEW B \in SUBSET Files, BulkOutcome("Failed", B)
    PROVE  /\ UNCHANGED <<refresh, q>>
           /\ startup' \in 0..StartupTries /\ bulk' \in BOOLEAN /\ excused' \subseteq Files
           /\ loc' = NoLocals /\ pc' \in {"top", "removals"} /\ excused \subseteq excused'
           /\ \/ bulk' /\ startup' < StartupTries
              \/ refresh.reconciling
              \/ StaleNext \subseteq excused'
              \/ B \subseteq excused' /\ startup = StartupTries
<1>1. /\ startup \in 0..StartupTries /\ StartupTries \in Nat \ {0} /\ excused \subseteq Files
  BY WatcherAssumption DEF TypeOK
<1>2. /\ StartupOutcome("Failed") = IF startup + 1 < StartupTries THEN "Skipped" ELSE "Failed"
      /\ StartupAfter("Failed") = IF startup = StartupTries THEN startup ELSE startup + 1
  BY DEF StartupOutcome, StartupAfter
<1>3. StaleNext \subseteq Files
  BY DEF StaleNext
<1>4. /\ UNCHANGED refresh /\ loc' = NoLocals /\ pc' \in {"top", "removals"}
  BY DEF BulkOutcome
<1>5. CASE refresh.reconciling
  <2>1. UNCHANGED <<q, excused, startup>> /\ bulk' = FALSE
    BY <1>5 DEF BulkOutcome
  <2> QED
    BY <1>1, <1>4, <1>5, <2>1
<1>6. CASE ~refresh.reconciling /\ startup + 1 < StartupTries
  <2>1. UNCHANGED <<q, excused>> /\ bulk' = TRUE
    BY <1>2, <1>6 DEF BulkOutcome
  <2>2. startup' = startup + 1
    BY <1>1, <1>2, <1>6 DEF BulkOutcome
  <2> QED
    BY <1>1, <1>4, <1>6, <2>1, <2>2
<1>7. CASE ~refresh.reconciling /\ ~(startup + 1 < StartupTries)
  <2>1. UNCHANGED q /\ bulk' = FALSE
        /\ excused' = excused \cup IF startup = StartupTries THEN B ELSE StaleNext
    BY <1>2, <1>7 DEF BulkOutcome
  <2>2. startup' = IF startup = StartupTries THEN startup ELSE startup + 1
    BY <1>2, <1>7 DEF BulkOutcome
  <2>3. startup' \in 0..StartupTries
    BY <1>1, <2>2
  <2> QED
    BY <1>1, <1>3, <1>4, <2>1, <2>3
<1> QED
  BY <1>5, <1>6, <1>7

LEMMA BulkDoneEffect ==
    ASSUME TypeOK, NEW B, BulkOutcome("Done", B)
    PROVE  /\ q' = [NoWork EXCEPT !.failures = q.failures] /\ excused' = {}
           /\ startup' \in 0..StartupTries /\ bulk' = FALSE
           /\ refresh' = IF refresh.reconciling THEN NoRefresh ELSE refresh
           /\ loc' = NoLocals /\ pc' \in {"top", "removals"}
<1>1. /\ startup \in 0..StartupTries /\ StartupTries \in Nat \ {0}
  BY WatcherAssumption DEF TypeOK
<1>2. /\ StartupOutcome("Done") = "Done"
      /\ StartupAfter("Done") \in {startup, StartupTries}
  BY DEF StartupOutcome, StartupAfter
<1>3. startup' \in {startup, StartupTries}
  BY <1>2 DEF BulkOutcome
<1>4. startup' \in 0..StartupTries
  BY <1>1, <1>3
<1> QED
  BY <1>2, <1>4 DEF BulkOutcome

\* After an attempt at the removals they are still queued, done, or given up.
LEMMA RemovalEffect ==
    ASSUME TypeOK, NEW o \in {"Done", "Skipped", "Failed"}, RemovalOutcome(o)
    PROVE  /\ q' \in Queues /\ q'.pending = q.pending /\ q'.parked = q.parked
           /\ excused \subseteq excused' /\ excused' \subseteq Files
           /\ \/ Owed' = Owed
              \/ Owed' = {} /\ o = "Done"
              \/ /\ Owed' = {} /\ o = "Failed"
                 /\ \A f \in Owed : st'[f] # View[f] \/ se'[f] # View[f] => f \in excused'
           /\ pc' = IF loc.stopping THEN "ready" ELSE "drain"
<1> DEFINE giveUp == o = "Failed" /\ q.failures + 1 = MaxRemovalFailures
           more == q.failures + 1
           none == [q EXCEPT !.paths = {}, !.prefixes = {}, !.failures = 0]
           again == [q EXCEPT !.failures = more]
           given == Owed \cap StaleNext
<1>1. /\ q \in Queues /\ q.failures \in 0..MaxRemovalFailures - 1
      /\ MaxRemovalFailures \in Nat \ {0} /\ excused \subseteq Files
  BY WatcherAssumption DEF TypeOK, Queues
<1>2. /\ none \in Queues /\ none.pending = q.pending /\ none.parked = q.parked
      /\ none.paths = {} /\ none.prefixes = {}
  <2>1. 0 \in 0..MaxRemovalFailures - 1
    BY <1>1
  <2> QED
    BY <1>1, <2>1 DEF Queues
<1>3. ASSUME more # MaxRemovalFailures
      PROVE  /\ again \in Queues /\ again.pending = q.pending /\ again.parked = q.parked
             /\ again.paths = q.paths /\ again.prefixes = q.prefixes
  <2>1. more \in 0..MaxRemovalFailures - 1
    BY <1>1, <1>3
  <2> HIDE DEF more
  <2> QED
    BY <1>1, <2>1 DEF Queues
<1>4. /\ q' = IF giveUp \/ o = "Done" THEN none ELSE IF o = "Failed" THEN again ELSE q
      /\ excused' = IF giveUp THEN excused \cup given ELSE excused
      /\ pc' = IF loc.stopping THEN "ready" ELSE "drain"
  BY DEF RemovalOutcome
<1>5. given \subseteq Files
  BY OwedType
<1>6. \A f \in Owed : st'[f] # View[f] \/ se'[f] # View[f] => f \in given
  BY OwedType DEF StaleNext
<1> HIDE DEF none, again, given
<1>7. CASE giveUp
  <2>1. Owed' = {}
    BY <1>2, <1>4, <1>7 DEF Owed, Under
  <2> QED
    BY <1>1, <1>2, <1>4, <1>5, <1>6, <1>7, <2>1
<1>8. CASE o = "Done"
  <2>1. Owed' = {}
    BY <1>2, <1>4, <1>8 DEF Owed, Under
  <2> QED
    BY <1>1, <1>2, <1>4, <1>8, <2>1
<1>9. CASE ~giveUp /\ o # "Done"
  <2>1. q'.paths = q.paths /\ q'.prefixes = q.prefixes
    BY <1>3, <1>4, <1>9
  <2> QED
    BY <1>1, <1>3, <1>4, <1>9, <2>1, OwedSame
<1> QED
  BY <1>7, <1>8, <1>9

LEMMA UnderMember ==
    ASSUME NEW P, NEW f
    PROVE  f \in Under(P) <=> (f \in P /\ f # Dir) \/ (Dir \in P /\ f \in Nested)
<1>1. ASSUME f \in P, f # Dir PROVE f \in Under(P)
  BY <1>1 DEF Under
<1>2. ASSUME Dir \in P, f \in Nested PROVE f \in Under(P)
  BY <1>2 DEF Under
<1>3. ASSUME f \in Under(P) PROVE (f \in P /\ f # Dir) \/ (Dir \in P /\ f \in Nested)
  <2>1. PICK p \in P : f \in IF p = Dir THEN Nested ELSE {p}
    BY <1>3 DEF Under
  <2> QED
    BY <2>1
<1> QED
  BY <1>1, <1>2, <1>3

LEMMA QueuedEffect ==
    ASSUME TypeOK, NEW e \in Events, q' = Queued(e)
    PROVE  /\ q' \in Queues /\ q.pending \subseteq q'.pending /\ q'.parked = q.parked
           /\ Owed \subseteq Owed' \cup q'.pending
           /\ e.path \in Files \ filter /\ e.kind = "Modify" => e.path \in q'.pending
           /\ e.path \in Files \ filter /\ e.kind # "Modify" => e.path \in Owed'
           /\ e.path = Dir /\ Vanished(e) => Nested \subseteq Owed'
<1> DEFINE q1 == IF Vanished(e) THEN [q EXCEPT !.prefixes = @ \cup {e.path}] ELSE q
           modified == [q1 EXCEPT !.paths = @ \ {e.path}, !.pending = @ \cup {e.path}]
           removed == [q1 EXCEPT !.paths = @ \cup {e.path}]
<1>1. q \in Queues /\ e.path \in Paths
  BY DEF TypeOK, Events
<1>2. /\ q1 \in Queues /\ q1.pending = q.pending /\ q1.parked = q.parked /\ q1.paths = q.paths
      /\ q.prefixes \subseteq q1.prefixes
      /\ Vanished(e) => e.path \in q1.prefixes
  BY <1>1 DEF Queues
<1>3. q' = IF e.path \notin Files \ filter THEN q1 ELSE IF e.kind = "Modify" THEN modified ELSE removed
  BY DEF Queued
<1> HIDE DEF q1
<1>4. Owed = q.paths \cup Under(q.prefixes) /\ Owed' = q'.paths \cup Under(q'.prefixes)
  BY DEF Owed, Under
<1>5. Under(q.prefixes) \subseteq Under(q1.prefixes)
  <2> SUFFICES ASSUME NEW f, f \in Under(q.prefixes) PROVE f \in Under(q1.prefixes)
    OBVIOUS
  <2>1. (f \in q.prefixes /\ f # Dir) \/ (Dir \in q.prefixes /\ f \in Nested)
    BY UnderMember
  <2>2. (f \in q1.prefixes /\ f # Dir) \/ (Dir \in q1.prefixes /\ f \in Nested)
    BY <1>2, <2>1
  <2> QED
    BY <2>2, UnderMember
<1>6. e.path = Dir /\ Vanished(e) => Nested \subseteq Under(q1.prefixes)
  <2> SUFFICES ASSUME Dir \in q1.prefixes, NEW f \in Nested PROVE f \in Under(q1.prefixes)
    BY <1>2
  <2> QED
    BY UnderMember
<1>7. CASE e.path \notin Files \ filter
  BY <1>2, <1>3, <1>4, <1>5, <1>6, <1>7
<1>8. CASE e.path \in Files \ filter /\ e.kind = "Modify"
  <2>1. /\ modified \in Queues /\ modified.pending = q.pending \cup {e.path}
        /\ modified.parked = q.parked /\ modified.paths = q.paths \ {e.path}
        /\ modified.prefixes = q1.prefixes
    BY <1>2, <1>8 DEF Queues
  <2> HIDE DEF modified
  <2> QED
    BY <1>3, <1>4, <1>5, <1>6, <1>8, <2>1
<1>9. CASE e.path \in Files \ filter /\ e.kind # "Modify"
  <2>1. /\ removed \in Queues /\ removed.pending = q.pending
        /\ removed.parked = q.parked /\ removed.paths = q.paths \cup {e.path}
        /\ removed.prefixes = q1.prefixes
    BY <1>2, <1>9 DEF Queues
  <2> HIDE DEF removed
  <2> QED
    BY <1>3, <1>4, <1>5, <1>6, <1>9, <2>1
<1> QED
  BY <1>7, <1>8, <1>9

LEMMA ReviveEffect ==
    ASSUME TypeOK, NEW F \in SUBSET Files, Revive(F)
    PROVE  /\ q' \in Queues /\ q'.pending = q.pending \cup F /\ q'.parked = q.parked \ F
           /\ Owed' = Owed
<1>1. q \in Queues
  BY DEF TypeOK
<1>2. PICK k : k = Settled(q, F)
  OBVIOUS
<1>3. k \in Queues /\ Same(k, q) /\ k.pending = q.pending /\ k.parked = q.parked \ F
  BY <1>1, <1>2, SettledEffect
<1>4. PICK n : n = IF Owed = {} THEN 0 ELSE k.failures
  OBVIOUS
<1>5. n \in 0..MaxRemovalFailures - 1
  BY <1>3, <1>4, WatcherAssumption DEF Queues
<1>6. q' = [k EXCEPT !.pending = @ \cup F, !.failures = n]
  BY <1>2, <1>4 DEF Revive
<1>7. /\ q' \in Queues /\ q'.pending = q.pending \cup F /\ q'.parked = q.parked \ F
      /\ q'.paths = q.paths /\ q'.prefixes = q.prefixes
  BY <1>3, <1>5, <1>6 DEF Queues, Same
<1> QED
  BY <1>7, OwedSame

LEMMA ReadyPurgeEffect ==
    ASSUME TypeOK, NEW o \in {"Done", "Skipped", "Failed"}, PurgeOutcome(o), loc.from = "ready"
    PROVE  /\ q' \in Queues /\ Owed' = Owed /\ pc' = "ready" /\ UNCHANGED excused
           /\ q.pending \ loc.purge \subseteq q'.pending
           /\ q.pending \subseteq q'.pending \cup q'.parked
           /\ q.parked \ loc.purge \subseteq q'.parked
           /\ o # "Done" => loc.purge \subseteq q'.pending \cup q'.parked
<1>1. q \in Queues /\ loc.purge \in SUBSET Files
  BY DEF TypeOK, Locals
<1>2. pc' = "ready" /\ UNCHANGED excused
  BY DEF PurgeOutcome
<1>3. CASE o = "Done"
  <2>1. q' = Settled(q, loc.purge)
    BY <1>3 DEF PurgeOutcome
  <2> QED
    BY <1>1, <1>2, <1>3, <2>1, SettledEffect, OwedSame DEF Same
<1>4. CASE o = "Skipped"
  <2>1. q.pending \cup loc.purge \in SUBSET Files
    BY <1>1 DEF Queues
  <2>2. q' = [q EXCEPT !.pending = q.pending \cup loc.purge]
    BY <1>4 DEF PurgeOutcome
  <2>3. q' \in Queues /\ Same(q', q) /\ q'.pending = q.pending \cup loc.purge /\ q'.parked = q.parked
    BY <1>1, <2>1, <2>2, PendingEffect
  <2> QED
    BY <1>2, <2>3, OwedSame DEF Same
<1>5. CASE o = "Failed"
  <2>1. q' = Requeued(q, loc.purge)
    BY <1>5 DEF PurgeOutcome
  <2> QED
    BY <1>1, <1>2, <2>1, RequeuedEffect, OwedSame DEF Same
<1> QED
  BY <1>3, <1>4, <1>5

LEMMA EmbedEffect ==
    ASSUME TypeOK, NEW F \in SUBSET Files, Embed(F)
    PROVE  /\ q' \in Queues /\ Owed' = Owed
           /\ q.pending \cup F \subseteq q'.pending \cup q'.parked
           /\ q.parked \ (loc.stale \ F) \subseteq q'.parked
<1>1. q \in Queues /\ loc.stale \ F \in SUBSET Files
  BY DEF TypeOK, Locals
<1>2. PICK k : k = Settled(q, loc.stale \ F)
  OBVIOUS
<1>3. k \in Queues /\ Same(k, q) /\ k.pending = q.pending /\ k.parked = q.parked \ (loc.stale \ F)
  BY <1>1, <1>2, SettledEffect
<1>4. q' = Requeued(k, F)
  BY <1>2 DEF Embed
<1>5. /\ q' \in Queues /\ Same(q', k)
      /\ k.pending \cup F \subseteq q'.pending \cup q'.parked /\ k.parked \subseteq q'.parked
  BY <1>3, <1>4, RequeuedEffect
<1> QED
  BY <1>3, <1>5, OwedSame DEF Same

\* The steps of process_ready that take a file from pending.
LEMMA RestEffect ==
    ASSUME TypeOK, NEW f \in Files
    PROVE  /\ Rest(f) \in Queues /\ Same(Rest(f), q)
           /\ Rest(f).pending = q.pending \ {f} /\ Rest(f).parked = q.parked
<1>1. q \in Queues /\ q.pending \ {f} \in SUBSET Files
  BY DEF TypeOK, Queues
<1>2. Rest(f) = [q EXCEPT !.pending = q.pending \ {f}]
  BY DEF Rest
<1> QED
  BY <1>1, <1>2, PendingEffect

LEMMA SettledRest ==
    ASSUME TypeOK, NEW f \in Files, q' = Settled(Rest(f), {f})
    PROVE  /\ q' \in Queues /\ Owed' = Owed
           /\ q'.pending = q.pending \ {f} /\ q'.parked = q.parked \ {f}
<1>1. PICK k : k = Rest(f)
  OBVIOUS
<1>2. k \in Queues /\ Same(k, q) /\ k.pending = q.pending \ {f} /\ k.parked = q.parked
  BY <1>1, RestEffect
<1>3. {f} \in SUBSET Files /\ q' = Settled(k, {f})
  BY <1>1
<1>4. PICK F \in SUBSET Files : F = {f}
  OBVIOUS
<1>5. q' \in Queues /\ Same(q', k) /\ q'.pending = k.pending /\ q'.parked = k.parked \ F
  BY <1>2, <1>3, <1>4, SettledEffect
<1> QED
  BY <1>2, <1>4, <1>5, OwedSame DEF Same

LEMMA RequeuedRest ==
    ASSUME TypeOK, NEW f \in Files, q' = Requeued(Rest(f), {f})
    PROVE  /\ q' \in Queues /\ Owed' = Owed
           /\ q.pending \subseteq q'.pending \cup q'.parked /\ f \in q'.pending \cup q'.parked
           /\ q.pending \ {f} \subseteq q'.pending /\ q.parked \subseteq q'.parked
<1>1. PICK k : k = Rest(f)
  OBVIOUS
<1>2. k \in Queues /\ Same(k, q) /\ k.pending = q.pending \ {f} /\ k.parked = q.parked
  BY <1>1, RestEffect
<1>3. {f} \in SUBSET Files /\ q' = Requeued(k, {f})
  BY <1>1
<1>4. /\ q' \in Queues /\ Same(q', k)
      /\ k.pending \cup {f} \subseteq q'.pending \cup q'.parked /\ k.parked \subseteq q'.parked
      /\ k.pending \ {f} \subseteq q'.pending
  BY <1>2, <1>3, RequeuedEffect
<1> QED
  BY <1>2, <1>4, OwedSame DEF Same

\* Rows stay rows.
LEMMA DisownedType ==
    ASSUME TypeOK, NEW seen, NEW F, NEW W
    PROVE  Disowned(seen, F, W) \in [Files -> Row]
<1>1. se \in [Files -> Row] /\ None \in Row
  BY DEF TypeOK, Row
<1> QED
  BY <1>1 DEF Disowned

LEMMA StructuralType ==
    ASSUME TypeOK, NEW seen \in [Files -> Row], NEW F, NEW W, WriteStructural(seen, F, W)
    PROVE  st' \in [Files -> Row] /\ se' \in [Files -> Row]
<1>1. st \in [Files -> Row]
  BY DEF TypeOK
<1> QED
  BY <1>1, DisownedType DEF WriteStructural

LEMMA SemanticType ==
    ASSUME TypeOK, NEW seen \in [Files -> Row], NEW F, WriteSemantic(seen, F)
    PROVE  se' \in [Files -> Row]
<1>1. se \in [Files -> Row]
  BY DEF TypeOK
<1> QED
  BY <1>1 DEF WriteSemantic

-----------------------------------------------------------------------------
LEMMA InitIInv == Init => IInv
<1> SUFFICES ASSUME Init PROVE IInv
  OBVIOUS
<1>1. (CHOOSE c \in Contents : TRUE) \in Contents
  BY WatcherAssumption
<1>2. disk \in [Files -> Row] /\ Blank \in [Files -> Row]
  BY <1>1, BlankType DEF Init, Row
<1>3. cli \in [stage : {"none", "structural", "semantic"}, seen : [Files -> Row]]
  BY <1>2 DEF Init, NoPass
<1>4. 0 \in 0..StartupTries /\ 0 \in 0..MaxEdits /\ 0 \in 0..MaxFaults /\ 0 \in 0..MaxPasses
  BY WatcherAssumption
<1>5. chan \in Seq(Events) /\ Len(chan) <= QueueCapacity
  BY WatcherAssumption DEF Init
<1>6. refresh \in [reload : BOOLEAN, reconciling : BOOLEAN] /\ ~refresh.reload
  BY DEF Init, NoRefresh
<1>7. TypeOK
  BY <1>2, <1>3, <1>4, <1>5, <1>6, NoWorkType, NoLocalsType DEF Init, TypeOK
<1>8. cli.stage = "none"
  BY DEF Init, NoPass
<1>9. LockInv
  BY <1>8, WatcherAssumption DEF Init, LockInv
<1>10. LocalsInv /\ HandInv
  BY <1>6, NoLocalsType DEF Init, LocalsInv, HandInv, AtOne
<1>11. EventInv
  BY DEF Init, EventInv, Waiting
<1>12. AbsentInv
  BY DEF Init, AbsentInv
<1>13. ~Active
  BY DEF Init, Active, Watching
<1> QED
  BY <1>7, <1>9, <1>10, <1>11, <1>12, <1>13 DEF IInv

\* Every edit of the tree keeps the types.
LEMMA EditTypeOK ==
    ASSUME TypeOK,
           \/ \E f \in Files : Unlink(f) \/ \E c \in Contents : Save(f, c)
           \/ \E F \in SUBSET Nested, c \in Contents : MoveIn(F, c)
           \/ MoveOut
           \/ \E F \in SUBSET Ignorable : EditIgnore(F)
    PROVE  TypeOK'
<1>1. /\ Files \subseteq Paths /\ Dir \in Paths /\ None \in Row /\ Contents \subseteq Row
      /\ {"Modify", "Remove", "Rename", "Create", "Ignore"} \subseteq Kinds
  BY DEF Paths, Row, Kinds
<1>2. disk \in [Files -> Row]
  BY DEF TypeOK
<1>3. Edit => edits' \in 0..MaxEdits /\ excused' \subseteq Files
  BY WatcherAssumption DEF Edit, TypeOK
<1> DEFINE Told1 == /\ chan' \in Seq(Events) /\ Len(chan') <= QueueCapacity
                    /\ lost' \in BOOLEAN /\ faults' \in 0..MaxFaults
<1>4. \A k \in Kinds, p \in Paths : Notify(k, p) => Told1
  BY NotifyEffect
<1>5. ASSUME Told1, Edit, disk' \in [Files -> Row], dir' \in {"absent", "unwatched", "watched"},
             ignored' \subseteq Ignorable
      PROVE  TypeOK'
  BY <1>3, <1>5 DEF TypeOK, Edit
<1> HIDE DEF Told1
<1>6. ASSUME NEW f \in Files, Unlink(f) PROVE TypeOK'
  <2>1. Told1
    BY <1>1, <1>4, <1>6 DEF Unlink
  <2>2. disk' \in [Files -> Row]
    BY <1>1, <1>2, <1>6 DEF Unlink
  <2> QED
    BY <1>5, <1>6, <2>1, <2>2 DEF Unlink, TypeOK
<1>7. ASSUME NEW f \in Files, NEW c \in Contents, Save(f, c) PROVE TypeOK'
  <2>1. Told1
    BY <1>1, <1>4, <1>7 DEF Save
  <2>2. disk' \in [Files -> Row]
    BY <1>1, <1>2, <1>7 DEF Save
  <2> QED
    BY <1>5, <1>7, <2>1, <2>2 DEF Save, TypeOK
<1>8. ASSUME NEW F \in SUBSET Nested, NEW c \in Contents, MoveIn(F, c) PROVE TypeOK'
  <2>1. Told1
    BY <1>1, <1>4, <1>8 DEF MoveIn
  <2>2. disk' \in [Files -> Row]
    BY <1>1, <1>2, <1>8 DEF MoveIn
  <2> QED
    BY <1>5, <1>8, <2>1, <2>2 DEF MoveIn, TypeOK
<1>9. CASE MoveOut
  <2>1. Told1
    BY <1>1, <1>4, <1>9 DEF MoveOut
  <2>2. disk' \in [Files -> Row]
    BY <1>1, <1>2, <1>9 DEF MoveOut
  <2> QED
    BY <1>5, <1>9, <2>1, <2>2 DEF MoveOut, TypeOK
<1>10. ASSUME NEW F \in SUBSET Ignorable, EditIgnore(F) PROVE TypeOK'
  <2>1. Told1
    BY <1>1, <1>4, <1>10 DEF EditIgnore
  <2> QED
    BY <1>5, <1>10, <2>1 DEF EditIgnore, TypeOK
<1> QED
  BY <1>6, <1>7, <1>8, <1>9, <1>10

\* A step of the other process's run.
CliStep == \/ CliBegin
           \/ \E F, W, D \in SUBSET Files : CliStructural(F, W, D)
           \/ \E F, D \in SUBSET Files : CliSemantic(F, D)

LEMMA IndexingStep == Indexing => CliStep
  BY DEF Indexing, CliStep

LEMMA FaultType == ASSUME TypeOK, NEW b \in BOOLEAN, Fault(b) PROVE faults' \in 0..MaxFaults
  BY WatcherAssumption DEF Fault, TypeOK

LEMMA CliTypeOK ==
    ASSUME TypeOK, CliStep
    PROVE  TypeOK'
<1>1. View \in [Files -> Row] /\ cli.seen \in [Files -> Row]
  BY ViewType DEF TypeOK
<1> DEFINE Passes == [stage : {"none", "structural", "semantic"}, seen : [Files -> Row]]
<1>2. NoPass \in Passes
  BY BlankType DEF NoPass
<1>3. ASSUME CliBegin PROVE TypeOK'
  <2>1. passes' \in 0..MaxPasses
    BY <1>3, WatcherAssumption DEF CliBegin, TypeOK
  <2>2. cli' \in Passes
    BY <1>1, <1>3 DEF CliBegin
  <2> QED
    BY <1>3, <2>1, <2>2 DEF CliBegin, TypeOK, world, work
<1>4. ASSUME NEW F \in SUBSET Files, NEW W \in SUBSET Files, NEW D \in SUBSET Files,
             CliStructural(F, W, D)
      PROVE  TypeOK'
  <2>1. cli' \in Passes
    <3>1. [cli EXCEPT !.stage = "semantic", !.seen = View] \in Passes
      BY <1>1 DEF TypeOK
    <3> QED
      BY <1>2, <1>4, <3>1 DEF CliStructural, CliEnd
  <2>2. st' \in [Files -> Row]
    <3>1. st \in [Files -> Row] /\ None \in Row
      BY DEF TypeOK, Row
    <3> QED
      BY <1>1, <1>4, <3>1 DEF CliStructural
  <2>3. se' \in [Files -> Row]
    BY <1>4, DisownedType DEF CliStructural
  <2>4. faults' \in 0..MaxFaults /\ holder' \in {holder, None}
    BY <1>4, FaultType DEF CliStructural, CliEnd
  <2>5. excused' \subseteq Files
    BY <1>4 DEF CliStructural, Bared, TypeOK
  <2> HIDE DEF Passes
  <2>6. UNCHANGED <<disk, dir, ignored, chan, lost, filter, blind, q, bulk, startup, refresh,
                    pc, loc, edits, passes>>
    BY <1>4 DEF CliStructural, world, work
  <2> QED
    BY <2>1, <2>2, <2>3, <2>4, <2>5, <2>6 DEF TypeOK, Passes
<1>5. ASSUME NEW F \in SUBSET Files, NEW D \in SUBSET Files, CliSemantic(F, D) PROVE TypeOK'
  <2>1. PICK seen : seen = [f \in Files |-> IF f \in D THEN None ELSE cli.seen[f]]
    OBVIOUS
  <2>2. seen \in [Files -> Row] /\ WriteSemantic(seen, F \cup D)
    BY <1>1, <1>5, <2>1 DEF CliSemantic, Row
  <2>3. se' \in [Files -> Row]
    BY <2>2, SemanticType
  <2>4. faults' \in 0..MaxFaults /\ holder' = None /\ cli' = NoPass
    BY <1>5, FaultType DEF CliSemantic, CliEnd
  <2>5. excused' \subseteq Files
    BY <1>5 DEF CliSemantic, TypeOK
  <2>6. UNCHANGED <<disk, dir, ignored, st, chan, lost, filter, blind, q, bulk, startup, refresh,
                    pc, loc, edits, passes>>
    BY <1>5 DEF CliSemantic, world, work
  <2> QED
    BY <1>2, <2>3, <2>4, <2>5, <2>6 DEF TypeOK
<1> QED
  BY <1>3, <1>4, <1>5 DEF CliStep

\* The steps of the loop's head and of its passes.
HeadStep == Start \/ Register \/ Sweep \/ ReceiveEvent \/ Reload
PassStep == \/ BulkBegin \/ BulkSkipped \/ BulkWrites \/ BulkSemantic
            \/ \E F, W \in SUBSET Files : BulkFailed(F, W)

LEMMA HeadTypeOK == ASSUME TypeOK, HeadStep PROVE TypeOK'
<1>1. /\ NoRefresh \in [reload : BOOLEAN, reconciling : BOOLEAN]
      /\ refresh \in [reload : BOOLEAN, reconciling : BOOLEAN]
      /\ [refresh EXCEPT !.reload = TRUE] \in [reload : BOOLEAN, reconciling : BOOLEAN]
  BY DEF NoRefresh, TypeOK
<1>2. CASE Start
  BY <1>2 DEF Start, TypeOK, world, work
<1>3. CASE Register
  <2>1. 0 \in 0..StartupTries /\ <<>> \in Seq(Events) /\ Len(<<>>) <= QueueCapacity
    BY WatcherAssumption
  <2>2. blind' \subseteq Files
    BY <1>3, WatcherAssumption DEF Register, TypeOK
  <2> QED
    BY <1>1, <1>3, <2>1, <2>2, NoWorkType, NoLocalsType DEF Register, TypeOK
<1>4. CASE Sweep
  <2>1. q' \in Queues
    BY <1>4, ClearedEffect DEF Sweep, TypeOK
  <2> QED
    BY <1>1, <1>4, <2>1 DEF Sweep, TypeOK, world
<1>5. ASSUME NEW e \in Events, ReceiveIgnore(e) PROVE TypeOK'
  <2>1. chan' \in Seq(Events) /\ Len(chan') <= QueueCapacity
    BY <1>5, ReceiveEffect DEF ReceiveIgnore
  <2> QED
    BY <1>1, <1>5, <2>1 DEF ReceiveIgnore, Receive, TypeOK
<1>6. ASSUME NEW e \in Events, ReceiveDirectory(e) PROVE TypeOK'
  <2>1. chan' \in Seq(Events) /\ Len(chan') <= QueueCapacity
    BY <1>6, ReceiveEffect DEF ReceiveDirectory
  <2>2. PICK scan \in SUBSET Files : q' = [q EXCEPT !.paths = @ \ scan, !.pending = @ \cup scan]
    BY <1>6, WatcherAssumption DEF ReceiveDirectory
  <2>3. q \in Queues
    BY DEF TypeOK
  <2>4. q' \in Queues
    BY <2>2, <2>3 DEF Queues
  <2> QED
    BY <1>1, <1>6, <2>1, <2>4 DEF ReceiveDirectory, Receive, TypeOK
<1>7. ASSUME NEW e \in Events, ReceivePath(e) PROVE TypeOK'
  <2>1. chan' \in Seq(Events) /\ Len(chan') <= QueueCapacity
    BY <1>7, ReceiveEffect DEF ReceivePath
  <2>2. q' \in Queues
    BY <1>7, QueuedEffect DEF ReceivePath
  <2>3. loc' \in Locals /\ bulk' \in BOOLEAN /\ pc' \in {"reload", "begin", "top"}
    BY <1>7, BurstLocals DEF ReceivePath, AfterEvent, TypeOK, Vanished
  <2> QED
    BY <1>7, <2>1, <2>2, <2>3 DEF ReceivePath, Receive, TypeOK
<1>8. CASE Reload
  <2>1. faults' \in 0..MaxFaults
    BY <1>8, FaultType DEF Reload
  <2>2. refresh' \in [reload : BOOLEAN, reconciling : BOOLEAN]
    <3>1. [reload |-> FALSE, reconciling |-> TRUE] \in [reload : BOOLEAN, reconciling : BOOLEAN]
      OBVIOUS
    <3> QED
      BY <1>1, <1>8, <3>1 DEF Reload
  <2>3. /\ dir' \in {"absent", "unwatched", "watched"} /\ filter' \subseteq Ignorable
        /\ blind' \subseteq Files
    BY <1>8 DEF Reload, TypeOK
  <2> QED
    BY <1>8, <2>1, <2>2, <2>3 DEF Reload, TypeOK
<1> QED
  BY <1>2, <1>4, <1>5, <1>6, <1>7, <1>8, <1>3 DEF HeadStep, ReceiveEvent

\* What a pass has rewritten.
LEMMA BaredType == ASSUME NEW seen, NEW F \in SUBSET Files, NEW W
                   PROVE  Bared(seen, F, W) \in SUBSET Files
  BY DEF Bared

\* The three ways a pass fails.
LEMMA FailedPass ==
    ASSUME TypeOK, NEW F \in SUBSET Files, NEW W \in SUBSET Files, BulkFailed(F, W)
    PROVE  \E B \in SUBSET Files :
              /\ BulkOutcome("Failed", B)
              /\ \/ BulkDue /\ holder = None /\ UNCHANGED <<st, se>>
                 \/ /\ pc = "structural" /\ WriteStructural(loc.seen, F, W)
                    /\ B = Bared(loc.seen, F, W)
                 \/ /\ pc = "semantic" /\ WriteSemantic(loc.seen, F) /\ UNCHANGED st
                    /\ B = loc.bare \ F
<1>1. {} \in SUBSET Files /\ Bared(loc.seen, F, W) \in SUBSET Files
      /\ loc.bare \ F \in SUBSET Files
  BY BaredType DEF TypeOK, Locals
<1>2. CASE /\ BulkDue /\ holder = None /\ UNCHANGED <<st, se>> /\ BulkOutcome("Failed", {})
  BY <1>1, <1>2
<1>3. CASE /\ pc = "structural" /\ WriteStructural(loc.seen, F, W)
           /\ BulkOutcome("Failed", Bared(loc.seen, F, W))
  BY <1>1, <1>3
<1>4. CASE /\ pc = "semantic" /\ WriteSemantic(loc.seen, F) /\ UNCHANGED st
           /\ BulkOutcome("Failed", loc.bare \ F)
  BY <1>1, <1>4
<1> QED
  BY <1>2, <1>3, <1>4 DEF BulkFailed

LEMMA PassTypeOK == ASSUME TypeOK, PassStep PROVE TypeOK'
<1>1. /\ View \in [Files -> Row] /\ loc.seen \in [Files -> Row]
  BY ViewType DEF TypeOK, Locals
<1>2. /\ NoRefresh \in [reload : BOOLEAN, reconciling : BOOLEAN]
      /\ refresh \in [reload : BOOLEAN, reconciling : BOOLEAN]
  BY DEF NoRefresh, TypeOK
<1>3. CASE BulkBegin
  <2>1. loc' \in Locals
    BY <1>3, SeenLocals DEF BulkBegin
  <2> QED
    BY <1>3, <2>1 DEF BulkBegin, TypeOK, world, work
<1>4. CASE BulkSkipped
  <2>1. faults' \in 0..MaxFaults
    BY <1>4, FaultType DEF BulkSkipped
  <2> QED
    BY <1>4, <2>1, BulkSkippedEffect, NoLocalsType DEF BulkSkipped, TypeOK, world
<1>5. ASSUME NEW W \in SUBSET Files, BulkStructural(W) PROVE TypeOK'
  <2>1. loc' \in Locals
    BY <1>5, BareLocals, BaredType DEF BulkStructural
  <2>2. st' \in [Files -> Row] /\ se' \in [Files -> Row]
    BY <1>1, <1>5, StructuralType DEF BulkStructural
  <2> QED
    BY <1>5, <2>1, <2>2 DEF BulkStructural, TypeOK, world, work
<1>6. CASE BulkSemantic
  <2>1. se' \in [Files -> Row]
    BY <1>1, <1>6, SemanticType DEF BulkSemantic
  <2>2. BulkOutcome("Done", {})
    BY <1>6 DEF BulkSemantic
  <2>3. q' \in Queues /\ refresh' \in [reload : BOOLEAN, reconciling : BOOLEAN]
    BY <1>2, <2>2, BulkDoneEffect, ClearedEffect
  <2> QED
    BY <1>6, <2>1, <2>2, <2>3, BulkDoneEffect, NoLocalsType DEF BulkSemantic, TypeOK, world
<1>7. ASSUME NEW F \in SUBSET Files, NEW W \in SUBSET Files, BulkFailed(F, W) PROVE TypeOK'
  <2>1. faults' \in 0..MaxFaults
    BY <1>7, FaultType DEF BulkFailed
  <2>2. st' \in [Files -> Row] /\ se' \in [Files -> Row]
    BY <1>1, <1>7, StructuralType, SemanticType DEF BulkFailed, TypeOK
  <2>3. PICK B \in SUBSET Files : BulkOutcome("Failed", B)
    BY <1>7, FailedPass
  <2> QED
    BY <1>7, <2>1, <2>2, <2>3, BulkFailedEffect, NoLocalsType DEF BulkFailed, TypeOK, world
<1> QED
  BY <1>3, <1>4, <1>5, <1>6, <1>7 DEF PassStep, BulkWrites

\* The steps of process_ready.
LEMMA RequeuedOne ==
    ASSUME TypeOK, NEW f \in Files, q' = Requeued(q, {f})
    PROVE  /\ q' \in Queues /\ Owed' = Owed
           /\ q.pending \cup {f} \subseteq q'.pending \cup q'.parked
           /\ q.parked \subseteq q'.parked /\ q.pending \ {f} \subseteq q'.pending
<1>1. q \in Queues /\ {f} \in SUBSET Files
  BY DEF TypeOK
<1> QED
  BY <1>1, RequeuedEffect, OwedSame DEF Same

LEMMA SettledOne ==
    ASSUME TypeOK, NEW f \in Files, q' = Settled(q, {f})
    PROVE  /\ q' \in Queues /\ Owed' = Owed
           /\ q'.pending = q.pending /\ q'.parked = q.parked \ {f}
<1>1. q \in Queues /\ {f} \in SUBSET Files
  BY DEF TypeOK
<1> QED
  BY <1>1, SettledEffect, OwedSame DEF Same

LEMMA WaitingOne ==
    ASSUME TypeOK, NEW f \in Files, q' = [q EXCEPT !.pending = @ \cup {f}]
    PROVE  /\ q' \in Queues /\ Owed' = Owed
           /\ q'.pending = q.pending \cup {f} /\ q'.parked = q.parked
<1>1. q \in Queues /\ q.pending \cup {f} \in SUBSET Files
  BY DEF TypeOK, Queues
<1> QED
  BY <1>1, PendingEffect, OwedSame DEF Same

\* What a step on the file in hand leaves alone.
LEMMA AtFileType ==
    ASSUME TypeOK, NEW f, NEW places, AtFile(f, places),
           st' \in [Files -> Row], se' \in [Files -> Row], holder' \in {holder, "watcher"},
           q' \in Queues, loc' \in Locals, excused' \subseteq Files, faults' \in 0..MaxFaults,
           pc' \in {"ready", "compare", "index", "purge"}
    PROVE  TypeOK'
  BY DEF AtFile, TypeOK, world

LEMMA AttemptType ==
    ASSUME TypeOK, NEW f, Attempt(f)
    PROVE  st' \in [Files -> Row] /\ se' \in [Files -> Row]
<1>1. st \in [Files -> Row] /\ se \in [Files -> Row] /\ disk \in [Files -> Row]
  BY DEF TypeOK
<1> QED
  BY <1>1, StructuralType DEF Attempt

LEMMA ReadyTypeOK == ASSUME TypeOK, ReadyStep PROVE TypeOK'
<1>1. /\ st \in [Files -> Row] /\ se \in [Files -> Row] /\ disk \in [Files -> Row]
      /\ q \in Queues /\ loc \in Locals /\ excused \subseteq Files /\ faults \in 0..MaxFaults
      /\ {} \in SUBSET Files /\ \A f \in Files : {f} \in SUBSET Files
  BY DEF TypeOK
<1>2. ASSUME NEW f \in Files, ReadyIgnored(f) PROVE TypeOK'
  <2>1. q' \in Queues /\ loc' \in Locals
    BY <1>2, SettledRest, LeftLocals DEF ReadyIgnored
  <2> QED
    BY <1>2, <2>1 DEF ReadyIgnored, Take, TypeOK, world
<1>3. ASSUME NEW f \in Files, ReadyRead(f) PROVE TypeOK'
  <2>1. q' \in Queues /\ loc' \in Locals /\ pc' \in {"gone", "look"}
    BY <1>3, RestEffect, ReadLocals DEF ReadyRead
  <2> QED
    BY <1>3, <2>1 DEF ReadyRead, Take, TypeOK, world
<1>4. ASSUME NEW f \in Files, ReadyUnread(f) PROVE TypeOK'
  <2>1. q' \in Queues /\ loc' \in Locals /\ faults' \in 0..MaxFaults
    BY <1>4, RequeuedRest, LeftLocals, FaultType DEF ReadyUnread
  <2> QED
    BY <1>4, <2>1 DEF ReadyUnread, Take, TypeOK, world
<1>5. ASSUME NEW f \in Files, ReadyLook(f) PROVE TypeOK'
  <2>1. PICK b \in BOOLEAN : Fault(b) /\ loc' = [loc EXCEPT !.old = b \/ se[f] # loc.text]
    BY <1>5 DEF ReadyLook
  <2>2. PICK c \in BOOLEAN : c = (b \/ se[f] # loc.text)
    OBVIOUS
  <2>3. loc' \in Locals /\ faults' \in 0..MaxFaults
    BY <2>1, <2>2, OldLocals, FaultType
  <2> QED
    BY <1>1, <1>5, <2>3, AtFileType DEF ReadyLook
<1>6. ASSUME NEW f \in Files, ReadyFresh(f) PROVE TypeOK'
  <2>1. q' \in Queues
    BY <1>1, <1>6, SettledOne DEF ReadyFresh
  <2>2. loc' \in Locals /\ pc' = "ready"
    BY <1>1, <1>6, ReturnLocals DEF ReadyFresh
  <2>3. excused' \subseteq Files
    BY <1>1, <1>6 DEF ReadyFresh
  <2> QED
    BY <1>1, <1>6, <2>1, <2>2, <2>3, AtFileType DEF ReadyFresh
<1>7. ASSUME NEW f \in Files, ReadyDiffers(f) PROVE TypeOK'
  <2>1. faults' \in 0..MaxFaults
    BY <1>7, FaultType DEF ReadyDiffers
  <2> QED
    BY <1>1, <1>7, <2>1, AtFileType DEF ReadyDiffers
<1>8. ASSUME NEW f \in Files, ReadyIndex(f) PROVE TypeOK'
  <2>1. loc' \in Locals /\ pc' = "ready"
    BY <1>1, <1>8, ReturnLocals DEF ReadyIndex
  <2>2. st' \in [Files -> Row] /\ se' \in [Files -> Row]
    BY <1>1, <1>8, StructuralType DEF ReadyIndex
  <2> QED
    BY <1>1, <1>8, <2>1, <2>2, AtFileType DEF ReadyIndex
<1>9. ASSUME NEW f \in Files, ReadyPurge(f) PROVE TypeOK'
  <2>1. loc' \in Locals
    BY <1>9, PurgeOneLocals DEF ReadyPurge
  <2> QED
    BY <1>1, <1>9, <2>1, AtFileType DEF ReadyPurge
<1>10. ASSUME NEW f \in Files, ReadySkipped(f) \/ ReadyFailed(f) PROVE TypeOK'
  <2>1. loc' \in Locals /\ pc' = "ready"
    BY <1>1, <1>10, ReturnLocals DEF ReadySkipped, ReadyFailed
  <2>2. st' \in [Files -> Row] /\ se' \in [Files -> Row]
    BY <1>10, AttemptType DEF ReadySkipped, ReadyFailed
  <2>3. q' \in Queues
    BY <1>10, WaitingOne, RequeuedOne DEF ReadySkipped, ReadyFailed
  <2>4. faults' \in 0..MaxFaults
    BY <1>10, FaultType DEF ReadySkipped, ReadyFailed
  <2>5. AtFile(f, {"gone", "index"}) /\ UNCHANGED <<holder, excused>>
    BY <1>10 DEF ReadySkipped, ReadyFailed
  <2> QED
    BY <1>1, <2>1, <2>2, <2>3, <2>4, <2>5, AtFileType
<1> QED
  BY <1>2, <1>3, <1>4, <1>5, <1>6, <1>7, <1>8, <1>9, <1>10 DEF ReadyStep

\* The steps of the removals and of the per-file work.
FileStep == \/ \E F \in SUBSET Files : DrainBegin(F)
            \/ RemovalsBegin \/ RemovalsDeferred \/ Purge \/ ReadyStep \/ EmbedStep \/ EndStep

LEMMA FileTypeOK == ASSUME TypeOK, FileStep PROVE TypeOK'
<1>1. ASSUME NEW F \in SUBSET Files, DrainBegin(F) PROVE TypeOK'
  <2>1. loc' \in Locals
    BY <1>1, ReadyLocals DEF DrainBegin
  <2> QED
    BY <1>1, <2>1 DEF DrainBegin, TypeOK, world, work
<1>2. CASE RemovalsBegin
  <2>1. PICK P \in SUBSET Files : P = {f \in Owed : disk[f] = None}
    BY OwedType
  <2>2. loc' \in Locals
    BY <1>2, <2>1, RemovalLocals DEF RemovalsBegin
  <2> QED
    BY <1>2, <2>2 DEF RemovalsBegin, TypeOK, world, work
<1>3. CASE RemovalsDeferred
  <2>1. PICK o \in {"Done", "Skipped", "Failed"} : RemovalOutcome(o)
    BY <1>3 DEF RemovalsDeferred
  <2>2. faults' \in 0..MaxFaults
    BY <1>3, FaultType DEF RemovalsDeferred
  <2>3. q' \in Queues /\ excused' \subseteq Files /\ pc' \in {"ready", "drain"}
    BY <2>1, RemovalEffect
  <2> QED
    BY <1>3, <2>2, <2>3 DEF RemovalsDeferred, TypeOK, world
<1>4. CASE Purge
  <2>1. PICK o \in {"Done", "Skipped", "Failed"} : PurgeOutcome(o)
    BY <1>4 DEF Purge
  <2>2. faults' \in 0..MaxFaults
    BY <1>4, FaultType DEF Purge
  <2>3. loc.from \in {"removals", "ready"}
    BY DEF TypeOK, Locals
  <2>4. loc.from = "removals" => RemovalOutcome(o)
    BY <2>1 DEF PurgeOutcome
  <2>5. excused \subseteq Files
    BY DEF TypeOK
  <2>6. q' \in Queues /\ excused' \subseteq Files /\ pc' \in {"ready", "drain"}
    BY <2>1, <2>3, <2>4, <2>5, RemovalEffect, ReadyPurgeEffect
  <2>7. loc' \in Locals
    BY <1>4, PurgedLocals DEF Purge
  <2>8. st' \in [Files -> Row] /\ se' \in [Files -> Row]
    BY <1>4, BlankType, StructuralType DEF Purge, TypeOK
  <2> QED
    BY <1>4, <2>2, <2>6, <2>7, <2>8 DEF Purge, TypeOK, world
<1>5. CASE ReadyStep
  BY <1>5, ReadyTypeOK
<1>11. ASSUME NEW F \in SUBSET Files, Embed(F) PROVE TypeOK'
  <2>1. q' \in Queues /\ loc' \in Locals /\ faults' \in 0..MaxFaults
    BY <1>11, EmbedEffect, DoneLocals, FaultType DEF Embed, AfterReady
  <2>2. se' \in [Files -> Row]
    BY <1>11, SemanticType DEF Embed, TypeOK
  <2> QED
    BY <1>11, <2>1, <2>2 DEF Embed, AfterReady, TypeOK, world
<1>12. CASE EmbedSkipped
  <2>1. q.pending \cup loc.stale \in SUBSET Files /\ q \in Queues
    BY DEF TypeOK, Queues, Locals
  <2>2. q' \in Queues /\ loc' \in Locals /\ faults' \in 0..MaxFaults
    BY <1>12, <2>1, PendingEffect, DoneLocals, FaultType DEF EmbedSkipped, AfterReady
  <2> QED
    BY <1>12, <2>2 DEF EmbedSkipped, AfterReady, TypeOK, world
<1>13. CASE EmbedFailed
  <2>1. loc.stale \in SUBSET Files /\ q \in Queues
    BY DEF TypeOK, Locals
  <2>2. q' \in Queues /\ loc' \in Locals /\ faults' \in 0..MaxFaults
    BY <1>13, <2>1, RequeuedEffect, DoneLocals, FaultType DEF EmbedFailed, AfterReady
  <2> QED
    BY <1>13, <2>2 DEF EmbedFailed, AfterReady, TypeOK, world
<1>14. ASSUME NEW F \in SUBSET Files, Revive(F) PROVE TypeOK'
  <2>1. q' \in Queues
    BY <1>14, ReviveEffect
  <2> QED
    BY <1>14, <2>1 DEF Revive, TypeOK, world
<1> QED
  BY <1>1, <1>2, <1>3, <1>4, <1>5, <1>11, <1>12, <1>13, <1>14 DEF FileStep, EmbedStep, EndStep

LEMMA ExitType ==
    ASSUME TypeOK, Exit, holder' \in {holder, None}, faults' \in 0..MaxFaults
    PROVE  TypeOK'
<1>1. 0 \in 0..StartupTries /\ <<>> \in Seq(Events) /\ Len(<<>>) <= QueueCapacity
  BY WatcherAssumption
<1>2. NoRefresh \in [reload : BOOLEAN, reconciling : BOOLEAN]
  BY DEF NoRefresh
<1> QED
  BY <1>1, <1>2, NoWorkType, NoLocalsType DEF Exit, TypeOK

LEMMA EndTypeOK ==
    ASSUME TypeOK, Continue \/ IdleExit \/ Die \/ Shutdown \/ ShutdownDone
    PROVE  TypeOK'
<1>1. CASE Continue
  BY <1>1 DEF Continue, TypeOK, world, work
<1>2. CASE IdleExit \/ ShutdownDone
  BY <1>2, ExitType DEF IdleExit, ShutdownDone, TypeOK
<1>3. CASE Die
  <2>1. faults' \in 0..MaxFaults
    BY <1>3, FaultType DEF Die
  <2> QED
    BY <1>3, <2>1, ExitType DEF Die
<1>4. CASE Shutdown
  <2>1. faults' \in 0..MaxFaults
    BY <1>4, FaultType DEF Shutdown
  <2>2. loc' \in Locals /\ pc' \in {"purge", "ready"} /\ holder' \in {holder, "watcher"}
    BY <1>4, StopLocals
  <2> QED
    BY <1>4, <2>1, <2>2 DEF Shutdown, TypeOK, world, work
<1> QED
  BY <1>1, <1>2, <1>3, <1>4

\* The steps of the project by their kind.
EditStep == \/ \E f \in Files : Unlink(f) \/ \E c \in Contents : Save(f, c)
            \/ \E F \in SUBSET Nested, c \in Contents : MoveIn(F, c)
            \/ MoveOut
            \/ \E F \in SUBSET Ignorable : EditIgnore(F)
EndsStep == Continue \/ IdleExit \/ Die \/ Shutdown \/ ShutdownDone

LEMMA NextSteps == [Next]_vars => \/ UNCHANGED vars \/ EditStep \/ CliStep
                                  \/ HeadStep \/ PassStep \/ FileStep \/ EndsStep
<1>1. Environment => EditStep \/ CliStep
  BY IndexingStep DEF Environment, EditStep, CliStep
<1>2. Watcher => HeadStep \/ PassStep \/ FileStep \/ EndsStep
  BY DEF Watcher, HeadStep, PassStep, FileStep, EndsStep
<1> QED
  BY <1>1, <1>2 DEF Next

LEMMA NextTypeOK == TypeOK /\ [Next]_vars => TypeOK'
<1> SUFFICES ASSUME TypeOK, [Next]_vars PROVE TypeOK'
  OBVIOUS
<1>1. CASE UNCHANGED vars
  BY <1>1 DEF TypeOK, vars
<1>2. CASE EditStep \/ CliStep
  BY <1>2, EditTypeOK, CliTypeOK DEF EditStep
<1>3. CASE HeadStep \/ PassStep \/ FileStep \/ EndsStep
  BY <1>3, HeadTypeOK, PassTypeOK, FileTypeOK, EndTypeOK DEF EndsStep
<1> QED
  BY <1>1, <1>2, <1>3, NextSteps

-----------------------------------------------------------------------------
(* The lock and the locals.                                                *)

ControlInv == LockInv /\ LocalsInv /\ HandInv

\* Where the loop is when it gets to a part of its iteration.
AtRest == pc \in {"top", "reload", "retry", "removals", "drain", "revive"}

LEMMA ReachesRest ==
    ASSUME NEW p \in {"removals", "drain", "revive"}, Reaches(p)
    PROVE  AtRest /\ ~refresh.reconciling
<1>1. UpTo[p] \subseteq {"reload", "retry", "removals", "drain", "revive"}
  BY DEF UpTo
<1> QED
  BY <1>1 DEF Reaches, Polled, AtRest

LEMMA DueRest ==
    ASSUME BulkDue
    PROVE  /\ pc \in {"begin", "reload", "retry", "top"}
           /\ pc # "begin" => ~refresh.reload
  BY DEF BulkDue, Polled

\* Between the steps of reindex_one nothing is in hand.
LEMMA HandKept ==
    ASSUME HandInv, ~AtOne, ~AtOne', pc # "semantic", loc'.now = loc.now, loc'.bare = loc.bare
    PROVE  HandInv'
<1>1. loc'.now = {} /\ loc'.bare = {} /\ pc' # "gone"
  BY DEF HandInv, AtOne
<1> QED
  BY <1>1 DEF HandInv

LEMMA NoLocalsControl ==
    ASSUME loc' = NoLocals, pc' \notin {"begin", "structural", "semantic"}
    PROVE  LocalsInv' /\ HandInv'
  BY NoLocalsType DEF LocalsInv, HandInv

LEMMA HeadControl == ASSUME TypeOK, ControlInv, HeadStep PROVE ControlInv'
<1> USE DEF ControlInv
<1>1. CASE Start
  <2>1. pc = "off" /\ pc' = "starting" /\ UNCHANGED <<loc, q, refresh, holder, cli>>
    BY <1>1 DEF Start, work
  <2>2. LockInv' /\ HandInv'
    BY <2>1, HandKept DEF LockInv, AtOne
  <2> QED
    BY <2>1, <2>2 DEF LocalsInv, AtOne
<1>2. CASE Register
  <2>1. LockInv'
    BY <1>2 DEF Register, LockInv
  <2> QED
    BY <1>2, <2>1, NoLocalsControl DEF Register
<1>3. CASE Sweep
  <2>1. LockInv' /\ pc = "top" /\ UNCHANGED <<pc, loc, filter>>
    BY <1>3 DEF Sweep, LockInv
  <2>2. HandInv'
    BY <2>1, HandKept DEF AtOne
  <2> QED
    BY <2>1, <2>2 DEF LocalsInv, AtOne
<1>4. ASSUME NEW e \in Events, ReceiveIgnore(e) \/ ReceiveDirectory(e) PROVE ControlInv'
  <2>1. pc = "top" /\ pc' = "reload" /\ UNCHANGED <<loc, filter, holder, cli>>
    BY <1>4 DEF ReceiveIgnore, ReceiveDirectory, Receive
  <2>2. HandInv'
    BY <2>1, HandKept DEF AtOne
  <2> QED
    BY <2>1, <2>2 DEF LocalsInv, LockInv, AtOne
<1>5. ASSUME NEW e \in Events, ReceivePath(e) PROVE ControlInv'
  <2>1. pc = "top" /\ UNCHANGED <<filter, holder, cli>>
    BY <1>5 DEF ReceivePath, Receive
  <2>2. pc' \in {"reload", "begin", "top"} /\ (pc' = "begin" => ~refresh'.reload)
    BY <1>5 DEF ReceivePath, AfterEvent
  <2>3. KeepsFiles /\ KeepsPurge /\ KeepsHand /\ loc'.stopping = loc.stopping
    BY <1>5, BurstLocals DEF ReceivePath, AfterEvent, KeepsFiles, KeepsPurge, KeepsHand
  <2>4. LockInv'
    BY <2>1, <2>2 DEF LockInv
  <2>5. HandInv'
    BY <2>1, <2>2, <2>3, HandKept DEF AtOne, KeepsHand
  <2> QED
    BY <2>1, <2>2, <2>3, <2>4, <2>5 DEF LocalsInv, KeepsFiles, KeepsPurge, AtOne
<1>6. CASE Reload
  <2>1. pc \in {"top", "reload"} /\ pc' = "retry" /\ UNCHANGED <<loc, q, holder, cli>>
    BY <1>6 DEF Reload, Polled
  <2>2. HandInv'
    BY <2>1, HandKept DEF AtOne
  <2> QED
    BY <2>1, <2>2 DEF LocalsInv, LockInv, AtOne
<1> QED
  BY <1>1, <1>2, <1>3, <1>4, <1>5, <1>6 DEF HeadStep, ReceiveEvent

LEMMA PassControl == ASSUME TypeOK, ControlInv, PassStep PROVE ControlInv'
<1> USE DEF ControlInv
<1>0. None \notin {"watcher", "cli"} /\ holder \in {"watcher", "cli", None}
  BY WatcherAssumption DEF TypeOK
<1>1. CASE BulkBegin
  <2>1. /\ pc \in {"begin", "reload", "retry", "top"} /\ (pc # "begin" => ~refresh.reload)
        /\ pc' = "structural" /\ holder = None /\ holder' = "watcher"
        /\ UNCHANGED <<q, refresh, filter, cli>>
    BY <1>1, DueRest DEF BulkBegin, work
  <2>2. KeepsFiles /\ KeepsPurge /\ KeepsStop /\ KeepsHand
    BY <1>1, SeenLocals DEF BulkBegin
  <2>3. LockInv'
    BY <1>0, <2>1 DEF LockInv
  <2>4. HandInv'
    BY <2>1, <2>2, HandKept DEF AtOne, KeepsHand
  <2> QED
    BY <2>1, <2>2, <2>3, <2>4 DEF LocalsInv, KeepsFiles, KeepsPurge, KeepsStop, AtOne
<1>2. CASE BulkSkipped
  <2>1. /\ pc \in {"begin", "reload", "retry", "top"} /\ UNCHANGED <<holder, cli>>
        /\ pc' \in {"top", "removals"} /\ loc' = NoLocals
    BY <1>2, DueRest, BulkSkippedEffect DEF BulkSkipped
  <2>2. LockInv'
    BY <2>1 DEF LockInv
  <2> QED
    BY <2>1, <2>2, NoLocalsControl
<1>3. ASSUME NEW W \in SUBSET Files, BulkStructural(W) PROVE ControlInv'
  <2>1. pc = "structural" /\ pc' = "semantic" /\ UNCHANGED <<q, refresh, filter, holder, cli>>
    BY <1>3 DEF BulkStructural, work
  <2>2. KeepsFiles /\ KeepsPurge /\ KeepsStop /\ loc'.now = loc.now
    BY <1>3, BareLocals, BaredType DEF BulkStructural
  <2>3. LockInv'
    BY <2>1 DEF LockInv
  <2>4. HandInv'
    BY <2>1, <2>2 DEF HandInv, AtOne
  <2> QED
    BY <2>1, <2>2, <2>3, <2>4 DEF LocalsInv, KeepsFiles, KeepsPurge, KeepsStop, AtOne
<1>4. CASE BulkSemantic
  <2>1. /\ pc = "semantic" /\ holder' = None /\ UNCHANGED cli
        /\ pc' \in {"top", "removals"} /\ loc' = NoLocals
    BY <1>4, BulkDoneEffect DEF BulkSemantic
  <2>2. LockInv'
    BY <1>0, <2>1 DEF LockInv
  <2> QED
    BY <2>1, <2>2, NoLocalsControl
<1>5. ASSUME NEW F \in SUBSET Files, NEW W \in SUBSET Files, BulkFailed(F, W) PROVE ControlInv'
  <2>1. PICK B \in SUBSET Files : BulkOutcome("Failed", B)
    BY <1>5, FailedPass
  <2>2. pc' \in {"top", "removals"} /\ loc' = NoLocals
    BY <2>1, BulkFailedEffect
  <2>3. holder' = None /\ UNCHANGED cli
    BY <1>5 DEF BulkFailed
  <2>4. holder # "cli"
    BY <1>0, <1>5 DEF BulkFailed, LockInv
  <2>5. LockInv'
    BY <1>0, <2>2, <2>3, <2>4 DEF LockInv
  <2> QED
    BY <2>2, <2>5, NoLocalsControl
<1> QED
  BY <1>1, <1>2, <1>3, <1>4, <1>5 DEF PassStep, BulkWrites

\* The steps of process_ready.
LEMMA ReadyControl == ASSUME TypeOK, ControlInv, ReadyStep PROVE ControlInv'
<1> USE DEF ControlInv
<1>0. /\ None \notin {"watcher", "cli"} /\ holder \in {"watcher", "cli", None}
      /\ {} \in SUBSET Files /\ \A f \in Files : {f} \in SUBSET Files
  BY WatcherAssumption DEF TypeOK
<1>1. ASSUME NEW f \in Files, ReadyIgnored(f) \/ ReadyUnread(f) PROVE ControlInv'
  <2>1. pc = "ready" /\ UNCHANGED <<pc, refresh, filter, holder, cli>>
    BY <1>1 DEF ReadyIgnored, ReadyUnread, Take
  <2>2. q.pending \ {f} \subseteq q'.pending
    BY <1>1, SettledRest, RequeuedRest DEF ReadyIgnored, ReadyUnread
  <2>3. /\ loc'.ready = loc.ready \ {f} /\ loc'.stale = loc.stale
        /\ KeepsStop /\ KeepsPurge /\ KeepsHand
    BY <1>1, LeftLocals DEF ReadyIgnored, ReadyUnread
  <2>4. HandInv'
    BY <2>1, <2>3, HandKept DEF AtOne, KeepsHand
  <2> QED
    BY <2>1, <2>2, <2>3, <2>4 DEF LocalsInv, LockInv, KeepsStop, KeepsPurge, AtOne
<1>2. ASSUME NEW f \in Files, ReadyRead(f) PROVE ControlInv'
  <2>1. /\ pc = "ready" /\ f \in loc.ready /\ f \notin filter
        /\ pc' \in {"gone", "look"} /\ (pc' = "gone" => disk[f] = None)
        /\ UNCHANGED <<refresh, filter, holder, cli>>
    BY <1>2 DEF ReadyRead, Take
  <2>2. q'.pending = q.pending \ {f}
    BY <1>2, RestEffect DEF ReadyRead
  <2>3. /\ loc'.ready = loc.ready \ {f} /\ loc'.stale = loc.stale
        /\ loc'.now = {f} /\ loc'.text = disk[f] /\ loc'.bare = loc.bare
        /\ KeepsStop /\ KeepsPurge
    BY <1>2, ReadLocals DEF ReadyRead
  <2>4. LockInv'
    BY <2>1 DEF LockInv
  <2>5. HandInv'
    BY <2>1, <2>3 DEF HandInv, LocalsInv, AtOne
  <2> QED
    BY <2>1, <2>2, <2>3, <2>4, <2>5 DEF LocalsInv, KeepsStop, KeepsPurge, AtOne
<1>3. ASSUME NEW f \in Files, ReadyLook(f) \/ ReadyDiffers(f) PROVE ControlInv'
  <2>1. /\ pc \in {"look", "compare"} /\ pc' \in {"compare", "index"}
        /\ UNCHANGED <<refresh, filter, holder, cli, q>>
    BY <1>3 DEF ReadyLook, ReadyDiffers, AtFile
  <2>2. KeepsStop /\ KeepsFiles /\ KeepsPurge /\ KeepsHand
    <3>1. CASE UNCHANGED loc
      BY <3>1 DEF KeepsStop, KeepsFiles, KeepsPurge, KeepsHand
    <3>2. CASE ReadyLook(f)
      <4>1. PICK b \in BOOLEAN : loc' = [loc EXCEPT !.old = b]
        BY <3>2 DEF ReadyLook
      <4> QED
        BY <4>1, OldLocals
    <3> QED
      BY <1>3, <3>1, <3>2 DEF ReadyDiffers
  <2>3. LockInv'
    BY <2>1 DEF LockInv
  <2>4. HandInv'
    BY <2>1, <2>2 DEF HandInv, AtOne, KeepsFiles, KeepsHand
  <2>5. Owed' = Owed
    BY <2>1, OwedSame
  <2> QED
    BY <2>1, <2>2, <2>3, <2>4, <2>5 DEF LocalsInv, KeepsStop, KeepsFiles, KeepsPurge, AtOne
<1>4. ASSUME NEW f \in Files,
             ReadyFresh(f) \/ ReadyIndex(f) \/ ReadySkipped(f) \/ ReadyFailed(f)
      PROVE  ControlInv'
  <2>1. /\ AtOne /\ pc \notin {"off", "ready", "purge", "structural", "semantic"}
        /\ f \in loc.now /\ UNCHANGED <<refresh, filter, holder, cli>>
    BY <1>4 DEF ReadyFresh, ReadyIndex, ReadySkipped, ReadyFailed, AtFile, AtOne
  <2>2. q.pending \ {f} \subseteq q'.pending
    BY <1>4, SettledOne, WaitingOne, RequeuedOne
    DEF ReadyFresh, ReadyIndex, ReadySkipped, ReadyFailed
  <2>3. PICK F \in SUBSET Files : Returns(F) /\ F \subseteq {f}
    BY <1>0, <1>4 DEF ReadyFresh, ReadyIndex, ReadySkipped, ReadyFailed
  <2>4. /\ loc'.ready = loc.ready /\ loc'.stale = loc.stale \cup F
        /\ loc'.now = {} /\ loc'.bare = loc.bare /\ KeepsStop /\ KeepsPurge /\ pc' = "ready"
    BY <2>3, ReturnLocals
  <2>5. LockInv'
    BY <2>1, <2>4 DEF LockInv
  <2>6. HandInv'
    BY <2>1, <2>4 DEF HandInv, AtOne
  <2>7. f \notin loc.ready /\ f \notin filter
    BY <2>1 DEF HandInv
  <2> QED
    BY <2>1, <2>2, <2>3, <2>4, <2>5, <2>6, <2>7 DEF LocalsInv, KeepsStop, KeepsPurge
<1>5. ASSUME NEW f \in Files, ReadyPurge(f) PROVE ControlInv'
  <2>1. /\ pc = "gone" /\ pc' = "purge" /\ holder = None /\ holder' = "watcher"
        /\ f \in loc.now /\ UNCHANGED <<refresh, filter, cli, q>>
    BY <1>5 DEF ReadyPurge, AtFile
  <2>2. /\ loc'.now = {} /\ loc'.bare = loc.bare
        /\ loc'.purge = {f} /\ loc'.from = "ready" /\ KeepsStop /\ KeepsFiles
    BY <1>5, PurgeOneLocals DEF ReadyPurge
  <2>3. LockInv'
    BY <1>0, <2>1 DEF LockInv
  <2>4. HandInv'
    BY <2>1, <2>2 DEF HandInv, AtOne
  <2>5. f \notin loc.ready \cup loc.stale
    BY <2>1 DEF HandInv
  <2> QED
    BY <2>1, <2>2, <2>3, <2>4, <2>5 DEF LocalsInv, KeepsStop, KeepsFiles, AtOne
<1> QED
  BY <1>1, <1>2, <1>3, <1>4, <1>5 DEF ReadyStep

LEMMA FileControl == ASSUME TypeOK, ControlInv, FileStep PROVE ControlInv'
<1> USE DEF ControlInv
<1>0. None \notin {"watcher", "cli"} /\ holder \in {"watcher", "cli", None}
  BY WatcherAssumption DEF TypeOK
<1>1. ASSUME NEW F \in SUBSET Files, DrainBegin(F) PROVE ControlInv'
  <2>1. /\ AtRest /\ pc' = "ready" /\ F \subseteq q.pending
        /\ UNCHANGED <<q, refresh, filter, holder, cli>>
    BY <1>1, ReachesRest DEF DrainBegin, work
  <2>2. loc'.ready = F /\ loc'.stale = loc.stale /\ KeepsStop /\ KeepsPurge /\ KeepsHand
    BY <1>1, ReadyLocals DEF DrainBegin
  <2>3. LockInv'
    BY <2>1 DEF LockInv, AtRest
  <2>4. HandInv'
    BY <2>1, <2>2, HandKept DEF AtOne, AtRest, KeepsHand
  <2> QED
    BY <2>1, <2>2, <2>3, <2>4 DEF LocalsInv, KeepsStop, KeepsPurge, AtRest, AtOne
<1>2. CASE RemovalsBegin
  <2>1. /\ AtRest /\ pc' = "purge" /\ holder = None /\ holder' = "watcher"
        /\ UNCHANGED <<q, refresh, filter, cli>>
    BY <1>2, ReachesRest DEF RemovalsBegin, work
  <2>2. PICK P \in SUBSET Files : P = {f \in Owed : disk[f] = None}
    BY OwedType
  <2>3. KeepsStop /\ KeepsFiles /\ KeepsHand /\ loc'.purge = P /\ loc'.from = "removals"
    BY <1>2, <2>2, RemovalLocals DEF RemovalsBegin
  <2>4. LockInv'
    BY <1>0, <2>1 DEF LockInv
  <2>5. HandInv'
    BY <2>1, <2>3, HandKept DEF AtOne, AtRest, KeepsHand
  <2>6. Owed' = Owed
    BY <2>1, OwedSame
  <2> QED
    BY <2>1, <2>2, <2>3, <2>4, <2>5, <2>6 DEF LocalsInv, KeepsStop, KeepsFiles, AtRest, AtOne
<1>3. CASE RemovalsDeferred
  <2>1. PICK o \in {"Done", "Skipped", "Failed"} : RemovalOutcome(o)
    BY <1>3 DEF RemovalsDeferred
  <2>2. AtRest /\ UNCHANGED <<loc, refresh, filter, holder, cli>>
    BY <1>3, ReachesRest DEF RemovalsDeferred
  <2>3. q'.pending = q.pending /\ pc' = IF loc.stopping THEN "ready" ELSE "drain"
    BY <2>1, RemovalEffect
  <2>4. LockInv'
    BY <2>2, <2>3 DEF LockInv, AtRest
  <2>5. HandInv'
    BY <2>2, <2>3, HandKept DEF AtOne, AtRest
  <2> QED
    BY <2>2, <2>3, <2>4, <2>5 DEF LocalsInv, AtRest, AtOne
<1>4. CASE Purge
  <2>1. PICK o \in {"Done", "Skipped", "Failed"} : PurgeOutcome(o)
    BY <1>4 DEF Purge
  <2>2. pc = "purge" /\ holder' = None /\ UNCHANGED <<refresh, filter, cli>>
    BY <1>4 DEF Purge
  <2>3. KeepsStop /\ KeepsFiles /\ KeepsHand /\ loc'.purge = {}
    BY <1>4, PurgedLocals DEF Purge
  <2>4. loc.from = "removals" => RemovalOutcome(o)
    BY <2>1 DEF PurgeOutcome
  <2>5. CASE loc.from = "removals"
    <3>1. q'.pending = q.pending /\ pc' = IF loc.stopping THEN "ready" ELSE "drain"
      BY <2>4, <2>5, RemovalEffect
    <3>2. LockInv'
      BY <1>0, <2>2, <3>1 DEF LockInv
    <3>3. HandInv'
      BY <2>2, <2>3, <3>1, HandKept DEF AtOne, KeepsHand
    <3> QED
      BY <2>2, <2>3, <2>5, <3>1, <3>2, <3>3 DEF LocalsInv, KeepsStop, KeepsFiles, AtOne
  <2>6. CASE loc.from = "ready"
    <3>1. pc' = "ready" /\ q.pending \ loc.purge \subseteq q'.pending
      BY <2>1, <2>6, ReadyPurgeEffect
    <3>2. LockInv'
      BY <1>0, <2>2, <3>1 DEF LockInv
    <3>3. HandInv'
      BY <2>2, <2>3, <3>1, HandKept DEF AtOne, KeepsHand
    <3> QED
      BY <2>2, <2>3, <2>6, <3>1, <3>2, <3>3 DEF LocalsInv, KeepsStop, KeepsFiles, AtOne
  <2> QED
    BY <2>5, <2>6 DEF TypeOK, Locals
<1>5. CASE ReadyStep
  BY <1>5, ReadyControl
<1>6. CASE EmbedStep
  <2>1. AfterReady
    BY <1>6 DEF EmbedStep, Embed, EmbedSkipped, EmbedFailed
  <2>2. /\ pc = "ready" /\ loc.ready = {} /\ pc' = IF loc.stopping THEN "ready" ELSE "revive"
        /\ UNCHANGED <<refresh, filter, holder, cli>>
    BY <2>1 DEF AfterReady
  <2>3. loc'.ready = loc.ready /\ loc'.stale = {} /\ KeepsStop /\ KeepsPurge /\ KeepsHand
    BY <2>1, DoneLocals DEF AfterReady
  <2>4. LockInv'
    BY <2>2 DEF LockInv
  <2>5. HandInv'
    BY <2>2, <2>3, HandKept DEF AtOne, KeepsHand
  <2> QED
    BY <2>2, <2>3, <2>4, <2>5 DEF LocalsInv, KeepsStop, KeepsPurge, AtOne
<1>7. ASSUME NEW F \in SUBSET Files, Revive(F) PROVE ControlInv'
  <2>1. /\ AtRest \/ (pc = "ready" /\ loc.ready = {} /\ loc.stale = {} /\ ~loc.stopping)
        /\ pc' = "top" /\ UNCHANGED <<loc, refresh, filter, holder, cli>>
    BY <1>7, ReachesRest DEF Revive
  <2>2. LockInv'
    BY <2>1 DEF LockInv, AtRest
  <2>3. HandInv'
    BY <2>1, HandKept DEF AtOne, AtRest
  <2> QED
    BY <2>1, <2>2, <2>3 DEF LocalsInv, AtRest, AtOne
<1> QED
  BY <1>1, <1>2, <1>3, <1>4, <1>5, <1>6, <1>7 DEF FileStep, EndStep

LEMMA CliControl ==
    ASSUME TypeOK, LockInv, CliStep
    PROVE  /\ cli'.stage # "none" <=> holder' = "cli"
           /\ holder # "watcher" /\ holder' # "watcher"
<1>0. None \notin {"watcher", "cli"} /\ holder \in {"watcher", "cli", None}
  BY WatcherAssumption DEF TypeOK
<1> DEFINE Goal == /\ cli'.stage # "none" <=> holder' = "cli"
                   /\ holder # "watcher" /\ holder' # "watcher"
<1>1. ASSUME CliBegin PROVE Goal
  BY <1>0, <1>1 DEF LockInv, CliBegin
<1>2. ASSUME NEW F \in SUBSET Files, NEW W \in SUBSET Files, NEW D \in SUBSET Files,
             CliStructural(F, W, D)
      PROVE  Goal
  <2>1. holder = "cli"
    BY <1>2 DEF LockInv, CliStructural
  <2>2. CASE cli' = [cli EXCEPT !.stage = "semantic", !.seen = View] /\ UNCHANGED holder
    <3>1. cli'.stage = "semantic"
      BY <2>2 DEF TypeOK
    <3> QED
      BY <2>1, <2>2, <3>1
  <2>3. CASE CliEnd
    BY <1>0, <2>1, <2>3 DEF CliEnd, NoPass
  <2> QED
    BY <1>2, <2>2, <2>3 DEF CliStructural
<1>3. ASSUME NEW F \in SUBSET Files, NEW D \in SUBSET Files, CliSemantic(F, D) PROVE Goal
  BY <1>0, <1>3 DEF LockInv, CliSemantic, CliEnd, NoPass
<1> QED
  BY <1>1, <1>2, <1>3 DEF CliStep

LEMMA CliFrame ==
    ASSUME CliStep
    PROVE  UNCHANGED <<disk, dir, ignored, chan, lost, filter, blind, q, bulk, startup, refresh,
                       pc, loc>>
  BY DEF CliStep, CliBegin, CliStructural, CliSemantic, world, work

LEMMA EditStays == ASSUME EditStep PROVE Edit
  BY DEF EditStep, Unlink, Save, MoveIn, MoveOut, EditIgnore

LEMMA NextControl == TypeOK /\ ControlInv /\ [Next]_vars => ControlInv'
<1> SUFFICES ASSUME TypeOK, ControlInv, [Next]_vars PROVE ControlInv'
  OBVIOUS
<1>0. None \notin {"watcher", "cli"} /\ holder \in {"watcher", "cli", None}
  BY WatcherAssumption DEF TypeOK
<1>1. ASSUME UNCHANGED <<filter, q, refresh, pc, loc>> PROVE LocalsInv' /\ HandInv'
  <2>1. LocalsInv'
    BY <1>1, OwedSame DEF ControlInv, LocalsInv, AtOne
  <2>2. HandInv'
    BY <1>1 DEF ControlInv, HandInv, AtOne
  <2> QED
    BY <2>1, <2>2
<1>2. CASE UNCHANGED vars
  <2>1. LockInv'
    BY <1>2 DEF ControlInv, LockInv, vars
  <2> QED
    BY <1>1, <1>2, <2>1 DEF vars, ControlInv
<1>3. CASE EditStep
  <2>1. UNCHANGED <<holder, cli, filter, q, refresh, pc, loc>>
    BY <1>3, EditStays DEF Edit
  <2>2. LockInv'
    BY <2>1 DEF ControlInv, LockInv
  <2> QED
    BY <1>1, <2>1, <2>2 DEF ControlInv
<1>4. CASE CliStep
  <2>1. UNCHANGED <<filter, q, refresh, pc, loc>>
    BY <1>4, CliFrame
  <2>2. /\ cli'.stage # "none" <=> holder' = "cli"
        /\ holder # "watcher" /\ holder' # "watcher"
    BY <1>4, CliControl DEF ControlInv
  <2>3. LockInv'
    BY <2>1, <2>2 DEF ControlInv, LockInv
  <2> QED
    BY <1>1, <2>1, <2>3 DEF ControlInv
<1>5. CASE Continue
  <2>1. pc \in {"reload", "retry"} /\ pc' = "top" /\ UNCHANGED <<holder, cli, filter, q, refresh, loc>>
    BY <1>5 DEF Continue, work
  <2>2. HandInv'
    BY <2>1, HandKept DEF ControlInv, AtOne
  <2> QED
    BY <2>1, <2>2 DEF ControlInv, LockInv, LocalsInv, AtOne
<1>6. CASE IdleExit \/ Die \/ ShutdownDone
  <2>1. pc' = "off" /\ loc' = NoLocals /\ UNCHANGED cli
    BY <1>6 DEF IdleExit, Die, ShutdownDone, Exit
  <2>2. LocalsInv' /\ HandInv'
    BY <2>1, NoLocalsControl
  <2>3. holder' = IF holder = "watcher" THEN None ELSE holder
    BY <1>6, ReachesRest DEF IdleExit, Die, ShutdownDone, ControlInv, LockInv, AtRest
  <2> QED
    BY <1>0, <2>1, <2>2, <2>3 DEF ControlInv, LockInv
<1>7. CASE Shutdown
  <2>1. pc \in {"top", "reload"} /\ UNCHANGED <<filter, q, refresh, cli>>
    BY <1>7 DEF Shutdown, Polled, work
  <2>2. Owed' = Owed
    BY <2>1, OwedSame
  <2>3. /\ loc'.stopping /\ loc'.ready = q.pending /\ loc'.stale = loc.stale /\ KeepsHand
        /\ \/ /\ Owed # {} /\ holder = None /\ pc' = "purge" /\ holder' = "watcher"
              /\ loc'.from = "removals" /\ loc'.purge = {f \in Owed : disk[f] = None}
           \/ pc' = "ready" /\ UNCHANGED holder /\ loc'.purge = loc.purge
    BY <1>7, StopLocals DEF KeepsPurge
  <2>4. LockInv'
    BY <1>0, <2>1, <2>3 DEF ControlInv, LockInv
  <2>5. LocalsInv'
    BY <2>1, <2>2, <2>3 DEF ControlInv, LocalsInv, AtOne
  <2>6. HandInv'
    BY <2>1, <2>3, HandKept DEF ControlInv, AtOne, KeepsHand
  <2> QED
    BY <2>4, <2>5, <2>6 DEF ControlInv
<1> QED
  BY <1>2, <1>3, <1>4, <1>5, <1>6, <1>7, NextSteps, HeadControl, PassControl, FileControl
  DEF EndsStep

-----------------------------------------------------------------------------
(* What the notifications say, and the directory.                          *)

\* What the steps of process_ready leave alone.
LEMMA ReadyFrame ==
    ASSUME ReadyStep
    PROVE  UNCHANGED <<disk, dir, ignored, filter, blind, chan, lost, bulk, startup, refresh, cli>>
  BY DEF ReadyStep, ReadyIgnored, ReadyRead, ReadyUnread, ReadyLook, ReadyFresh, ReadyDiffers,
         ReadyIndex, ReadyPurge, ReadySkipped, ReadyFailed, Take, AtFile, world

LEMMA NextEvents == IInv /\ [Next]_vars => EventInv' /\ AbsentInv'
<1> SUFFICES ASSUME IInv, [Next]_vars PROVE EventInv' /\ AbsentInv'
  OBVIOUS
<1> USE DEF IInv
<1>1. /\ {"Modify", "Remove", "Rename", "Create", "Ignore"} \subseteq Kinds
      /\ Files \subseteq Paths /\ Dir \in Paths /\ Dir \notin Files /\ Nested \subseteq Files
  BY WatcherAssumption DEF Kinds, Paths
<1>2. ASSUME UNCHANGED <<disk, dir>>, Waiting' \subseteq Waiting PROVE EventInv' /\ AbsentInv'
  BY <1>2 DEF EventInv, AbsentInv
<1>3. ASSUME UNCHANGED <<disk, dir, chan>> PROVE EventInv' /\ AbsentInv'
  BY <1>2, <1>3 DEF Waiting
<1>4. ASSUME NEW k \in Kinds, NEW p \in Paths, Notify(k, p),
             IF p = Dir THEN k \in {"Create", "Rename", "Ignore"} ELSE k \in {"Modify", "Remove"}
      PROVE  EventInv'
  <2>1. PICK e \in Events : e = [kind |-> k, path |-> p]
    BY DEF Events
  <2>2. Waiting' \subseteq Waiting \cup {e}
    BY <1>4, <2>1, NotifyEffect
  <2>3. e.kind = k /\ e.path = p
    BY <2>1
  <2> QED
    BY <1>4, <2>2, <2>3 DEF EventInv
<1>5. ASSUME NEW f \in Files, Unlink(f) PROVE EventInv' /\ AbsentInv'
  <2>1. EventInv'
    BY <1>1, <1>4, <1>5 DEF Unlink
  <2>2. AbsentInv'
    BY <1>5 DEF Unlink, AbsentInv, TypeOK
  <2> QED
    BY <2>1, <2>2
<1>6. ASSUME NEW f \in Files, NEW c \in Contents, Save(f, c) PROVE EventInv' /\ AbsentInv'
  <2>1. EventInv'
    BY <1>1, <1>4, <1>6 DEF Save
  <2>2. AbsentInv'
    BY <1>6 DEF Save, AbsentInv, TypeOK
  <2> QED
    BY <2>1, <2>2
<1>7. ASSUME NEW F \in SUBSET Nested, NEW c \in Contents, MoveIn(F, c) PROVE EventInv' /\ AbsentInv'
  <2>1. EventInv'
    BY <1>1, <1>4, <1>7 DEF MoveIn
  <2>2. AbsentInv'
    BY <1>7 DEF MoveIn, AbsentInv
  <2> QED
    BY <2>1, <2>2
<1>8. CASE MoveOut
  <2>1. EventInv'
    BY <1>1, <1>4, <1>8 DEF MoveOut
  <2>2. AbsentInv'
    BY <1>1, <1>8 DEF MoveOut, AbsentInv
  <2> QED
    BY <2>1, <2>2
<1>9. ASSUME NEW F \in SUBSET Ignorable, EditIgnore(F) PROVE EventInv' /\ AbsentInv'
  <2>1. EventInv'
    BY <1>1, <1>4, <1>9 DEF EditIgnore
  <2>2. AbsentInv'
    BY <1>9 DEF EditIgnore, AbsentInv
  <2> QED
    BY <2>1, <2>2
<1>10. CASE CliStep
  BY <1>3, <1>10, CliFrame
<1>11. CASE Start
  BY <1>3, <1>11 DEF Start, world
<1>12. ASSUME chan' = <<>>, UNCHANGED disk, dir' = "absent" => dir = "absent"
       PROVE  EventInv' /\ AbsentInv'
  <2>1. Waiting' = {}
    BY <1>12 DEF Waiting
  <2> QED
    BY <1>12, <2>1 DEF EventInv, AbsentInv
<1>13. CASE Register
  BY <1>12, <1>13 DEF Register
<1>14. CASE Sweep \/ PassStep
  BY <1>3, <1>14 DEF Sweep, PassStep, BulkBegin, BulkSkipped, BulkWrites, BulkStructural,
                     BulkSemantic, BulkFailed, world
<1>15. ASSUME NEW e \in Events, ReceiveIgnore(e) \/ ReceiveDirectory(e) \/ ReceivePath(e)
       PROVE  EventInv' /\ AbsentInv'
  <2>1. Waiting' \subseteq Waiting /\ UNCHANGED disk
    BY <1>15, ReceiveEffect DEF ReceiveIgnore, ReceiveDirectory, ReceivePath, Receive
  <2>2. dir' = dir \/ dir' = "watched"
    BY <1>15 DEF ReceiveIgnore, ReceiveDirectory, ReceivePath
  <2> QED
    BY <2>1, <2>2 DEF EventInv, AbsentInv
<1>16. CASE Reload
  <2>1. UNCHANGED <<disk, chan>> /\ (dir' = dir \/ dir' = "watched")
    BY <1>16 DEF Reload
  <2> QED
    BY <2>1 DEF EventInv, AbsentInv, Waiting
<1>17. CASE (\E F \in SUBSET Files : DrainBegin(F)) \/ RemovalsBegin \/ RemovalsDeferred \/ Purge
  BY <1>3, <1>17 DEF DrainBegin, RemovalsBegin, RemovalsDeferred, Purge, world
<1>18. CASE ReadyStep
  BY <1>3, <1>18, ReadyFrame
<1>19. CASE EmbedStep \/ EndStep
  BY <1>3, <1>19 DEF EmbedStep, Embed, EmbedSkipped, EmbedFailed, AfterReady, EndStep, Revive, world
<1>20. CASE Continue \/ Shutdown
  BY <1>3, <1>20 DEF Continue, Shutdown, world
<1>21. CASE IdleExit \/ Die \/ ShutdownDone
  BY <1>12, <1>21 DEF IdleExit, Die, ShutdownDone, Exit
<1>22. CASE UNCHANGED vars
  BY <1>3, <1>22 DEF vars
<1> QED
  BY <1>5, <1>6, <1>7, <1>8, <1>9, <1>10, <1>11, <1>13, <1>14, <1>15, <1>16, <1>17, <1>18, <1>19,
     <1>20, <1>21, <1>22, NextSteps
  DEF EditStep, HeadStep, FileStep, EndsStep, ReceiveEvent

-----------------------------------------------------------------------------
(* What is owed: steps that leave the tree and the notifications alone.    *)

LEMMA ActiveFacts ==
    ASSUME IInv, Active
    PROVE  /\ TypeOK /\ LockInv /\ LocalsInv /\ HandInv /\ EventInv /\ AbsentInv
           /\ DirInv /\ FilterInv /\ PassInv /\ LookInv /\ PurgeInv /\ StaleInv /\ CoverInv
  BY DEF IInv, ActiveInv

LEMMA QuietFrame ==
    ASSUME UNCHANGED <<disk, dir, ignored, filter, blind, chan, lost>>,
           refresh.reload => refresh'.reload
    PROVE  /\ View' = View /\ Waiting' = Waiting
           /\ \A f \in Files : Ev(f)' <=> Ev(f)
           /\ \A f \in Files : Told(f) => Told(f)'
           /\ DirInv => DirInv'
           /\ FilterInv => FilterInv'
<1>1. View' = View /\ Waiting' = Waiting
  BY DEF View, Waiting
<1>2. \A f \in Files : Ev(f)' <=> Ev(f)
  BY <1>1 DEF Ev
<1>3. \A f \in Files : Told(f) => Told(f)'
  BY <1>2 DEF Told
<1>4. DirInv => DirInv'
  BY <1>1 DEF DirInv
<1>5. FilterInv => FilterInv'
  BY <1>1 DEF FilterInv
<1> QED
  BY <1>1, <1>2, <1>3, <1>4, <1>5

\* Rows written from what is there now, or was read before.
LEMMA StructuralRows ==
    ASSUME NEW seen, NEW F, NEW W, WriteStructural(seen, F, W), NEW f \in Files
    PROVE  /\ st'[f] = IF f \in F THEN seen[f] ELSE st[f]
           /\ se'[f] = IF f \in F /\ (f \in W \/ seen[f] # st[f] \/ seen[f] = None)
                      THEN None ELSE se[f]
  BY DEF WriteStructural, Disowned

\* A row that was right and is not after a structural write has been rewritten
\* although it was, or was of something else that the writer had read.
LEMMA StructuralLosses ==
    ASSUME NEW seen, NEW F \in SUBSET Files, NEW W, WriteStructural(seen, F, W), NEW f \in Files,
           NEW v, st'[f] # v \/ se'[f] # v
    PROVE  \/ st[f] # v \/ se[f] # v
           \/ f \in F /\ seen[f] # v
           \/ f \in Bared(seen, F, W)
<1>1. /\ st'[f] = IF f \in F THEN seen[f] ELSE st[f]
      /\ se'[f] = IF f \in F /\ (f \in W \/ seen[f] # st[f] \/ seen[f] = None)
                 THEN None ELSE se[f]
  BY StructuralRows
<1> QED
  BY <1>1 DEF Bared

LEMMA SemanticRows ==
    ASSUME NEW seen, NEW F, WriteSemantic(seen, F), NEW f \in Files
    PROVE  se'[f] = IF f \in F THEN seen[f] ELSE se[f]
  BY DEF WriteSemantic

\* The other process cannot add a difference that was not in its hands.
LEMMA CliActive ==
    ASSUME IInv, Active, CliStep
    PROVE  ActiveInv'
<1>1. /\ UNCHANGED <<disk, dir, ignored, filter, blind, chan, lost>>
      /\ UNCHANGED <<q, bulk, startup, refresh, pc, loc>>
  BY CliFrame
<1>2. /\ View' = View /\ \A f \in Files : Ev(f)' <=> Ev(f)
      /\ \A f \in Files : Told(f) => Told(f)'
      /\ DirInv' /\ FilterInv'
  BY <1>1, QuietFrame, ActiveFacts
<1>3. pc \notin {"structural", "semantic", "purge"}
  <2>1. TypeOK /\ LockInv
    BY ActiveFacts
  <2>2. holder # "watcher"
    BY <2>1, CliControl
  <2> QED
    BY <2>1, <2>2 DEF LockInv
<1>4. PassInv' /\ PurgeInv'
  BY <1>1, <1>3 DEF PassInv, PurgeInv, InPass
<1>5. LookInv'
  <2>1. loc.now \subseteq Files
    BY ActiveFacts DEF TypeOK, Locals
  <2> QED
    BY <1>1, <1>2, <2>1, ActiveFacts DEF LookInv
<1>6. PassOwed' <=> PassOwed
  BY <1>1 DEF PassOwed, RefreshPending
<1>7. Owed' = Owed
  BY <1>1, OwedSame
<1>8. excused \subseteq excused'
  BY DEF CliStep, CliBegin, CliStructural, CliSemantic
<1>9. \A f \in Files : Covered(f) => Covered(f)'
  BY <1>1, <1>2, <1>6, <1>7, <1>8 DEF Covered, Kept
<1>10. ASSUME NEW f \in Files, f \notin excused'
       PROVE  /\ st'[f] # View[f] \/ CliBehind(f)' => st[f] # View[f] \/ CliBehind(f)
              /\ Stale(f)' \/ CliBehind(f)' => Stale(f) \/ CliBehind(f)
  <2> DEFINE Goal == /\ st'[f] # View[f] \/ CliBehind(f)' => st[f] # View[f] \/ CliBehind(f)
                     /\ Stale(f)' \/ CliBehind(f)' => Stale(f) \/ CliBehind(f)
  <2> USE <1>2 DEF Stale, CliBehind
  <2>1. ASSUME CliBegin PROVE Goal
    BY <2>1 DEF CliBegin
  <2>2. ASSUME NEW F \in SUBSET Files, NEW W \in SUBSET Files, NEW D \in SUBSET Files,
               CliStructural(F, W, D)
        PROVE  Goal
    <3>1. f \notin D /\ f \notin Bared(cli.seen, F, W) /\ cli.stage = "structural"
      BY <1>10, <2>2 DEF CliStructural
    <3>2. /\ st'[f] = IF f \in F THEN cli.seen[f] ELSE st[f]
          /\ se'[f] = IF f \in F /\ (f \in W \/ cli.seen[f] # st[f] \/ cli.seen[f] = None)
                     THEN None ELSE se[f]
      BY <2>2, <3>1 DEF CliStructural, Disowned
    <3>3. ~CliBehind(f)'
      <4>1. CASE CliEnd
        BY <4>1 DEF CliEnd, NoPass
      <4>2. CASE cli' = [cli EXCEPT !.stage = "semantic", !.seen = View]
        <5>1. cli'.seen = View
          BY <4>2, ActiveFacts DEF TypeOK
        <5> QED
          BY <5>1
      <4> QED
        BY <2>2, <4>1, <4>2 DEF CliStructural
    <3> QED
      BY <3>1, <3>2, <3>3 DEF Bared
  <2>3. ASSUME NEW F \in SUBSET Files, NEW D \in SUBSET Files, CliSemantic(F, D) PROVE Goal
    <3>1. f \notin D /\ cli.stage = "semantic" /\ UNCHANGED st /\ cli'.stage = "none"
      BY <1>10, <2>3 DEF CliSemantic, CliEnd, NoPass
    <3>2. se'[f] = IF f \in F THEN cli.seen[f] ELSE se[f]
      BY <2>3, <3>1 DEF CliSemantic, WriteSemantic
    <3> QED
      BY <3>1, <3>2
  <2> QED
    BY <2>1, <2>2, <2>3 DEF CliStep
<1>11. CoverInv'
  <2> SUFFICES ASSUME NEW f \in Files \ blind, Stale(f)' \/ CliBehind(f)' PROVE Covered(f)'
    BY <1>1 DEF CoverInv
  <2>1. CASE f \in excused'
    BY <2>1 DEF Covered
  <2>2. CASE f \notin excused'
    BY <1>9, <1>10, <2>2, ActiveFacts DEF CoverInv
  <2> QED
    BY <2>1, <2>2
<1>12. StaleInv'
  <2>1. loc.stale \subseteq Files
    BY ActiveFacts DEF TypeOK, Locals
  <2> QED
    BY <1>1, <1>2, <1>6, <1>8, <1>10, <2>1, ActiveFacts DEF StaleInv
<1> QED
  BY <1>2, <1>4, <1>5, <1>11, <1>12 DEF ActiveInv

-----------------------------------------------------------------------------
(* What is owed: edits of the tree.                                        *)

\* Every file whose content an edit changes, or whose event it outdates, is
\* told of.
LEMMA EditFrame ==
    ASSUME IInv, Active, Edit, Waiting \subseteq Waiting', lost => lost', DirInv', FilterInv',
           \A f \in Files \ blind :
               \/ Told(f)'
               \/ /\ View'[f] = View[f] /\ (Ev(f) => Ev(f)')
                  /\ f \notin filter => disk'[f] = disk[f]
    PROVE  ActiveInv'
<1>1. /\ UNCHANGED <<st, se, holder, cli, filter, blind, q, bulk, startup, refresh, pc, loc>>
      /\ excused' = {f \in excused : View'[f] = View[f]}
  BY DEF Edit
<1>2. Owed' = Owed /\ Owed \subseteq Files
  BY <1>1, OwedSame, OwedType, ActiveFacts
<1>3. PassOwed => PassOwed'
  BY <1>1 DEF PassOwed, RefreshPending
<1>4. \A f \in Files : Told(f)' => Ev(f)' \/ PassOwed'
  BY DEF Told, PassOwed, RefreshPending
<1>5. \A f \in Files \ blind : Told(f) => Told(f)'
  BY <1>1 DEF Told
<1>6. loc.stale \subseteq Files /\ loc.purge \subseteq Files /\ loc.now \subseteq Files
  BY ActiveFacts DEF TypeOK, Locals
<1>7. PassInv' /\ LookInv'
  <2>1. PassInv'
    BY <1>1, <1>5, ActiveFacts DEF PassInv, InPass
  <2>2. LookInv'
    BY <1>1, <1>5, <1>6, ActiveFacts DEF LookInv
  <2> QED
    BY <2>1, <2>2
<1>8. PurgeInv'
  <2>1. \A f \in loc.purge \ blind : pc = "purge" /\ View'[f] # None => Told(f)'
    BY <1>5, <1>6, ActiveFacts DEF PurgeInv
  <2>2. \A f \in ((Owed \ loc.purge) \ filter) \ blind :
            pc = "purge" /\ loc.from = "removals" /\ disk'[f] = None => Told(f)'
    BY <1>2, <1>5, ActiveFacts DEF PurgeInv
  <2> QED
    BY <1>1, <1>2, <2>1, <2>2 DEF PurgeInv
<1>9. StaleInv'
  <2> SUFFICES ASSUME NEW f \in loc.stale \ blind, st[f] # View'[f] \/ CliBehind(f)', ~Told(f)'
               PROVE  Ev(f)' \/ PassOwed' \/ f \in excused'
    BY <1>1, <1>4, <1>6 DEF StaleInv
  <2>1. View'[f] = View[f] /\ (Ev(f) => Ev(f)')
    BY <1>6
  <2>2. Ev(f) \/ PassOwed \/ f \in excused
    BY <1>1, <2>1, ActiveFacts DEF StaleInv, CliBehind
  <2> QED
    BY <1>1, <1>3, <2>1, <2>2
<1>10. CoverInv'
  <2> SUFFICES ASSUME NEW f \in Files \ blind, Stale(f)' \/ CliBehind(f)', ~Told(f)'
               PROVE  Covered(f)'
    BY <1>1, <1>4 DEF CoverInv, Covered
  <2>1. Stale(f) \/ CliBehind(f)
    BY <1>1 DEF Stale, CliBehind
  <2>2. Covered(f)
    BY <2>1, ActiveFacts DEF CoverInv
  <2>3. Kept(f) => Kept(f)'
    BY <1>1, <1>2 DEF Kept
  <2> QED
    BY <1>1, <1>3, <2>2, <2>3 DEF Covered
<1> QED
  BY <1>7, <1>8, <1>9, <1>10 DEF ActiveInv

\* One file is saved or deleted.
LEMMA FileEdited ==
    ASSUME IInv, Active, Edit, NEW f \in Files, NEW k \in {"Modify", "Remove"}, NEW c \in Row,
           disk' = [disk EXCEPT ![f] = c], k = "Modify" \/ c = None,
           f \in Nested => dir # "absent",
           Notify(k, f), UNCHANGED <<dir, ignored>>
    PROVE  ActiveInv'
<1>1. /\ k \in Kinds /\ f \in Paths /\ f # Dir /\ TypeOK
  BY WatcherAssumption, ActiveFacts DEF Kinds, Paths
<1>2. UNCHANGED <<refresh, filter, blind>> /\ disk \in [Files -> Row] /\ f \notin {Dir}
  BY <1>1 DEF Edit, TypeOK
<1>3. PICK e : e = [kind |-> k, path |-> f]
  OBVIOUS
<1>4. e.kind = k /\ e.path = f
  BY <1>3
<1>5. \/ Waiting' = Waiting \cup {e} /\ lost' = lost
      \/ Waiting' = Waiting /\ lost'
      \/ Waiting' = Waiting /\ lost' = lost /\ f \in Nested /\ dir # "watched"
  BY <1>1, <1>3, NotifyEffect DEF Active
<1>6. Waiting \subseteq Waiting' /\ (lost => lost')
  BY <1>5
<1>7. DirInv'
  BY <1>2, <1>6, ActiveFacts DEF DirInv
<1>8. FilterInv'
  BY <1>2, <1>6, ActiveFacts DEF FilterInv
<1>9. \A g \in Files \ {f} :
          View'[g] = View[g] /\ (Ev(g) => Ev(g)') /\ disk'[g] = disk[g]
  BY <1>2, <1>6 DEF View, Ev
<1>10. ASSUME f \notin blind
       PROVE  \/ Told(f)'
              \/ View'[f] = View[f] /\ (Ev(f) => Ev(f)') /\ f \in filter
  <2>1. CASE f \in filter /\ f \in ignored
    BY <1>2, <1>6, <2>1 DEF View, Ev
  <2>2. CASE f \in filter /\ f \notin ignored
    <3>1. lost \/ refresh.reload \/ \E x \in Waiting : x.kind = "Ignore"
      BY <1>10, <2>2, ActiveFacts DEF FilterInv
    <3> QED
      BY <1>2, <1>6, <3>1 DEF Told, Ev
  <2>3. CASE f \notin filter /\ Waiting' = Waiting \cup {e}
    <3>1. e \in Waiting' /\ e.path = f /\ (e.kind = "Modify" \/ disk'[f] = None)
      BY <1>2, <1>4, <2>3
    <3> QED
      BY <1>2, <2>3, <3>1 DEF Told, Ev
  <2>4. CASE lost'
    BY <2>4 DEF Told
  <2>5. CASE f \notin filter /\ f \in Nested /\ dir # "watched"
    <3>1. dir = "unwatched"
      BY <1>1, <2>5 DEF TypeOK
    <3>2. lost \/ refresh.reload \/ \E x \in Waiting : x.path = Dir
      BY <3>1, ActiveFacts DEF DirInv
    <3> QED
      BY <1>2, <1>6, <2>5, <3>1, <3>2 DEF Told, Ev
  <2> QED
    BY <1>5, <2>1, <2>2, <2>3, <2>4, <2>5
<1> QED
  BY <1>6, <1>7, <1>8, <1>9, <1>10, EditFrame

\* The directory arrives or leaves.
LEMMA DirEdited ==
    ASSUME IInv, Active, Edit, NEW k \in {"Create", "Rename"},
           \A f \in Files \ Nested : disk'[f] = disk[f],
           dir' \in {"absent", "unwatched"}, dir' = "absent" => k = "Rename",
           Notify(k, Dir), UNCHANGED ignored
    PROVE  ActiveInv'
<1>1. /\ k \in Kinds /\ Dir \in Paths /\ Dir \notin Nested /\ TypeOK
  BY WatcherAssumption, ActiveFacts DEF Kinds, Paths
<1>2. UNCHANGED <<refresh, filter, blind>>
  BY DEF Edit
<1>3. PICK e : e = [kind |-> k, path |-> Dir]
  OBVIOUS
<1>4. e.kind = k /\ e.path = Dir
  BY <1>3
<1>5. \/ Waiting' = Waiting \cup {e} /\ lost' = lost
      \/ Waiting' = Waiting /\ lost'
  BY <1>1, <1>3, NotifyEffect DEF Active
<1>6. Waiting \subseteq Waiting' /\ (lost => lost')
  BY <1>5
<1>7. DirInv'
  BY <1>4, <1>5 DEF DirInv
<1>8. FilterInv'
  BY <1>2, <1>6, ActiveFacts DEF FilterInv
<1>9. \A f \in Files \ Nested :
          View'[f] = View[f] /\ (Ev(f) => Ev(f)') /\ disk'[f] = disk[f]
  BY <1>2, <1>6 DEF View, Ev
<1>10. ASSUME NEW f \in Nested, f \in Files \ blind
       PROVE  Told(f)' \/ (View'[f] = View[f] /\ (Ev(f) => Ev(f)') /\ f \in filter)
  <2>1. CASE f \in filter /\ f \in ignored
    BY <1>2, <1>6, <1>10, <2>1 DEF View, Ev
  <2>2. CASE f \in filter /\ f \notin ignored
    <3>1. lost \/ refresh.reload \/ \E x \in Waiting : x.kind = "Ignore"
      BY <1>10, <2>2, ActiveFacts DEF FilterInv
    <3> QED
      BY <1>2, <1>6, <3>1 DEF Told, Ev
  <2>3. CASE f \notin filter /\ Waiting' = Waiting \cup {e}
    <3>1. e \in Waiting' /\ e.path = Dir /\ f \in Nested /\ (dir' # "absent" \/ e.kind = "Rename")
      BY <1>4, <2>3
    <3> QED
      BY <1>2, <2>3, <3>1 DEF Told, Ev
  <2>4. CASE lost'
    BY <2>4 DEF Told
  <2> QED
    BY <1>5, <2>1, <2>2, <2>3, <2>4
<1> QED
  BY <1>6, <1>7, <1>8, <1>9, <1>10, EditFrame

LEMMA EditActive ==
    ASSUME IInv, Active, EditStep
    PROVE  ActiveInv'
<1>1. Nested \subseteq Files /\ None \in Row /\ Contents \subseteq Row
  BY WatcherAssumption DEF Row
<1>2. ASSUME NEW f \in Files, Unlink(f) PROVE ActiveInv'
  <2>1. f \in Nested => dir # "absent"
    BY <1>2, ActiveFacts DEF Unlink, AbsentInv
  <2> QED
    BY <1>1, <1>2, <2>1, FileEdited DEF Unlink
<1>3. ASSUME NEW f \in Files, NEW c \in Contents, Save(f, c) PROVE ActiveInv'
  BY <1>1, <1>3, FileEdited DEF Save
<1>4. ASSUME NEW F \in SUBSET Nested, NEW c \in Contents, MoveIn(F, c) PROVE ActiveInv'
  BY <1>4, DirEdited DEF MoveIn
<1>5. CASE MoveOut
  BY <1>5, DirEdited DEF MoveOut
<1>6. ASSUME NEW F \in SUBSET Ignorable, EditIgnore(F) PROVE ActiveInv'
  <2>1. "Ignore" \in Kinds /\ Dir \in Paths /\ Dir \notin Nested /\ TypeOK
    BY WatcherAssumption, ActiveFacts DEF Kinds, Paths
  <2>2. PICK e : e = [kind |-> "Ignore", path |-> Dir]
    OBVIOUS
  <2>3. /\ Waiting \subseteq Waiting' /\ (lost => lost')
        /\ lost' \/ e \in Waiting'
    BY <1>6, <2>1, <2>2, NotifyEffect DEF Active, EditIgnore
  <2>4. e.kind = "Ignore"
    BY <2>2
  <2>5. FilterInv' /\ \A f \in Files : Told(f)'
    BY <2>3, <2>4 DEF FilterInv, Told, Ev
  <2>6. Edit /\ UNCHANGED <<dir, refresh>>
    BY <1>6 DEF EditIgnore, Edit
  <2>7. DirInv'
    BY <2>3, <2>6, ActiveFacts DEF DirInv
  <2> QED
    BY <2>3, <2>5, <2>6, <2>7, EditFrame
<1> QED
  BY <1>2, <1>3, <1>4, <1>5, <1>6 DEF EditStep

-----------------------------------------------------------------------------
(* What is owed: the head of the loop.                                     *)

\* A pass over the tree that nothing makes the loop forget covers every file.
LEMMA OwedCovers ==
    ASSUME PassOwed', pc' \notin {"structural", "semantic", "purge"}, loc'.now = {},
           DirInv', FilterInv'
    PROVE  ActiveInv'
  BY DEF ActiveInv, PassInv, InPass, LookInv, PurgeInv, StaleInv, CoverInv, Covered

LEMMA ReloadCovers ==
    ASSUME refresh'.reload, pc' \notin {"structural", "semantic", "purge"}, loc'.now = {}
    PROVE  ActiveInv'
<1>1. PassOwed' /\ DirInv' /\ FilterInv'
  BY DEF PassOwed, RefreshPending, DirInv, FilterInv
<1> QED
  BY <1>1, OwedCovers

LEMMA RegisterActive == ASSUME TypeOK, Register PROVE ActiveInv'
<1>1. pc' = "top" /\ loc' = NoLocals /\ FilterInv' /\ DirInv'
  BY DEF Register, FilterInv, DirInv
<1>2. PassOwed'
  BY WatcherAssumption DEF Register, PassOwed
<1> QED
  BY <1>1, <1>2, OwedCovers, NoLocalsType

LEMMA ReceivePathActive ==
    ASSUME IInv, Active, NEW e \in Events, ReceivePath(e)
    PROVE  ActiveInv'
<1>1. /\ pc = "top" /\ Receive(e) /\ e.kind # "Ignore" /\ q' = Queued(e)
      /\ ~(e.path = Dir /\ e.kind \in {"Create", "Rename"} /\ dir # "absent")
      /\ UNCHANGED <<disk, dir, ignored, st, se, cli, lost, filter, blind, startup, refresh>>
      /\ UNCHANGED excused
  BY DEF ReceivePath, Receive
<1>2. /\ TypeOK /\ LocalsInv /\ HandInv /\ EventInv /\ AbsentInv
      /\ DirInv /\ FilterInv /\ CoverInv
  BY ActiveFacts
<1>3. e \in Waiting /\ Waiting' \subseteq Waiting /\ Waiting \subseteq Waiting' \cup {e}
  BY <1>1, <1>2, ReceiveEffect
<1>4. pc' \in {"reload", "begin", "top"} /\ (bulk => bulk')
  BY DEF ReceivePath, AfterEvent
<1>5. KeepsFiles /\ KeepsPurge /\ KeepsHand
  BY <1>2, BurstLocals DEF ReceivePath, AfterEvent, KeepsFiles, KeepsPurge, KeepsHand
<1>6. /\ q.pending \subseteq q'.pending /\ q'.parked = q.parked
      /\ Owed \subseteq Owed' \cup q'.pending
      /\ e.path \in Files \ filter /\ e.kind = "Modify" => e.path \in q'.pending
      /\ e.path \in Files \ filter /\ e.kind # "Modify" => e.path \in Owed'
      /\ e.path = Dir /\ Vanished(e) => Nested \subseteq Owed'
  BY <1>1, <1>2, QueuedEffect
<1>7. /\ e.path = Dir => e.kind \in {"Create", "Rename"} /\ dir = "absent"
      /\ e.path # Dir => e.kind \in {"Modify", "Remove"}
  BY <1>1, <1>2, <1>3 DEF EventInv
<1>8. DirInv'
  BY <1>1, <1>2, <1>3, <1>7 DEF DirInv
<1>9. FilterInv'
  BY <1>1, <1>2, <1>3 DEF FilterInv
<1>10. PassInv' /\ PurgeInv'
  BY <1>4 DEF PassInv, PurgeInv, InPass
<1>11. StaleInv' /\ LookInv'
  <2>1. loc'.stale = {} /\ loc'.now = {}
    BY <1>1, <1>2, <1>5 DEF LocalsInv, HandInv, KeepsFiles, KeepsHand, AtOne
  <2> QED
    BY <2>1 DEF StaleInv, LookInv
<1>12. CoverInv'
  <2> SUFFICES ASSUME NEW f \in Files \ blind, Stale(f)' \/ CliBehind(f)' PROVE Covered(f)'
    BY <1>1 DEF CoverInv
  <2>1. View' = View
    BY <1>1 DEF View
  <2>2. Covered(f)
    BY <1>1, <1>2, <2>1 DEF CoverInv, Stale, CliBehind
  <2>3. PassOwed => PassOwed'
    BY <1>1, <1>4 DEF PassOwed, RefreshPending
  <2>4. Kept(f) => Kept(f)'
    BY <1>1, <1>5, <1>6 DEF Kept, KeepsFiles, KeepsPurge, KeepsHand
  <2>5. ASSUME Ev(f) PROVE Ev(f)' \/ Kept(f)'
    <3>1. PICK x \in Waiting :
              \/ x.kind = "Ignore"
              \/ /\ f \notin filter
                 /\ \/ x.path = f /\ (x.kind = "Modify" \/ disk[f] = None)
                    \/ x.path = Dir /\ f \in Nested /\ (dir # "absent" \/ x.kind = "Rename")
      BY <2>5 DEF Ev
    <3>2. CASE x \in Waiting'
      BY <1>1, <3>1, <3>2 DEF Ev
    <3>3. CASE x = e
      <4>1. f \notin filter
        BY <1>1, <3>1, <3>3
      <4>2. CASE e.path = f
        <5>1. f # Dir
          BY WatcherAssumption
        <5>2. e.kind = "Modify" \/ disk[f] = None
          BY <1>1, <3>1, <3>3, <4>2, <5>1
        <5>3. f \in q'.pending \/ (disk[f] = None /\ f \in Owed')
          BY <1>6, <4>1, <4>2, <5>2
        <5> QED
          BY <1>1, <4>1, <5>3 DEF Kept
      <4>3. CASE e.path = Dir /\ f \in Nested
        <5>1. e.kind = "Rename" /\ dir = "absent"
          BY <1>7, <3>1, <3>3, <4>3, <1>1, WatcherAssumption
        <5>2. Dir \notin filter
          BY <1>2, WatcherAssumption DEF TypeOK
        <5>3. f \in Owed' /\ disk[f] = None
          BY <1>2, <1>6, <4>3, <5>1, <5>2 DEF Vanished, AbsentInv
        <5> QED
          BY <1>1, <4>1, <5>3 DEF Kept
      <4> QED
        BY <1>1, <3>1, <3>3, <4>2, <4>3
    <3> QED
      BY <1>3, <3>2, <3>3
  <2> QED
    BY <1>1, <1>5, <2>2, <2>3, <2>4, <2>5 DEF Covered, KeepsHand
<1> QED
  BY <1>8, <1>9, <1>10, <1>11, <1>12 DEF ActiveInv

LEMMA HeadActive ==
    ASSUME IInv, Active, Sweep \/ ReceiveEvent \/ Reload
    PROVE  ActiveInv'
<1>1. refresh \in [reload : BOOLEAN, reconciling : BOOLEAN] /\ (~AtOne => loc.now = {})
  BY ActiveFacts DEF TypeOK, HandInv
<1>2. CASE Sweep
  <2>1. refresh'.reload /\ pc = "top" /\ pc' = "top" /\ UNCHANGED loc
    BY <1>1, <1>2 DEF Sweep
  <2> QED
    BY <1>1, <2>1, ReloadCovers DEF AtOne
<1>3. ASSUME NEW e \in Events, ReceiveIgnore(e) \/ ReceiveDirectory(e) PROVE ActiveInv'
  <2>1. refresh'.reload /\ pc = "top" /\ pc' = "reload" /\ UNCHANGED loc
    BY <1>1, <1>3 DEF ReceiveIgnore, ReceiveDirectory, Receive
  <2> QED
    BY <1>1, <2>1, ReloadCovers DEF AtOne
<1>4. CASE Reload
  <2>1. pc' = "retry" /\ refresh.reload /\ loc'.now = {}
    BY <1>1, <1>4 DEF Reload, Polled, AtOne
  <2>2. CASE UNCHANGED refresh
    BY <2>1, <2>2, ReloadCovers
  <2>3. CASE /\ filter' = ignored /\ dir' = IF dir = "absent" THEN dir ELSE "watched"
             /\ refresh' = [reload |-> FALSE, reconciling |-> TRUE]
    <3>1. PassOwed'
      BY <2>3 DEF PassOwed, RefreshPending
    <3>2. UNCHANGED ignored
      BY <1>4 DEF Reload
    <3>3. FilterInv' /\ DirInv'
      BY <2>3, <3>2 DEF FilterInv, DirInv
    <3> QED
      BY <2>1, <3>1, <3>3, OwedCovers
  <2> QED
    BY <1>4, <2>2, <2>3 DEF Reload
<1> QED
  BY <1>2, <1>3, <1>4, ReceivePathActive DEF ReceiveEvent

-----------------------------------------------------------------------------
(* What is owed: the passes over the tree.                                 *)

\* A step that has no per-file work in hand and leaves the queues alone keeps
\* what they hold.
LEMMA KeptQueues ==
    ASSUME LocalsInv, HandInv, pc \notin {"ready", "purge"}, ~AtOne, UNCHANGED <<disk, filter, q>>,
           NEW f \in Files
    PROVE  Kept(f) => Kept(f)'
<1>1. loc.ready = {} /\ loc.stale = {} /\ loc.purge = {} /\ loc.now = {}
  BY DEF LocalsInv, HandInv
<1>2. Owed' = Owed
  BY OwedSame
<1> QED
  BY <1>1, <1>2 DEF Kept

\* A step that is between two of them has none to forget.
LEMMA NothingInHand ==
    ASSUME loc'.stale = {}, loc'.now = {}, pc' # "purge"
    PROVE  LookInv' /\ PurgeInv' /\ StaleInv'
  BY DEF LookInv, PurgeInv, StaleInv

LEMMA PassBegins ==
    ASSUME IInv, Active, BulkBegin
    PROVE  ActiveInv'
<1>1. /\ pc \in {"begin", "reload", "retry", "top"} /\ pc' = "structural"
      /\ UNCHANGED <<disk, dir, ignored, filter, blind, chan, lost>>
      /\ UNCHANGED <<st, se, cli, q, bulk, startup, refresh, excused>>
  BY DueRest DEF BulkBegin, world, work
<1>2. TypeOK /\ LocalsInv /\ HandInv /\ CoverInv
  BY ActiveFacts
<1>3. /\ View' = View /\ DirInv' /\ FilterInv'
      /\ \A f \in Files : Ev(f)' <=> Ev(f)
  BY <1>1, QuietFrame, ActiveFacts
<1>4. loc'.seen = View /\ KeepsFiles /\ KeepsHand
  BY <1>2, SeenLocals DEF BulkBegin
<1>5. loc'.stale = {} /\ loc'.now = {} /\ loc.bare = {} /\ ~AtOne
  BY <1>1, <1>2, <1>4 DEF LocalsInv, HandInv, KeepsFiles, KeepsHand, AtOne
<1>6. LookInv' /\ PurgeInv' /\ StaleInv'
  BY <1>1, <1>5, NothingInHand
<1>7. PassInv'
  BY <1>1, <1>3, <1>4 DEF PassInv
<1>8. \A f \in Files : Covered(f) => Covered(f)'
  BY <1>1, <1>2, <1>3, <1>5, KeptQueues DEF Covered, PassOwed, RefreshPending
<1>9. CoverInv'
  BY <1>1, <1>2, <1>3, <1>8 DEF CoverInv, Stale, CliBehind
<1> QED
  BY <1>3, <1>6, <1>7, <1>9 DEF ActiveInv

LEMMA PassSkipped ==
    ASSUME IInv, Active, BulkSkipped
    PROVE  ActiveInv'
<1>1. /\ pc \in {"begin", "reload", "retry", "top"}
      /\ UNCHANGED <<disk, dir, ignored, filter, blind, chan, lost, st, se, cli>>
  BY DueRest DEF BulkSkipped, world
<1>2. TypeOK /\ LocalsInv /\ HandInv /\ CoverInv
  BY ActiveFacts
<1>3. /\ UNCHANGED <<refresh, q, excused, startup>>
      /\ bulk' = TRUE /\ loc' = NoLocals /\ pc' \in {"top", "removals"}
  BY <1>2, BulkSkippedEffect DEF BulkSkipped
<1>4. /\ View' = View /\ DirInv' /\ FilterInv'
      /\ \A f \in Files : Ev(f)' <=> Ev(f)
  BY <1>1, <1>3, QuietFrame, ActiveFacts
<1>5. LookInv' /\ PurgeInv' /\ StaleInv' /\ PassInv'
  BY <1>3, NoLocalsType, NothingInHand DEF PassInv, InPass
<1>6. loc.bare = {} /\ ~AtOne
  BY <1>1, <1>2 DEF HandInv, AtOne
<1>7. \A f \in Files : Covered(f) => Covered(f)'
  BY <1>1, <1>2, <1>3, <1>4, <1>6, KeptQueues DEF Covered, PassOwed, RefreshPending
<1>8. CoverInv'
  BY <1>1, <1>2, <1>4, <1>7 DEF CoverInv, Stale, CliBehind
<1> QED
  BY <1>4, <1>5, <1>8 DEF ActiveInv

\* The structural half of a pass has written what it had read; the semantic
\* half reads again.
LEMMA PassWrites ==
    ASSUME IInv, Active, NEW W \in SUBSET Files, BulkStructural(W)
    PROVE  ActiveInv'
<1>1. /\ pc = "structural" /\ pc' = "semantic" /\ WriteStructural(loc.seen, Files, W)
      /\ UNCHANGED <<disk, dir, ignored, filter, blind, chan, lost>>
      /\ UNCHANGED <<cli, q, bulk, startup, refresh, excused>>
  BY DEF BulkStructural, world, work
<1>2. TypeOK /\ LockInv /\ LocalsInv /\ HandInv /\ PassInv /\ CoverInv
  BY ActiveFacts
<1>3. /\ View' = View /\ DirInv' /\ FilterInv'
      /\ \A f \in Files : Ev(f)' <=> Ev(f)
      /\ \A f \in Files : Told(f) => Told(f)'
  BY <1>1, QuietFrame, ActiveFacts
<1>4. /\ loc'.seen = View /\ KeepsFiles /\ loc'.now = loc.now
      /\ loc'.bare = Bared(loc.seen, Files, W)
  BY <1>2, BareLocals, BaredType DEF BulkStructural
<1>5. \A f \in Files \ blind : loc.seen[f] # View[f] => Told(f)
  BY <1>1, <1>2 DEF PassInv, InPass
<1>6. \A f \in Files : st'[f] # View[f] => loc.seen[f] # View[f]
  BY <1>1, StructuralRows
<1>7. PassInv'
  BY <1>1, <1>3, <1>4, <1>5, <1>6 DEF PassInv
<1>8. loc'.stale = {} /\ loc'.now = {} /\ loc.bare = {} /\ ~AtOne
  BY <1>1, <1>2, <1>4 DEF LocalsInv, HandInv, KeepsFiles, AtOne
<1>9. LookInv' /\ PurgeInv' /\ StaleInv'
  BY <1>1, <1>8, NothingInHand
<1>10. CoverInv'
  <2> SUFFICES ASSUME NEW f \in Files \ blind, Stale(f)' \/ CliBehind(f)' PROVE Covered(f)'
    BY <1>1 DEF CoverInv
  <2>1. Covered(f) => Covered(f)'
    BY <1>1, <1>2, <1>3, <1>8, KeptQueues DEF Covered, PassOwed, RefreshPending
  <2>2. cli.stage = "none"
    <3>1. holder = "watcher"
      BY <1>1, <1>2 DEF LockInv
    <3> QED
      BY <1>2, <3>1 DEF LockInv
  <2>3. st'[f] # View[f] \/ se'[f] # View[f]
    BY <1>1, <1>3, <2>2 DEF Stale, CliBehind
  <2>4. Stale(f) \/ loc.seen[f] # View[f] \/ f \in loc'.bare
    <3>1. Files \in SUBSET Files
      OBVIOUS
    <3>2. PICK v : v = View[f]
      OBVIOUS
    <3>3. \/ st[f] # v \/ se[f] # v \/ loc.seen[f] # v
          \/ f \in Bared(loc.seen, Files, W)
      BY <1>1, <2>3, <3>1, <3>2, StructuralLosses
    <3> QED
      BY <1>4, <3>2, <3>3 DEF Stale
  <2>5. CASE loc.seen[f] # View[f]
    BY <1>3, <1>5, <2>5 DEF Told, Covered, PassOwed, RefreshPending
  <2>6. CASE f \in loc'.bare
    BY <2>6 DEF Covered
  <2> QED
    BY <1>2, <2>1, <2>4, <2>5, <2>6 DEF CoverInv
<1> QED
  BY <1>3, <1>7, <1>9, <1>10 DEF ActiveInv

LEMMA PassDone ==
    ASSUME IInv, Active, BulkSemantic
    PROVE  ActiveInv'
<1>1. /\ pc = "semantic" /\ WriteSemantic(loc.seen, Files)
      /\ UNCHANGED <<disk, dir, ignored, filter, blind, chan, lost, st, cli>>
  BY DEF BulkSemantic, world
<1>2. TypeOK /\ LockInv /\ LocalsInv /\ PassInv
  BY ActiveFacts
<1>3. loc' = NoLocals /\ pc' \in {"top", "removals"}
  BY <1>2, BulkDoneEffect DEF BulkSemantic
<1>4. ~refresh.reload
  BY <1>1, <1>2 DEF LocalsInv
<1>5. /\ View' = View /\ DirInv' /\ FilterInv'
      /\ \A f \in Files : Ev(f)' <=> Ev(f)
  BY <1>1, <1>4, QuietFrame, ActiveFacts
<1>6. LookInv' /\ PurgeInv' /\ StaleInv' /\ PassInv'
  BY <1>3, NoLocalsType, NothingInHand DEF PassInv, InPass
<1>7. CoverInv'
  <2> SUFFICES ASSUME NEW f \in Files \ blind, Stale(f)' \/ CliBehind(f)' PROVE Covered(f)'
    BY <1>1 DEF CoverInv
  <2>1. cli.stage = "none"
    <3>1. holder = "watcher"
      BY <1>1, <1>2 DEF LockInv
    <3> QED
      BY <1>2, <3>1 DEF LockInv
  <2>2. st[f] # View[f] \/ loc.seen[f] # View[f]
    BY <1>1, <1>5, <2>1, SemanticRows DEF Stale, CliBehind
  <2>3. Told(f)
    BY <1>1, <1>2, <2>2 DEF PassInv, InPass
  <2>4. Ev(f)' \/ lost'
    BY <1>1, <1>4, <1>5, <2>3 DEF Told
  <2> QED
    BY <2>4 DEF Covered, PassOwed
<1> QED
  BY <1>5, <1>6, <1>7 DEF ActiveInv

\* A failed pass leaves rows of what was there or of what it had read, and
\* excuses the files it has rewritten.
LEMMA PassFails ==
    ASSUME IInv, Active, NEW F \in SUBSET Files, NEW W \in SUBSET Files, BulkFailed(F, W)
    PROVE  ActiveInv'
<1>1. UNCHANGED <<disk, dir, ignored, filter, blind, chan, lost, cli>>
  BY DEF BulkFailed, world
<1>2. TypeOK /\ LockInv /\ LocalsInv /\ HandInv /\ PassInv /\ CoverInv
  BY ActiveFacts
<1>3. PICK B \in SUBSET Files :
          /\ BulkOutcome("Failed", B)
          /\ \/ BulkDue /\ holder = None /\ UNCHANGED <<st, se>>
             \/ /\ pc = "structural" /\ WriteStructural(loc.seen, F, W)
                /\ B = Bared(loc.seen, F, W)
             \/ /\ pc = "semantic" /\ WriteSemantic(loc.seen, F) /\ UNCHANGED st
                /\ B = loc.bare \ F
  BY <1>2, FailedPass
<1>4. /\ UNCHANGED <<refresh, q>> /\ loc' = NoLocals /\ pc' \in {"top", "removals"}
      /\ excused \subseteq excused'
      /\ \/ bulk' /\ startup' < StartupTries
         \/ refresh.reconciling
         \/ StaleNext \subseteq excused'
         \/ B \subseteq excused' /\ startup = StartupTries
  BY <1>2, <1>3, BulkFailedEffect
<1>5. /\ View' = View /\ DirInv' /\ FilterInv'
      /\ \A f \in Files : Ev(f)' <=> Ev(f)
  BY <1>1, <1>4, QuietFrame, ActiveFacts
<1>6. pc \in {"begin", "reload", "retry", "top", "structural", "semantic"}
  BY <1>3, DueRest
<1>7. cli.stage = "none"
  <2>1. holder # "cli"
    BY <1>2, <1>3, WatcherAssumption DEF LockInv
  <2> QED
    BY <1>2, <2>1 DEF LockInv
<1>8. LookInv' /\ PurgeInv' /\ StaleInv' /\ PassInv'
  BY <1>4, NoLocalsType, NothingInHand DEF PassInv, InPass
<1>9. CASE (bulk' /\ startup' < StartupTries) \/ refresh.reconciling
  <2>1. PassOwed'
    BY <1>4, <1>9 DEF PassOwed, RefreshPending
  <2> QED
    BY <1>4, <1>5, <2>1, OwedCovers, NoLocalsType
<1>10. ASSUME NEW f \in Files \ blind, Stale(f)' \/ CliBehind(f)'
       PROVE  f \in StaleNext /\ (st'[f] # View[f] \/ se'[f] # View[f])
  BY <1>1, <1>5, <1>7, <1>10 DEF StaleNext, Stale, CliBehind
<1>11. CASE StaleNext \subseteq excused'
  <2>1. CoverInv'
    BY <1>1, <1>10, <1>11 DEF CoverInv, Covered
  <2> QED
    BY <1>5, <1>8, <2>1 DEF ActiveInv
<1>12. CASE B \subseteq excused' /\ startup = StartupTries
  <2> SUFFICES ASSUME NEW f \in Files \ blind, Stale(f)' \/ CliBehind(f)' PROVE Covered(f)'
    BY <1>1, <1>5, <1>8 DEF ActiveInv, CoverInv
  <2>1. PassOwed => PassOwed'
    BY <1>1, <1>4, <1>12, WatcherAssumption DEF PassOwed, RefreshPending
  <2>2. Kept(f) => Kept(f)'
    BY <1>1, <1>2, <1>4, <1>6, KeptQueues DEF AtOne
  <2>3. Covered(f) /\ f \notin loc.bare => Covered(f)'
    BY <1>4, <1>5, <2>1, <2>2 DEF Covered
  <2>4. Told(f) => Covered(f)'
    BY <1>5, <2>1 DEF Told, Covered, PassOwed, RefreshPending
  <2>5. st'[f] # View[f] \/ se'[f] # View[f]
    BY <1>10
  <2>6. pc # "semantic" => loc.bare = {}
    BY <1>2 DEF HandInv
  <2>7. f \in B => Covered(f)'
    BY <1>12 DEF Covered
  <2>8. CASE BulkDue /\ holder = None /\ UNCHANGED <<st, se>>
    <3>1. Stale(f) /\ pc # "semantic"
      BY <2>5, <2>8, DueRest DEF Stale
    <3> QED
      BY <1>2, <2>3, <2>6, <3>1 DEF CoverInv
  <2>9. CASE pc = "structural" /\ WriteStructural(loc.seen, F, W) /\ B = Bared(loc.seen, F, W)
    <3>1. Stale(f) \/ loc.seen[f] # View[f] \/ f \in B
      BY <2>5, <2>9, StructuralLosses DEF Stale
    <3>2. Stale(f) => Covered(f)'
      BY <1>2, <2>3, <2>6, <2>9 DEF CoverInv
    <3>3. loc.seen[f] # View[f] => Covered(f)'
      BY <1>2, <2>4, <2>9 DEF PassInv, InPass
    <3> QED
      BY <2>7, <3>1, <3>2, <3>3
  <2>10. CASE /\ pc = "semantic" /\ WriteSemantic(loc.seen, F) /\ UNCHANGED st
              /\ B = loc.bare \ F
    <3>1. se'[f] = IF f \in F THEN loc.seen[f] ELSE se[f]
      BY <2>10, SemanticRows
    <3>2. st[f] # View[f] \/ loc.seen[f] # View[f] => Covered(f)'
      BY <1>2, <2>4, <2>10 DEF PassInv, InPass
    <3>3. CASE f \notin F
      <4>1. Stale(f)
        BY <2>5, <2>10, <3>1, <3>3 DEF Stale
      <4> QED
        BY <1>2, <2>3, <2>7, <2>10, <3>3, <4>1 DEF CoverInv
    <3> QED
      BY <2>5, <2>10, <3>1, <3>2, <3>3
  <2> QED
    BY <1>3, <2>8, <2>9, <2>10
<1> QED
  BY <1>4, <1>9, <1>11, <1>12

-----------------------------------------------------------------------------
(* What is owed: removals and per-file work.                               *)

\* What the steps on files leave alone.
LEMMA FileFrame ==
    ASSUME IInv, Active,
           UNCHANGED <<disk, dir, ignored, filter, blind, chan, lost, bulk, startup, refresh>>
    PROVE  /\ View' = View /\ DirInv' /\ FilterInv'
           /\ \A f \in Files : Ev(f)' <=> Ev(f)
           /\ PassOwed' <=> PassOwed
           /\ \A f \in Files : Told(f) => Ev(f)' \/ PassOwed'
           /\ \A f \in Files : Told(f) => Told(f)'
<1>1. /\ View' = View /\ DirInv' /\ FilterInv'
      /\ \A f \in Files : Ev(f)' <=> Ev(f)
      /\ \A f \in Files : Told(f) => Told(f)'
  BY QuietFrame, ActiveFacts
<1>2. PassOwed' <=> PassOwed
  BY DEF PassOwed, RefreshPending
<1>3. \A f \in Files : Told(f) => Ev(f)' \/ PassOwed'
  BY <1>1 DEF Told, PassOwed, RefreshPending
<1> QED
  BY <1>1, <1>2, <1>3

\* What reindex_one has read is still what it was.
LEMMA LooksKept ==
    ASSUME IInv, Active,
           UNCHANGED <<disk, dir, ignored, filter, blind, chan, lost, bulk, startup, refresh>>,
           loc'.now = loc.now, loc'.text = loc.text
    PROVE  LookInv'
<1>1. View' = View /\ \A f \in Files : Told(f) => Told(f)'
  BY FileFrame
<1>2. loc.now \subseteq Files
  BY ActiveFacts DEF TypeOK, Locals
<1> QED
  BY <1>1, <1>2, ActiveFacts DEF LookInv

\* Work only moves between the queues and the hands.
LEMMA WorkMoves ==
    ASSUME IInv, Active, pc # "semantic", LookInv',
           UNCHANGED <<disk, dir, ignored, filter, blind, chan, lost, bulk, startup, refresh>>,
           UNCHANGED <<st, se, cli, excused>>, pc' \notin {"structural", "semantic", "purge"},
           loc'.stale \subseteq loc.stale,
           \A f \in Files : Kept(f) => Kept(f)'
    PROVE  ActiveInv'
<1>1. /\ View' = View /\ DirInv' /\ FilterInv'
      /\ \A f \in Files : Ev(f)' <=> Ev(f)
      /\ PassOwed' <=> PassOwed
  BY FileFrame
<1>2. loc.stale \subseteq Files /\ loc.bare = {}
  BY ActiveFacts DEF TypeOK, Locals, HandInv
<1>3. StaleInv'
  BY <1>1, <1>2, ActiveFacts DEF StaleInv, CliBehind
<1>4. CoverInv'
  BY <1>1, <1>2, ActiveFacts DEF CoverInv, Covered, Stale, CliBehind
<1>5. PassInv' /\ PurgeInv'
  BY DEF PassInv, InPass, PurgeInv
<1> QED
  BY <1>1, <1>3, <1>4, <1>5 DEF ActiveInv

LEMMA RemovalsBegins ==
    ASSUME IInv, Active, RemovalsBegin
    PROVE  ActiveInv'
<1>1. /\ AtRest /\ pc' = "purge" /\ UNCHANGED <<st, se, cli, q, excused>>
      /\ UNCHANGED <<disk, dir, ignored, filter, blind, chan, lost, bulk, startup, refresh>>
  BY ReachesRest DEF RemovalsBegin, world, work
<1>2. TypeOK /\ LocalsInv /\ HandInv /\ CoverInv
  BY ActiveFacts
<1>3. PICK P \in SUBSET Files : P = {f \in Owed : disk[f] = None}
  BY <1>2, OwedType
<1>4. KeepsFiles /\ KeepsHand /\ loc'.purge = P /\ loc'.from = "removals"
  BY <1>2, <1>3, RemovalLocals DEF RemovalsBegin
<1>5. /\ View' = View /\ DirInv' /\ FilterInv'
      /\ \A f \in Files : Ev(f)' <=> Ev(f)
      /\ PassOwed' <=> PassOwed
  BY <1>1, FileFrame
<1>6. Owed' = Owed
  BY <1>1, OwedSame
<1>7. ~AtOne /\ loc.bare = {} /\ pc \notin {"ready", "purge"}
  BY <1>1, <1>2 DEF AtOne, AtRest, HandInv
<1>8. PassInv' /\ StaleInv'
  BY <1>1, <1>2, <1>4, <1>7 DEF PassInv, InPass, StaleInv, LocalsInv, KeepsFiles
<1>9. LookInv'
  BY <1>1, <1>4, LooksKept DEF KeepsHand
<1>10. PurgeInv'
  BY <1>1, <1>3, <1>4, <1>5, <1>6 DEF PurgeInv, View
<1>11. \A f \in Files : Kept(f) => Kept(f)'
  BY <1>1, <1>2, <1>7, KeptQueues
<1>12. CoverInv'
  BY <1>1, <1>2, <1>5, <1>7, <1>11 DEF CoverInv, Covered, Stale, CliBehind
<1> QED
  BY <1>5, <1>8, <1>9, <1>10, <1>12 DEF ActiveInv

LEMMA RemovalsWait ==
    ASSUME IInv, Active, RemovalsDeferred
    PROVE  ActiveInv'
<1>1. /\ AtRest /\ UNCHANGED <<st, se, cli, loc, holder>>
      /\ UNCHANGED <<disk, dir, ignored, filter, blind, chan, lost, bulk, startup, refresh>>
  BY ReachesRest DEF RemovalsDeferred, world
<1>2. TypeOK /\ LockInv /\ LocalsInv /\ HandInv /\ CoverInv
  BY ActiveFacts
<1>3. PICK o \in {"Done", "Skipped", "Failed"} :
          /\ RemovalOutcome(o) /\ o # "Done"
          /\ o = "Failed" => holder = None
  BY DEF RemovalsDeferred
<1>4. o = "Failed" => cli.stage = "none"
  BY <1>2, <1>3, WatcherAssumption DEF LockInv
<1>5. /\ q'.pending = q.pending /\ q'.parked = q.parked /\ excused \subseteq excused'
      /\ \/ Owed' = Owed
         \/ /\ o = "Failed"
            /\ \A f \in Owed : st'[f] # View[f] \/ se'[f] # View[f] => f \in excused'
      /\ pc' = IF loc.stopping THEN "ready" ELSE "drain"
  BY <1>2, <1>3, RemovalEffect
<1>6. /\ View' = View /\ DirInv' /\ FilterInv'
      /\ \A f \in Files : Ev(f)' <=> Ev(f)
      /\ PassOwed' <=> PassOwed
  BY <1>1, FileFrame
<1>7. PassInv' /\ PurgeInv' /\ StaleInv'
  BY <1>1, <1>2, <1>5 DEF PassInv, InPass, PurgeInv, StaleInv, LocalsInv, AtRest, AtOne
<1>8. LookInv'
  BY <1>1, LooksKept
<1>9. CoverInv'
  <2> SUFFICES ASSUME NEW f \in Files \ blind, Stale(f)' \/ CliBehind(f)' PROVE Covered(f)'
    BY <1>1 DEF CoverInv
  <2>1. Covered(f)
    BY <1>1, <1>2, <1>6 DEF CoverInv, Stale, CliBehind
  <2>2. ASSUME Kept(f) PROVE Kept(f)' \/ f \in excused'
    <3>1. loc.purge = {}
      BY <1>1, <1>2 DEF LocalsInv, AtRest
    <3>2. CASE f \in q.pending \cup q.parked \cup loc.ready \cup loc.now \cup loc.stale
               \/ Owed' = Owed
      BY <1>1, <1>5, <2>2, <3>2 DEF Kept
    <3>3. CASE Owed' # Owed /\ f \in Owed
      BY <1>1, <1>4, <1>5, <1>6, <3>3 DEF Stale, CliBehind
    <3> QED
      BY <1>5, <2>2, <3>1, <3>2, <3>3 DEF Kept
  <2> QED
    BY <1>1, <1>5, <1>6, <2>1, <2>2 DEF Covered
<1> QED
  BY <1>6, <1>7, <1>8, <1>9 DEF ActiveInv

\* The rows of the files that were gone are deleted, or not.
LEMMA PurgeActive ==
    ASSUME IInv, Active, Purge
    PROVE  ActiveInv'
<1>1. /\ pc = "purge"
      /\ UNCHANGED <<disk, dir, ignored, filter, blind, chan, lost, bulk, startup, refresh, cli>>
  BY DEF Purge, world
<1>2. TypeOK /\ LockInv /\ LocalsInv /\ HandInv /\ PurgeInv /\ StaleInv /\ CoverInv
  BY ActiveFacts
<1>3. /\ loc.purge \subseteq Files /\ loc.stale \subseteq Files
      /\ loc.from \in {"removals", "ready"} /\ ~loc.stopping
  BY <1>2 DEF TypeOK, Locals, Active
<1>4. PICK o \in {"Done", "Skipped", "Failed"} :
          /\ PurgeOutcome(o)
          /\ WriteStructural(Blank, loc.purge, {}) \/ (UNCHANGED <<st, se>> /\ o # "Done")
  BY DEF Purge
<1>5. KeepsFiles /\ KeepsHand /\ loc'.purge = {}
  BY <1>2, PurgedLocals DEF Purge
<1>6. /\ View' = View /\ DirInv' /\ FilterInv'
      /\ \A f \in Files : Ev(f)' <=> Ev(f)
      /\ PassOwed' <=> PassOwed
      /\ \A f \in Files : Told(f) => Ev(f)' \/ PassOwed'
  BY <1>1, FileFrame
<1>7. cli.stage = "none"
  <2>1. holder = "watcher"
    BY <1>1, <1>2 DEF LockInv
  <2> QED
    BY <1>2, <2>1 DEF LockInv
<1>8. ASSUME NEW f \in Files
      PROVE  \/ st'[f] = st[f] /\ se'[f] = se[f] /\ (f \in loc.purge => o # "Done")
             \/ f \in loc.purge /\ st'[f] = None /\ se'[f] = None
  <2>1. Blank[f] = None
    BY DEF Blank
  <2>2. CASE WriteStructural(Blank, loc.purge, {})
    BY <2>1, <2>2, StructuralRows
  <2> QED
    BY <1>4, <2>2
<1>9. \A f \in loc.purge \ blind : View[f] # None => Told(f)
  BY <1>1, <1>2 DEF PurgeInv
<1>10. loc.bare = {} /\ loc.now = {} /\ LookInv'
  <2>1. loc.bare = {} /\ loc.now = {}
    BY <1>1, <1>2 DEF HandInv, AtOne
  <2> QED
    BY <1>1, <1>5, <2>1, LooksKept DEF KeepsHand
<1>11. ASSUME NEW f \in Files \ blind, Stale(f)' \/ CliBehind(f)', ~(Ev(f)' \/ PassOwed')
       PROVE  /\ Covered(f) /\ (f \in loc.purge => o # "Done") /\ Stale(f)'
              /\ f \in excused \/ Kept(f)
  <2>1. Stale(f)'
    BY <1>1, <1>7, <1>11 DEF CliBehind
  <2>2. f \in loc.purge => View[f] = None
    BY <1>6, <1>9, <1>11
  <2>3. st'[f] = st[f] /\ se'[f] = se[f] /\ (f \in loc.purge => o # "Done")
    BY <1>6, <1>8, <2>1, <2>2 DEF Stale
  <2>4. Covered(f)
    BY <1>2, <1>6, <2>1, <2>3 DEF CoverInv, Stale
  <2>5. f \in excused \/ Kept(f)
    BY <1>6, <1>10, <1>11, <2>4 DEF Covered
  <2> QED
    BY <2>1, <2>3, <2>4, <2>5
<1>12. CASE loc.from = "removals"
  <2>1. RemovalOutcome(o)
    BY <1>4, <1>12 DEF PurgeOutcome
  <2>2. /\ q'.pending = q.pending /\ q'.parked = q.parked /\ excused \subseteq excused'
        /\ \/ Owed' = Owed
           \/ Owed' = {} /\ o = "Done"
           \/ \A f \in Owed : st'[f] # View[f] \/ se'[f] # View[f] => f \in excused'
        /\ pc' = "drain"
    BY <1>2, <1>3, <2>1, RemovalEffect
  <2>3. loc.ready = {} /\ loc.stale = {} /\ loc.purge \subseteq Owed
    BY <1>1, <1>2, <1>3, <1>12 DEF LocalsInv
  <2>4. PassInv' /\ PurgeInv' /\ StaleInv'
    BY <1>5, <2>2, <2>3 DEF PassInv, InPass, PurgeInv, StaleInv, KeepsFiles
  <2>5. ASSUME NEW f \in Files \ blind, Stale(f)' \/ CliBehind(f)', ~(Ev(f)' \/ PassOwed')
        PROVE  Covered(f)'
    <3>1. (f \in loc.purge => o # "Done") /\ Stale(f)'
      BY <1>11, <2>5
    <3>2. f \in excused \/ Kept(f)
      BY <1>11, <2>5
    <3>3. CASE f \in excused \/ f \in q.pending \cup q.parked \/ Owed' = Owed
      BY <1>1, <1>10, <2>2, <2>3, <3>2, <3>3 DEF Covered, Kept
    <3>4. CASE Kept(f) /\ f \in Owed /\ disk[f] = None /\ o = "Done"
      <4>1. f \notin loc.purge /\ f \notin filter
        BY <3>1, <3>4 DEF Kept
      <4>2. Told(f)
        BY <1>1, <1>2, <1>12, <3>4, <4>1 DEF PurgeInv
      <4> QED
        BY <1>6, <2>5, <4>2
    <3>5. CASE f \in Owed /\ \A g \in Owed : st'[g] # View[g] \/ se'[g] # View[g] => g \in excused'
      BY <1>6, <3>1, <3>5 DEF Stale, Covered
    <3> QED
      BY <1>10, <2>2, <2>3, <3>2, <3>3, <3>4, <3>5 DEF Kept
  <2>6. CoverInv'
    BY <1>1, <2>5 DEF CoverInv, Covered
  <2> QED
    BY <1>6, <1>10, <2>4, <2>6 DEF ActiveInv
<1>13. CASE loc.from = "ready"
  <2>1. /\ Owed' = Owed /\ pc' = "ready" /\ UNCHANGED excused
        /\ q.pending \subseteq q'.pending \cup q'.parked
        /\ q.parked \ loc.purge \subseteq q'.parked
        /\ o # "Done" => loc.purge \subseteq q'.pending \cup q'.parked
    BY <1>2, <1>4, <1>13, ReadyPurgeEffect
  <2>2. loc.purge \cap (loc.ready \cup loc.stale) = {}
    BY <1>1, <1>2, <1>13 DEF LocalsInv
  <2>3. PassInv' /\ PurgeInv'
    BY <2>1 DEF PassInv, InPass, PurgeInv
  <2>4. StaleInv'
    <3> SUFFICES ASSUME NEW f \in loc.stale \ blind, st'[f] # View[f] \/ CliBehind(f)'
                 PROVE  Ev(f)' \/ PassOwed' \/ f \in excused'
      BY <1>1, <1>5, <1>6 DEF StaleInv, KeepsFiles
    <3>1. st'[f] = st[f] /\ f \in Files
      BY <1>3, <1>8, <2>2
    <3> QED
      BY <1>1, <1>2, <1>6, <1>7, <2>1, <3>1 DEF StaleInv, CliBehind
  <2>5. ASSUME NEW f \in Files \ blind, Stale(f)' \/ CliBehind(f)', ~(Ev(f)' \/ PassOwed')
        PROVE  Covered(f)'
    <3>1. (f \in loc.purge => o # "Done") /\ (f \in excused \/ Kept(f))
      BY <1>11, <2>5
    <3>2. Kept(f) => Kept(f)'
      BY <1>1, <1>5, <2>1, <3>1 DEF Kept, KeepsFiles, KeepsHand
    <3> QED
      BY <2>1, <3>1, <3>2 DEF Covered
  <2>6. CoverInv'
    BY <1>1, <2>5 DEF CoverInv, Covered
  <2> QED
    BY <1>6, <1>10, <2>3, <2>4, <2>6 DEF ActiveInv
<1> QED
  BY <1>3, <1>12, <1>13

\* One file is taken: nothing changes for the others.
LEMMA OneFile ==
    ASSUME IInv, Active, NEW f \in Files, pc # "semantic", pc' = "ready", loc'.now = {},
           UNCHANGED <<disk, dir, ignored, filter, blind, chan, lost, bulk, startup, refresh, cli>>,
           \A g \in Files \ {f} :
               /\ st'[g] = st[g] /\ se'[g] = se[g] /\ (g \in excused => g \in excused')
               /\ Kept(g) => Kept(g)',
           loc'.stale \subseteq loc.stale \cup {f},
           f \notin blind /\ (Stale(f)' \/ CliBehind(f)') => Covered(f)',
           f \in loc'.stale /\ f \notin blind /\ (st'[f] # View[f] \/ CliBehind(f)')
               => Ev(f)' \/ PassOwed' \/ f \in excused'
    PROVE  ActiveInv'
<1>1. /\ View' = View /\ DirInv' /\ FilterInv'
      /\ \A g \in Files : Ev(g)' <=> Ev(g)
      /\ PassOwed' <=> PassOwed
  BY FileFrame
<1>2. PassInv' /\ PurgeInv' /\ LookInv'
  BY DEF PassInv, InPass, PurgeInv, LookInv
<1>3. loc.stale \subseteq Files /\ loc.bare = {}
  BY ActiveFacts DEF TypeOK, Locals, HandInv
<1>4. StaleInv'
  <2> SUFFICES ASSUME NEW g \in loc'.stale \ blind, st'[g] # View'[g] \/ CliBehind(g)', g # f
               PROVE  Ev(g)' \/ PassOwed' \/ g \in excused'
    BY <1>1 DEF StaleInv
  <2>1. g \in loc.stale /\ (st[g] # View[g] \/ CliBehind(g))
    BY <1>1, <1>3 DEF CliBehind
  <2>2. Ev(g) \/ PassOwed \/ g \in excused
    BY <2>1, ActiveFacts DEF StaleInv
  <2> QED
    BY <1>1, <1>3, <2>1, <2>2
<1>5. CoverInv'
  <2> SUFFICES ASSUME NEW g \in Files \ blind, Stale(g)' \/ CliBehind(g)', g # f
               PROVE  Covered(g)'
    BY DEF CoverInv
  <2>1. Stale(g) \/ CliBehind(g)
    BY <1>1 DEF Stale, CliBehind
  <2>2. Covered(g)
    BY <2>1, ActiveFacts DEF CoverInv
  <2> QED
    BY <1>1, <1>3, <2>2 DEF Covered
<1> QED
  BY <1>1, <1>2, <1>4, <1>5 DEF ActiveInv

\* A file the filter lets pass although the tree ignores it is told of.
LEMMA IgnoredTold ==
    ASSUME IInv, Active, NEW f \in Files \ blind, f \notin filter, View[f] # disk[f]
    PROVE  Told(f)
<1>1. f \in ignored
  BY DEF View
<1>2. lost \/ refresh.reload \/ \E e \in Waiting : e.kind = "Ignore"
  BY <1>1, ActiveFacts DEF FilterInv
<1> QED
  BY <1>2 DEF Told, Ev

LEMMA OthersKept ==
    ASSUME TypeOK, NEW f \in Files, NEW g \in Files \ {f}, UNCHANGED <<disk, filter>>,
           q.pending \ {f} \subseteq q'.pending \cup q'.parked,
           q.parked \ {f} \subseteq q'.pending \cup q'.parked, Owed' = Owed,
           loc.ready \ {f} \subseteq loc'.ready, loc.stale \subseteq loc'.stale,
           loc.now \subseteq {f}, loc.purge \subseteq loc'.purge, Kept(g)
    PROVE  Kept(g)'
  BY DEF Kept

\* process_ready drops a file that is ignored by now, takes it in hand, or
\* queues it again.
LEMMA TakeActive ==
    ASSUME IInv, Active, NEW f \in Files, ReadyIgnored(f) \/ ReadyRead(f) \/ ReadyUnread(f)
    PROVE  ActiveInv'
<1>1. /\ pc = "ready" /\ f \in loc.ready /\ UNCHANGED <<st, se, excused>>
      /\ UNCHANGED <<disk, dir, ignored, filter, blind, chan, lost, bulk, startup, refresh, cli>>
  BY DEF ReadyIgnored, ReadyRead, ReadyUnread, Take, world
<1>2. TypeOK /\ LocalsInv /\ HandInv
  BY ActiveFacts
<1>3. f \in q.pending /\ f \notin loc.stale /\ loc.purge = {} /\ loc.now = {}
  BY <1>1, <1>2 DEF LocalsInv, HandInv, AtOne
<1>4. CASE ReadyIgnored(f)
  <2>1. loc'.ready = loc.ready \ {f} /\ loc'.stale = loc.stale /\ KeepsPurge /\ KeepsHand
    BY <1>2, <1>4, LeftLocals DEF ReadyIgnored
  <2>2. Owed' = Owed /\ q'.pending = q.pending \ {f} /\ q'.parked = q.parked \ {f}
    BY <1>2, <1>4, SettledRest DEF ReadyIgnored
  <2>3. ASSUME NEW g \in Files, Kept(g) PROVE Kept(g)'
    <3>1. g # f
      BY <1>4, <2>3 DEF Kept, ReadyIgnored
    <3> QED
      BY <1>1, <1>2, <1>3, <2>1, <2>2, <2>3, <3>1, OthersKept DEF KeepsPurge
  <2>4. LookInv'
    BY <1>1, <2>1, LooksKept DEF KeepsHand
  <2>5. pc' = "ready"
    BY <1>1, <1>4 DEF ReadyIgnored
  <2> QED
    BY <1>1, <2>1, <2>3, <2>4, <2>5, WorkMoves
<1>5. CASE ReadyRead(f)
  <2>1. f \notin filter /\ q' = Rest(f) /\ pc' \in {"gone", "look"}
    BY <1>5 DEF ReadyRead
  <2>2. /\ loc'.ready = loc.ready \ {f} /\ loc'.stale = loc.stale /\ KeepsPurge
        /\ loc'.now = {f} /\ loc'.text = disk[f]
    BY <1>2, <1>5, ReadLocals DEF ReadyRead
  <2>3. Owed' = Owed /\ q'.pending = q.pending \ {f} /\ q'.parked = q.parked
    BY <1>2, <2>1, RestEffect, OwedSame DEF Same
  <2>4. Kept(f)'
    BY <1>1, <2>1, <2>2 DEF Kept
  <2>5. \A g \in Files : Kept(g) => Kept(g)'
    BY <1>1, <1>2, <1>3, <2>2, <2>3, <2>4, OthersKept DEF KeepsPurge
  <2>6. LookInv'
    <3>1. View' = View /\ \A g \in Files : Told(g) => Told(g)'
      BY <1>1, FileFrame
    <3>2. f \notin blind /\ View[f] # disk[f] => Told(f)
      BY <2>1, IgnoredTold
    <3> QED
      BY <1>1, <2>2, <3>1, <3>2 DEF LookInv
  <2> QED
    BY <1>1, <2>1, <2>2, <2>5, <2>6, WorkMoves
<1>6. CASE ReadyUnread(f)
  <2>1. loc'.ready = loc.ready \ {f} /\ loc'.stale = loc.stale /\ KeepsPurge /\ KeepsHand
    BY <1>2, <1>6, LeftLocals DEF ReadyUnread
  <2>2. /\ Owed' = Owed /\ f \in q'.pending \cup q'.parked
        /\ q.pending \subseteq q'.pending \cup q'.parked /\ q.parked \subseteq q'.parked
    BY <1>2, <1>6, RequeuedRest DEF ReadyUnread
  <2>3. Kept(f)'
    BY <1>1, <1>6, <2>2 DEF Kept, ReadyUnread
  <2>4. \A g \in Files : Kept(g) => Kept(g)'
    BY <1>1, <1>2, <1>3, <2>1, <2>2, <2>3, OthersKept DEF KeepsPurge
  <2>5. LookInv'
    BY <1>1, <2>1, LooksKept DEF KeepsHand
  <2>6. pc' = "ready"
    BY <1>1, <1>6 DEF ReadyUnread
  <2> QED
    BY <1>1, <2>1, <2>4, <2>5, <2>6, WorkMoves
<1> QED
  BY <1>4, <1>5, <1>6

\* reindex_one, until it finds the file current or writes it.
LEMMA FileInHand ==
    ASSUME IInv, Active, NEW f \in Files, NEW places, AtFile(f, places),
           places \subseteq {"look", "compare", "index", "gone"}
    PROVE  /\ AtOne /\ pc # "semantic" /\ loc.now = {f} /\ f \notin loc.stale /\ f \notin filter
           /\ loc.purge = {}
           /\ UNCHANGED <<disk, dir, ignored, filter, blind, chan, lost, bulk, startup, refresh,
                          cli>>
           /\ f \notin blind /\ loc.text # View[f] => Told(f)
<1>1. /\ pc \in {"look", "compare", "index", "gone"} /\ f \in loc.now
      /\ UNCHANGED <<disk, dir, ignored, filter, blind, chan, lost, bulk, startup, refresh, cli>>
  BY DEF AtFile, world
<1>2. LocalsInv /\ HandInv /\ LookInv
  BY ActiveFacts
<1>3. loc.now = {f}
  BY <1>1, <1>2 DEF HandInv
<1>4. f \notin loc.stale /\ f \notin filter
  BY <1>1, <1>2 DEF HandInv
<1>5. loc.purge = {}
  BY <1>1, <1>2 DEF LocalsInv
<1>6. f \notin blind /\ loc.text # View[f] => Told(f)
  BY <1>1, <1>2 DEF LookInv
<1> QED
  BY <1>1, <1>3, <1>4, <1>5, <1>6 DEF AtOne

LEMMA LookActive ==
    ASSUME IInv, Active, NEW f \in Files, ReadyLook(f) \/ ReadyDiffers(f)
    PROVE  ActiveInv'
<1>1. /\ pc \in {"look", "compare"} /\ pc' \in {"compare", "index"}
      /\ UNCHANGED <<st, se, q, excused, cli>>
      /\ UNCHANGED <<disk, dir, ignored, filter, blind, chan, lost, bulk, startup, refresh>>
  BY DEF ReadyLook, ReadyDiffers, AtFile, world
<1>2. KeepsFiles /\ KeepsPurge /\ KeepsHand
  <2>1. CASE UNCHANGED loc
    BY <2>1 DEF KeepsFiles, KeepsPurge, KeepsHand
  <2>2. CASE ReadyLook(f)
    <3>1. PICK b \in BOOLEAN : loc' = [loc EXCEPT !.old = b]
      BY <2>2 DEF ReadyLook
    <3> QED
      BY <3>1, OldLocals, ActiveFacts
  <2> QED
    BY <2>1, <2>2 DEF ReadyDiffers
<1>3. \A g \in Files : Kept(g) => Kept(g)'
  BY <1>1, <1>2, OwedSame DEF Kept, KeepsFiles, KeepsPurge, KeepsHand
<1>4. LookInv'
  BY <1>1, <1>2, LooksKept DEF KeepsHand
<1>5. loc'.stale \subseteq loc.stale
  BY <1>2 DEF KeepsFiles
<1> QED
  BY <1>1, <1>3, <1>4, <1>5, WorkMoves

LEMMA FreshActive ==
    ASSUME IInv, Active, NEW f \in Files, ReadyFresh(f)
    PROVE  ActiveInv'
<1>1. /\ AtFile(f, {"compare"}) /\ st[f] = loc.text /\ UNCHANGED <<st, se>>
      /\ Returns(IF loc.old THEN {f} ELSE {})
      /\ excused \subseteq excused'
      /\ cli.stage # "none" /\ cli.seen[f] # loc.text => f \in excused'
      /\ ~loc.old /\ se[f] # loc.text => f \in excused'
  BY DEF ReadyFresh
<1>2. TypeOK
  BY ActiveFacts
<1>3. /\ pc # "semantic" /\ loc.now = {f} /\ f \notin loc.stale /\ f \notin filter
      /\ loc.purge = {}
      /\ UNCHANGED <<disk, dir, ignored, filter, blind, chan, lost, bulk, startup, refresh, cli>>
      /\ f \notin blind /\ loc.text # View[f] => Told(f)
  BY <1>1, FileInHand
<1>4. /\ View' = View
      /\ PassOwed' <=> PassOwed
      /\ \A g \in Files : Told(g) => Ev(g)' \/ PassOwed'
  BY <1>3, FileFrame
<1>5. /\ loc'.ready = loc.ready /\ loc'.now = {} /\ KeepsPurge /\ pc' = "ready"
      /\ loc'.stale = loc.stale \cup IF loc.old THEN {f} ELSE {}
  <2>1. PICK F \in SUBSET Files : F = IF loc.old THEN {f} ELSE {}
    OBVIOUS
  <2> QED
    BY <1>1, <1>2, <2>1, ReturnLocals
<1>6. Owed' = Owed /\ q'.pending = q.pending /\ q.parked \ {f} \subseteq q'.parked
  <2>1. CASE loc.old
    BY <2>1, OwedSame DEF ReadyFresh
  <2>2. CASE ~loc.old
    BY <1>2, <2>2, SettledOne DEF ReadyFresh
  <2> QED
    BY <2>1, <2>2
<1>7. \A g \in Files \ {f} : Kept(g) => Kept(g)'
  BY <1>2, <1>3, <1>5, <1>6, OthersKept DEF KeepsPurge
<1>8. \A g \in Files \ {f} :
          /\ st'[g] = st[g] /\ se'[g] = se[g] /\ (g \in excused => g \in excused')
          /\ Kept(g) => Kept(g)'
  BY <1>1, <1>7
<1>9. f \notin blind => loc.text = View[f] \/ Ev(f)' \/ PassOwed'
  BY <1>3, <1>4
<1>10. f \notin blind /\ (st'[f] # View[f] \/ CliBehind(f)') => Ev(f)' \/ PassOwed' \/ f \in excused'
  BY <1>1, <1>3, <1>4, <1>9 DEF CliBehind
<1>11. f \notin blind /\ se'[f] # View[f] => Ev(f)' \/ PassOwed' \/ f \in excused' \/ Kept(f)'
  <2>1. loc.old => Kept(f)'
    BY <1>3, <1>5 DEF Kept
  <2> QED
    BY <1>1, <1>9, <2>1
<1>12. f \notin blind /\ (Stale(f)' \/ CliBehind(f)') => Covered(f)'
  BY <1>4, <1>10, <1>11 DEF Stale, Covered
<1>13. loc'.stale \subseteq loc.stale \cup {f}
  BY <1>5
<1> QED
  BY <1>3, <1>5, <1>8, <1>10, <1>12, <1>13, OneFile

LEMMA IndexActive ==
    ASSUME IInv, Active, NEW f \in Files, ReadyIndex(f)
    PROVE  ActiveInv'
<1>1. /\ AtFile(f, {"index"}) /\ holder = None /\ WriteStructural(disk, {f}, {f})
      /\ Returns({f}) /\ UNCHANGED <<q, excused>>
  BY DEF ReadyIndex
<1>2. TypeOK /\ LockInv
  BY ActiveFacts
<1>3. /\ pc # "semantic" /\ loc.now = {f} /\ f \notin loc.stale /\ f \notin filter
      /\ loc.purge = {}
      /\ UNCHANGED <<disk, dir, ignored, filter, blind, chan, lost, bulk, startup, refresh, cli>>
  BY <1>1, FileInHand
<1>4. /\ View' = View
      /\ PassOwed' <=> PassOwed
      /\ \A g \in Files : Told(g) => Ev(g)' \/ PassOwed'
  BY <1>3, FileFrame
<1>5. /\ loc'.ready = loc.ready /\ loc'.stale = loc.stale \cup {f}
      /\ loc'.now = {} /\ KeepsPurge /\ pc' = "ready"
  <2>1. {f} \in SUBSET Files
    OBVIOUS
  <2> QED
    BY <1>1, <1>2, <2>1, ReturnLocals
<1>6. Owed' = Owed
  BY <1>1, OwedSame
<1>7. \A g \in Files \ {f} : Kept(g) => Kept(g)'
  BY <1>1, <1>2, <1>3, <1>5, <1>6, OthersKept DEF KeepsPurge
<1>8. \A g \in Files \ {f} :
          /\ st'[g] = st[g] /\ se'[g] = se[g] /\ (g \in excused => g \in excused')
          /\ Kept(g) => Kept(g)'
  BY <1>1, <1>7, StructuralRows
<1>9. Covered(f)'
  BY <1>3, <1>5 DEF Covered, Kept
<1>10. f \notin blind /\ (st'[f] # View[f] \/ CliBehind(f)') => Ev(f)' \/ PassOwed'
  <2>1. st'[f] = disk[f]
    BY <1>1, StructuralRows
  <2>2. cli.stage = "none"
    BY <1>1, <1>2, WatcherAssumption DEF LockInv
  <2>3. ~CliBehind(f)'
    BY <1>3, <2>2 DEF CliBehind
  <2> QED
    BY <1>3, <1>4, <2>1, <2>3, IgnoredTold
<1>11. loc'.stale \subseteq loc.stale \cup {f}
  BY <1>5
<1> QED
  BY <1>3, <1>5, <1>8, <1>9, <1>10, <1>11, OneFile

LEMMA AgainActive ==
    ASSUME IInv, Active, NEW f \in Files, ReadySkipped(f) \/ ReadyFailed(f)
    PROVE  ActiveInv'
<1>1. /\ AtFile(f, {"gone", "index"}) /\ Returns({}) /\ UNCHANGED excused
      /\ UNCHANGED <<st, se>> \/ WriteStructural(disk, {f}, {f})
  BY DEF ReadySkipped, ReadyFailed, Attempt
<1>2. TypeOK
  BY ActiveFacts
<1>3. /\ pc # "semantic" /\ loc.now = {f} /\ f \notin loc.stale /\ f \notin filter
      /\ loc.purge = {}
      /\ UNCHANGED <<disk, dir, ignored, filter, blind, chan, lost, bulk, startup, refresh, cli>>
  BY <1>1, FileInHand
<1>4. loc'.ready = loc.ready /\ loc'.stale = loc.stale /\ loc'.now = {} /\ KeepsPurge /\ pc' = "ready"
  <2>1. {} \in SUBSET Files
    OBVIOUS
  <2> QED
    BY <1>1, <1>2, <2>1, ReturnLocals
<1>5. /\ Owed' = Owed /\ f \in q'.pending \cup q'.parked
      /\ q.pending \subseteq q'.pending \cup q'.parked /\ q.parked \subseteq q'.parked
  BY <1>2, WaitingOne, RequeuedOne DEF ReadySkipped, ReadyFailed
<1>6. \A g \in Files \ {f} : Kept(g) => Kept(g)'
  BY <1>2, <1>3, <1>4, <1>5, OthersKept DEF KeepsPurge
<1>7. \A g \in Files \ {f} :
          /\ st'[g] = st[g] /\ se'[g] = se[g] /\ (g \in excused => g \in excused')
          /\ Kept(g) => Kept(g)'
  BY <1>1, <1>6, StructuralRows
<1>8. Covered(f)' /\ f \notin loc'.stale
  BY <1>3, <1>4, <1>5 DEF Covered, Kept
<1>9. loc'.stale \subseteq loc.stale \cup {f}
  BY <1>4
<1> QED
  BY <1>3, <1>4, <1>7, <1>8, <1>9, OneFile

LEMMA ReadyPurgeActive ==
    ASSUME IInv, Active, NEW f \in Files, ReadyPurge(f)
    PROVE  ActiveInv'
<1>1. /\ AtFile(f, {"gone"}) /\ pc = "gone" /\ pc' = "purge" /\ UNCHANGED <<st, se, q, excused>>
  BY DEF ReadyPurge, AtFile
<1>2. TypeOK /\ LocalsInv /\ HandInv /\ StaleInv /\ CoverInv
  BY ActiveFacts
<1>3. /\ loc.now = {f} /\ f \notin loc.stale /\ f \notin filter /\ loc.purge = {}
      /\ UNCHANGED <<disk, dir, ignored, filter, blind, chan, lost, bulk, startup, refresh, cli>>
      /\ f \notin blind /\ loc.text # View[f] => Told(f)
  BY <1>1, FileInHand
<1>4. /\ View' = View /\ DirInv' /\ FilterInv'
      /\ \A g \in Files : Ev(g)' <=> Ev(g)
      /\ PassOwed' <=> PassOwed
      /\ \A g \in Files : Told(g) => Ev(g)' \/ PassOwed'
      /\ \A g \in Files : Told(g) => Told(g)'
  BY <1>3, FileFrame
<1>5. KeepsFiles /\ loc'.now = {} /\ loc'.purge = {f} /\ loc'.from = "ready"
  BY <1>2, PurgeOneLocals DEF ReadyPurge
<1>6. Owed' = Owed
  BY <1>1, OwedSame
<1>7. PassInv' /\ LookInv' /\ StaleInv'
  <2>1. loc.stale \subseteq Files
    BY <1>2 DEF TypeOK, Locals
  <2>2. StaleInv'
    BY <1>1, <1>2, <1>3, <1>4, <1>5, <2>1 DEF StaleInv, CliBehind, KeepsFiles
  <2> QED
    BY <1>1, <1>5, <2>2 DEF PassInv, InPass, LookInv
<1>8. loc.text = None /\ loc.bare = {}
  BY <1>1, <1>2 DEF HandInv
<1>9. PurgeInv'
  BY <1>3, <1>4, <1>5, <1>8 DEF PurgeInv
<1>10. CoverInv'
  <2> SUFFICES ASSUME NEW g \in Files \ blind, Stale(g)' \/ CliBehind(g)' PROVE Covered(g)'
    BY <1>3 DEF CoverInv
  <2>1. Covered(g)
    BY <1>1, <1>2, <1>3, <1>4 DEF CoverInv, Stale, CliBehind
  <2>2. CASE g # f
    <3>1. Kept(g) => Kept(g)'
      BY <1>1, <1>3, <1>5, <1>6, <2>2 DEF Kept, KeepsFiles
    <3> QED
      BY <1>1, <1>4, <1>8, <2>1, <3>1 DEF Covered
  <2>3. CASE g = f
    \* A file that was absent and is not has been told of.
    <3>1. CASE disk[f] = None
      BY <1>3, <1>5, <2>3, <3>1 DEF Covered, Kept
    <3>2. CASE disk[f] # None
      <4>1. Told(f)
        BY <1>3, <1>8, <2>3, <3>2, IgnoredTold
      <4> QED
        BY <1>4, <2>3, <4>1 DEF Covered
    <3> QED
      BY <3>1, <3>2
  <2> QED
    BY <2>2, <2>3
<1> QED
  BY <1>4, <1>7, <1>9, <1>10 DEF ActiveInv

LEMMA ReadyActive ==
    ASSUME IInv, Active, ReadyStep
    PROVE  ActiveInv'
<1>1. PICK f \in Files : \/ ReadyIgnored(f) \/ ReadyRead(f) \/ ReadyUnread(f)
                         \/ ReadyLook(f) \/ ReadyFresh(f) \/ ReadyDiffers(f)
                         \/ ReadyIndex(f) \/ ReadyPurge(f)
                         \/ ReadySkipped(f) \/ ReadyFailed(f)
  BY DEF ReadyStep
<1> QED
  BY <1>1, TakeActive, LookActive, FreshActive, IndexActive, AgainActive, ReadyPurgeActive

LEMMA EmbedActive ==
    ASSUME IInv, Active, EmbedStep
    PROVE  ActiveInv'
<1>1. AfterReady
  BY DEF EmbedStep, Embed, EmbedSkipped, EmbedFailed
<1>2. /\ pc = "ready" /\ pc' = "revive" /\ loc.ready = {} /\ UNCHANGED <<st, cli, holder, excused>>
      /\ UNCHANGED <<disk, dir, ignored, filter, blind, chan, lost, bulk, startup, refresh>>
  BY <1>1 DEF AfterReady, Active, world
<1>3. TypeOK /\ LockInv /\ LocalsInv /\ HandInv /\ StaleInv /\ CoverInv
  BY ActiveFacts
<1>4. /\ loc'.ready = {} /\ loc'.stale = {} /\ loc'.purge = {} /\ loc.purge = {}
      /\ loc'.now = loc.now /\ loc'.text = loc.text
  BY <1>1, <1>2, <1>3, DoneLocals DEF AfterReady, KeepsPurge, KeepsHand, LocalsInv
<1>5. loc.stale \in SUBSET Files /\ q \in Queues /\ loc.stale \cap filter = {}
  BY <1>3 DEF TypeOK, Locals, LocalsInv
<1>6. LookInv' /\ loc.now = {} /\ loc.bare = {}
  BY <1>2, <1>3, <1>4, LooksKept DEF HandInv, AtOne
<1>7. CASE EmbedSkipped \/ EmbedFailed
  <2>1. /\ Owed' = Owed /\ q.parked \subseteq q'.parked
        /\ q.pending \cup loc.stale \subseteq q'.pending \cup q'.parked
    <3>1. CASE EmbedSkipped
      <4>1. q.pending \cup loc.stale \in SUBSET Files
        BY <1>5 DEF Queues
      <4>2. q' = [q EXCEPT !.pending = q.pending \cup loc.stale]
        BY <3>1 DEF EmbedSkipped
      <4>3. Same(q', q) /\ q'.pending = q.pending \cup loc.stale /\ q'.parked = q.parked
        BY <1>5, <4>1, <4>2, PendingEffect
      <4> QED
        BY <4>3, OwedSame DEF Same
    <3>2. CASE EmbedFailed
      BY <1>5, <3>2, RequeuedEffect, OwedSame DEF EmbedFailed, Same
    <3> QED
      BY <1>7, <3>1, <3>2
  <2>2. \A f \in Files : Kept(f) => Kept(f)'
    BY <1>2, <1>4, <1>6, <2>1 DEF Kept
  <2>3. UNCHANGED se
    BY <1>7 DEF EmbedSkipped, EmbedFailed
  <2> QED
    BY <1>2, <1>4, <1>6, <2>2, <2>3, WorkMoves
<1>8. ASSUME NEW F \in SUBSET Files, Embed(F) PROVE ActiveInv'
  <2>1. /\ holder = None /\ F \subseteq loc.stale /\ WriteSemantic(disk, loc.stale \ F)
    BY <1>8 DEF Embed
  <2>2. cli.stage = "none"
    BY <1>3, <2>1, WatcherAssumption DEF LockInv
  <2>3. /\ Owed' = Owed /\ q.pending \cup F \subseteq q'.pending \cup q'.parked
        /\ q.parked \ (loc.stale \ F) \subseteq q'.parked
    BY <1>3, <1>8, EmbedEffect
  <2>4. /\ View' = View /\ DirInv' /\ FilterInv'
        /\ \A f \in Files : Ev(f)' <=> Ev(f)
        /\ PassOwed' <=> PassOwed
        /\ \A f \in Files : Told(f) => Ev(f)' \/ PassOwed'
    BY <1>2, FileFrame
  <2>5. PassInv' /\ PurgeInv' /\ StaleInv'
    BY <1>2, <1>4 DEF PassInv, InPass, PurgeInv, StaleInv
  <2>6. CoverInv'
    <3> SUFFICES ASSUME NEW f \in Files \ blind, Stale(f)' \/ CliBehind(f)' PROVE Covered(f)'
      BY <1>2 DEF CoverInv
    <3>1. Stale(f)'
      BY <1>2, <2>2 DEF CliBehind
    <3>2. CASE f \in loc.stale \ F
      <4>1. se'[f] = disk[f] /\ f \notin filter
        BY <1>5, <2>1, <3>2, SemanticRows
      <4>2. CASE st[f] # View[f]
        BY <1>2, <1>3, <2>4, <3>2, <4>2 DEF StaleInv, Covered
      <4>3. CASE disk[f] # View[f]
        BY <2>4, <4>1, <4>3, IgnoredTold DEF Covered
      <4> QED
        BY <1>2, <2>4, <3>1, <4>1, <4>2, <4>3 DEF Stale
    <3>3. CASE f \notin loc.stale \ F
      <4>1. Covered(f)
        BY <1>2, <1>3, <2>1, <2>4, <3>1, <3>3, SemanticRows DEF CoverInv, Stale
      <4>2. Kept(f) => Kept(f)'
        BY <1>2, <1>4, <1>6, <2>3, <3>3 DEF Kept
      <4> QED
        BY <1>2, <1>6, <2>4, <4>1, <4>2 DEF Covered
    <3> QED
      BY <3>2, <3>3
  <2> QED
    BY <1>6, <2>4, <2>5, <2>6 DEF ActiveInv
<1> QED
  BY <1>7, <1>8 DEF EmbedStep

\* Steps that only move the loop, or work between its queues.
LEMMA LoopActive ==
    ASSUME IInv, Active, (\E F \in SUBSET Files : DrainBegin(F)) \/ EndStep \/ Continue
    PROVE  ActiveInv'
<1>1. TypeOK /\ LocalsInv /\ HandInv
  BY ActiveFacts
<1>2. /\ UNCHANGED <<disk, dir, ignored, filter, blind, chan, lost, bulk, startup, refresh>>
      /\ UNCHANGED <<st, se, cli, excused>>
  BY DEF DrainBegin, EndStep, Revive, Continue, world, work
<1>3. ASSUME NEW F \in SUBSET Files, DrainBegin(F) PROVE ActiveInv'
  <2>1. AtRest /\ pc' = "ready" /\ UNCHANGED q
    BY <1>3, ReachesRest DEF DrainBegin, work
  <2>2. loc'.stale = loc.stale /\ KeepsHand
    BY <1>1, <1>3, ReadyLocals DEF DrainBegin
  <2>3. pc \notin {"ready", "purge", "semantic"} /\ ~AtOne
    BY <2>1 DEF AtRest, AtOne
  <2>4. \A f \in Files : Kept(f) => Kept(f)'
    BY <1>1, <1>2, <2>1, <2>3, KeptQueues
  <2>5. LookInv'
    BY <1>2, <2>2, LooksKept DEF KeepsHand
  <2> QED
    BY <1>2, <2>1, <2>2, <2>3, <2>4, <2>5, WorkMoves
<1>4. ASSUME NEW F \in SUBSET Files, Revive(F) PROVE ActiveInv'
  <2>1. /\ q'.pending = q.pending \cup F /\ q'.parked = q.parked \ F /\ Owed' = Owed
    BY <1>1, <1>4, ReviveEffect
  <2>2. pc' = "top" /\ UNCHANGED loc
    BY <1>4 DEF Revive
  <2>3. pc # "semantic"
    BY <1>4, ReachesRest DEF Revive, AtRest
  <2>4. \A f \in Files : Kept(f) => Kept(f)'
    BY <1>2, <2>1, <2>2 DEF Kept
  <2>5. LookInv'
    BY <1>2, <2>2, LooksKept
  <2> QED
    BY <1>2, <2>2, <2>3, <2>4, <2>5, WorkMoves
<1>5. CASE Continue
  <2>1. pc # "semantic" /\ pc' = "top" /\ UNCHANGED <<loc, q>>
    BY <1>5 DEF Continue, work
  <2>2. \A f \in Files : Kept(f) => Kept(f)'
    BY <1>2, <2>1, OwedSame DEF Kept
  <2>3. LookInv'
    BY <1>2, <2>1, LooksKept
  <2> QED
    BY <1>2, <2>1, <2>2, <2>3, WorkMoves
<1> QED
  BY <1>3, <1>4, <1>5 DEF EndStep

\* Outside process_ready a watcher has not been told to stop.
LEMMA RestActive ==
    ASSUME LocalsInv,
           pc \in {"top", "begin", "reload", "retry", "removals", "drain", "revive", "structural",
                   "semantic"}
    PROVE  Active
  BY DEF LocalsInv, Active, Watching, AtOne

\* In it, the order to stop stands.
LEMMA StopKept ==
    ASSUME TypeOK, Purge \/ ReadyStep \/ EmbedStep
    PROVE  Watching /\ loc'.stopping = loc.stopping
<1>1. CASE Purge
  BY <1>1, PurgedLocals DEF Purge, KeepsStop, Watching
<1>2. CASE EmbedStep
  <2>1. AfterReady
    BY <1>2 DEF EmbedStep, Embed, EmbedSkipped, EmbedFailed
  <2> QED
    BY <2>1, DoneLocals DEF AfterReady, KeepsStop, Watching
<1>3. CASE ReadyStep
  <2>0. {} \in SUBSET Files /\ \A f \in Files : {f} \in SUBSET Files
    OBVIOUS
  <2>1. PICK f \in Files : \/ ReadyIgnored(f) \/ ReadyRead(f) \/ ReadyUnread(f)
                           \/ ReadyLook(f) \/ ReadyFresh(f) \/ ReadyDiffers(f)
                           \/ ReadyIndex(f) \/ ReadyPurge(f)
                           \/ ReadySkipped(f) \/ ReadyFailed(f)
    BY <1>3 DEF ReadyStep
  <2>2. CASE ReadyIgnored(f) \/ ReadyUnread(f)
    BY <2>2, LeftLocals DEF ReadyIgnored, ReadyUnread, Take, KeepsStop, Watching
  <2>3. CASE ReadyRead(f)
    BY <2>3, ReadLocals DEF ReadyRead, Take, KeepsStop, Watching
  <2>4. CASE ReadyLook(f)
    <3>1. PICK b \in BOOLEAN : loc' = [loc EXCEPT !.old = b]
      BY <2>4 DEF ReadyLook
    <3>2. KeepsStop
      BY <3>1, OldLocals
    <3> QED
      BY <2>4, <3>2 DEF ReadyLook, AtFile, KeepsStop, Watching
  <2>5. CASE ReadyDiffers(f)
    BY <2>5 DEF ReadyDiffers, AtFile, Watching
  <2>6. CASE ReadyFresh(f) \/ ReadyIndex(f) \/ ReadySkipped(f) \/ ReadyFailed(f)
    <3>1. PICK F \in SUBSET Files : Returns(F)
      BY <2>0, <2>6 DEF ReadyFresh, ReadyIndex, ReadySkipped, ReadyFailed
    <3>2. KeepsStop
      BY <3>1, ReturnLocals
    <3> QED
      BY <2>6, <3>2 DEF ReadyFresh, ReadyIndex, ReadySkipped, ReadyFailed, AtFile, KeepsStop,
                        Watching
  <2>7. CASE ReadyPurge(f)
    BY <2>7, PurgeOneLocals DEF ReadyPurge, AtFile, KeepsStop, Watching
  <2> QED
    BY <2>1, <2>2, <2>3, <2>4, <2>5, <2>6, <2>7
<1> QED
  BY <1>1, <1>2, <1>3

LEMMA StutterActive ==
    ASSUME IInv, Active, UNCHANGED vars
    PROVE  ActiveInv'
<1>1. /\ UNCHANGED <<disk, dir, ignored, filter, blind, chan, lost, bulk, startup, refresh>>
      /\ UNCHANGED <<st, se, cli, excused, pc, loc, q>>
  BY DEF vars
<1>2. /\ View' = View /\ DirInv' /\ FilterInv'
      /\ \A f \in Files : Ev(f)' <=> Ev(f)
      /\ PassOwed' <=> PassOwed
  BY <1>1, FileFrame
<1>3. Owed' = Owed
  BY <1>1, OwedSame
<1>4. \A f \in Files : Told(f)' <=> Told(f)
  BY <1>1, <1>2 DEF Told
<1>5. loc.purge \subseteq Files /\ Owed \subseteq Files /\ loc.stale \subseteq Files
  BY OwedType, ActiveFacts DEF TypeOK, Locals
<1>6. PassInv' /\ PurgeInv'
  BY <1>1, <1>2, <1>3, <1>4, <1>5, ActiveFacts DEF PassInv, InPass, PurgeInv
<1>7. LookInv'
  BY <1>1, LooksKept
<1>8. StaleInv' /\ CoverInv'
  BY <1>1, <1>2, <1>3, <1>5, ActiveFacts
  DEF StaleInv, CoverInv, Covered, Kept, Stale, CliBehind
<1> QED
  BY <1>2, <1>6, <1>7, <1>8 DEF ActiveInv

LEMMA NextActive == IInv /\ [Next]_vars /\ Active' => ActiveInv'
<1> SUFFICES ASSUME IInv, [Next]_vars, Active' PROVE ActiveInv'
  OBVIOUS
<1>1. TypeOK /\ LocalsInv
  BY DEF IInv
<1>2. CASE UNCHANGED vars
  <2>1. Active
    BY <1>2 DEF Active, Watching, vars
  <2> QED
    BY <1>2, <2>1, StutterActive
<1>3. CASE EditStep \/ CliStep
  <2>1. UNCHANGED <<pc, loc>>
    BY <1>3, EditStays, CliFrame DEF Edit
  <2>2. Active
    BY <2>1 DEF Active, Watching
  <2> QED
    BY <1>3, <2>2, EditActive, CliActive
<1>4. CASE HeadStep
  <2>1. ~Start
    BY DEF Start, Active, Watching
  <2>2. CASE Register
    BY <1>1, <2>2, RegisterActive
  <2>3. CASE Sweep \/ ReceiveEvent \/ Reload
    <3>1. pc \in {"top", "reload"}
      BY <2>3 DEF Sweep, ReceiveEvent, Reload, Polled
    <3>2. Active
      BY <1>1, <3>1, RestActive
    <3> QED
      BY <2>3, <3>2, HeadActive
  <2> QED
    BY <1>4, <2>1, <2>2, <2>3 DEF HeadStep
<1>5. CASE PassStep
  <2>1. pc \in {"begin", "reload", "retry", "top", "structural", "semantic"}
    BY <1>5, DueRest
    DEF PassStep, BulkBegin, BulkSkipped, BulkWrites, BulkStructural, BulkSemantic, BulkFailed
  <2>2. Active
    BY <1>1, <2>1, RestActive
  <2> QED
    BY <1>5, <2>2, PassBegins, PassSkipped, PassWrites, PassDone, PassFails DEF PassStep, BulkWrites
<1>6. CASE Purge \/ ReadyStep \/ EmbedStep
  <2>1. Active
    BY <1>1, <1>6, StopKept DEF Active
  <2> QED
    BY <1>6, <2>1, PurgeActive, ReadyActive, EmbedActive
<1>7. CASE RemovalsBegin \/ RemovalsDeferred
  <2>1. AtRest
    BY <1>7, ReachesRest DEF RemovalsBegin, RemovalsDeferred
  <2>2. Active
    BY <1>1, <2>1, RestActive DEF AtRest
  <2> QED
    BY <1>7, <2>2, RemovalsBegins, RemovalsWait
<1>8. CASE (\E F \in SUBSET Files : DrainBegin(F)) \/ EndStep \/ Continue
  <2>1. AtRest \/ (pc = "ready" /\ ~loc.stopping)
    BY <1>8, ReachesRest DEF DrainBegin, EndStep, Revive, Continue, AtRest
  <2>2. Active
    <3>1. CASE AtRest
      BY <1>1, <3>1, RestActive DEF AtRest
    <3>2. CASE pc = "ready" /\ ~loc.stopping
      BY <3>2 DEF Active, Watching
    <3> QED
      BY <2>1, <3>1, <3>2
  <2> QED
    BY <1>8, <2>2, LoopActive
<1>9. ~(IdleExit \/ Die \/ ShutdownDone \/ Shutdown)
  <2>1. Shutdown => loc'.stopping
    BY <1>1, StopLocals
  <2> QED
    BY <2>1 DEF IdleExit, Die, ShutdownDone, Exit, Active, Watching
<1> QED
  BY <1>2, <1>3, <1>4, <1>5, <1>6, <1>7, <1>8, <1>9, NextSteps DEF FileStep, EndsStep

-----------------------------------------------------------------------------
(* The theorems.                                                           *)

LEMMA IInvInductive == IInv /\ [Next]_vars => IInv'
<1> SUFFICES ASSUME IInv, [Next]_vars PROVE IInv'
  OBVIOUS
<1>1. TypeOK'
  BY NextTypeOK DEF IInv
<1>2. LockInv' /\ LocalsInv' /\ HandInv'
  BY NextControl DEF IInv, ControlInv
<1>3. EventInv' /\ AbsentInv'
  BY NextEvents
<1>4. Active' => ActiveInv'
  BY NextActive
<1> QED
  BY <1>1, <1>2, <1>3, <1>4 DEF IInv

\* The invariant behind the theorems below.
THEOREM Inductive == Spec => []IInv
<1>1. Init => IInv
  BY InitIInv
<1>2. IInv /\ [Next]_vars => IInv'
  BY IInvInductive
<1> QED
  BY <1>1, <1>2, PTL DEF Spec

\* The watcher, its queues and the channel keep their types: among others, the
\* channel never holds more than EVENT_QUEUE_CAPACITY events and no file is
\* retried more than MAX_WORK_RETRIES times.
THEOREM TypeCorrect == Spec => []TypeOK
<1>1. IInv => TypeOK
  BY DEF IInv
<1> QED
  BY <1>1, Inductive, PTL

\* For any tree, any number of edits, faults and passes of other processes, in
\* any order: while the watcher of statewatcher.rs runs, a file whose rows
\* differ from the tree is announced, queued, due in a pass, in hand or
\* excused, unless its ignore rules changed between WatchFilter::new and the
\* registration of the watches.
THEOREM EditsKept == Spec => []NoLostEdit
<1>1. IInv => NoLostEdit
  <2> SUFFICES ASSUME IInv, Watching /\ ~loc.stopping, NEW f \in Files \ blind, Stale(f)
               PROVE  \/ Announced(f) \/ lost \/ RefreshPending \/ bulk
                      \/ f \in q.pending \cup q.parked \cup Owed
                      \/ InHand(f) \/ f \in excused
    BY DEF NoLostEdit
  <2>1. Covered(f) /\ HandInv
    BY DEF IInv, Active, ActiveInv, CoverInv
  <2>2. ASSUME Ev(f) PROVE Announced(f)
    <3>1. PICK e \in Waiting : e.kind = "Ignore" \/ e.path = f \/ (e.path = Dir /\ f \in Nested)
      BY <2>2 DEF Ev
    <3>2. PICK i \in 1..Len(chan) : chan[i] = e
      BY DEF Waiting
    <3> QED
      BY <3>1, <3>2 DEF Announced
  <2>3. PassOwed => lost \/ RefreshPending \/ bulk
    BY DEF PassOwed
  <2>4. Kept(f) => f \in q.pending \cup q.parked \cup Owed \/ InHand(f)
    BY DEF Kept, InHand
  <2>5. f \in loc.bare => InHand(f)
    BY <2>1 DEF HandInv, InHand
  <2> QED
    BY <2>1, <2>2, <2>3, <2>4, <2>5 DEF Covered
<1> QED
  BY <1>1, Inductive, PTL
=============================================================================
