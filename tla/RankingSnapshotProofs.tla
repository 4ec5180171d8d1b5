------------------------ MODULE RankingSnapshotProofs ------------------------
(***************************************************************************)
(* For any number of requests, index files, commits, changes of the path   *)
(* and evictions: the ranking a request presents is that of its snapshot,  *)
(* as long as no pair of probes sees the path change three times.          *)
(*                                                                         *)
(* A generation names an observer by its epoch, and the observer's         *)
(* data_version counts the commits to the file it has open.  So two probes *)
(* that return the same generation enclose no commit to that file, and a   *)
(* snapshot of it pinned between them has the content the generation       *)
(* stands for.  That the connection that pinned it has the same file open  *)
(* is not compared by the code; it follows from the path, which is seen to *)
(* name the generation's file at both probes and the connection's file at  *)
(* its opening and at the end, by counting the changes in between.         *)
(***************************************************************************)
EXTENDS RankingSnapshot, TLAPS

Locked == {"open", "attestOpen", "version", "attest"}
Pinned == {"second", "readSecond", "matchSecond"}

\* The mutex, and what a probe has read so far.
ProbeOK(q) ==
    /\ probe[q] \in Locked <=> lock = q
    /\ probe[q] \in {"version", "attest"} => observer # None
    /\ probe[q] = "attest" => observer.base + seen[q].version <= commits[observer.file]
    /\ probe[q] \in {"lock"} \cup Locked => seen[q].ident # None
    /\ probe[q] = "attestOpen" => seen[q].conn # None
    /\ probe[q] # "off" => gen[q] = None
    /\ at[q] \in {"idle", "pin", "complete", "readPin", "matchOpen", "matchPin", "answered"} => probe[q] = "off"

\* A generation was read from the observer of its epoch.
Known(g) ==
    g # None =>
        /\ g.epoch < nextEpoch
        /\ observer # None /\ observer.epoch = g.epoch =>
              observer.file = g.file /\ observer.base + g.version <= commits[g.file]

KnownOK(q) ==
    /\ Known(gen[q]) /\ Known(job[q].before)
    /\ job[q].cached # None => Known(job[q].cached.gen)

\* What a request has at each place.
JobOK(q) ==
    /\ at[q] \in {"pin", "second"} => job[q].before # None
    /\ at[q] \in Pinned \cup {"pin", "readPin", "matchOpen", "matchFirst", "matchPin"} =>
          job[q].db # None
    /\ at[q] \in Pinned =>
          job[q].snap # None /\ job[q].snap[1] = job[q].db /\ job[q].snap[2] <= commits[job[q].db]
    /\ at[q] \in {"complete", "readFirst", "readPin", "readSecond",
                  "matchFirst", "matchPin", "matchSecond"} => job[q].cached # None
    /\ at[q] \in {"matchFirst", "matchPin", "matchSecond"} => job[q].cached.stable
    /\ at[q] = "matchPin" => gen[q] = job[q].cached.gen

\* The generation that the second probe has to return.
Reference(q) == IF at[q] = "matchSecond" THEN job[q].cached.gen ELSE job[q].before

\* The snapshot was pinned after the version of the first probe was read, and
\* before that of the second.
PinOK(q) ==
    at[q] \in Pinned =>
        /\ Reference(q) # None /\ job[q].db = Reference(q).file
             /\ observer # None /\ observer.epoch = Reference(q).epoch
                => observer.base + Reference(q).version <= job[q].snap[2]
        /\ probe[q] = "attest" /\ observer.file = job[q].db
                => job[q].snap[2] <= observer.base + seen[q].version

\* How often the path must have changed for the connection to have another
\* file open than the generations name.
WindowOK(q) ==
    /\ at[q] \in {"first", "readFirst"} /\ gen[q] # None /\ path # gen[q].file => moves[q] >= 1
    /\ at[q] \in {"pin", "second", "readPin", "readSecond"} /\ job[q].before # None
         /\ job[q].db # job[q].before.file
          => moves[q] >= 1 /\ (path # job[q].db => moves[q] >= 2)
    /\ at[q] \in {"second", "readSecond"} /\ gen[q] # None /\ gen[q] = job[q].before
         /\ job[q].db # job[q].before.file
          => moves[q] >= 2 /\ (path = job[q].db => moves[q] >= 3)
    /\ at[q] \in {"matchOpen", "matchFirst"} /\ path # job[q].db => moves[q] >= 1
    /\ at[q] = "matchFirst" /\ gen[q] # None /\ job[q].db # gen[q].file
          => moves[q] >= 1 /\ (path = job[q].db => moves[q] >= 2)
    /\ at[q] \in {"matchPin", "matchSecond"} /\ job[q].db # job[q].cached.gen.file
          => moves[q] >= 2 /\ (path # job[q].db => moves[q] >= 3)
    /\ at[q] = "matchSecond" /\ gen[q] # None /\ gen[q] = job[q].cached.gen
         /\ job[q].db # job[q].cached.gen.file
          => moves[q] >= 3
    /\ moves[q] >= 3 => flicker

AnswerOK(q) == ~flicker /\ at[q] = "answered" => job[q].used = job[q].snap

RequestOK(q) ==
    ProbeOK(q) /\ KnownOK(q) /\ JobOK(q) /\ PinOK(q) /\ WindowOK(q) /\ AnswerOK(q)

\* The second probe has confirmed the snapshot.
Settled(q) ==
    /\ at[q] \in Pinned /\ probe[q] = "off"
    /\ gen[q] # None /\ gen[q] = Reference(q) /\ job[q].db = gen[q].file

\* Someone holds c for the content that g stands for.
IsClaim(g, c) ==
    \/ ready # None /\ g = ready.gen /\ c = ready.content
    \/ \E q \in Requests :
          job[q].cached # None /\ job[q].cached.stable
             /\ g = job[q].cached.gen /\ c = job[q].cached.content
    \/ \E q \in Requests : Settled(q) /\ g = gen[q] /\ c = job[q].snap

Backed(g, c) ==
    /\ g.epoch < nextEpoch
    /\ observer # None /\ observer.epoch = g.epoch =>
          observer.file = g.file /\ c = <<g.file, observer.base + g.version>>

\* A generation stands for one content, that of its observer if it is there.
ClaimInv ==
    ~flicker =>
        /\ \A g, c : IsClaim(g, c) => Backed(g, c)
        /\ \A g, c, d : IsClaim(g, c) /\ IsClaim(g, d) => c = d

ObserverInv ==
    observer # None =>
        observer.epoch < nextEpoch /\ observer.base <= commits[observer.file]

ReadyInv == ready # None => ready.stable /\ Known(ready.gen)

IInv ==
    /\ TypeOK /\ ObserverInv /\ ReadyInv /\ ClaimInv
    /\ \A q \in Requests : RequestOK(q)

LEMMA InitIInv == Init => IInv
<1> SUFFICES ASSUME Init PROVE IInv
  OBVIOUS
<1>1. TypeOK
  <2>1. NoLook \in Looks /\ NoJob \in Jobs
    BY SnapshotAssumption DEF NoLook, Looks, NoJob, Jobs
  <2>2. path \in Files /\ commits \in [Files -> 0..MaxCommits] /\ swaps \in 0..MaxSwaps
    BY SnapshotAssumption DEF Init
  <2>3. at \in [Requests -> Activities] /\ probe \in [Requests -> ProbeSteps]
        /\ moves \in [Requests -> 0..3]
    BY DEF Init, Activities, ProbeSteps
  <2>4. seen \in [Requests -> Looks] /\ job \in [Requests -> Jobs]
        /\ gen \in [Requests -> Generations \cup {None}]
    BY <2>1 DEF Init
  <2>5. observer = None /\ lock = None /\ nextEpoch \in Nat /\ ready = None
    BY DEF Init
  <2>6. flicker \in BOOLEAN
    BY DEF Init
  <2> QED
    BY <2>2, <2>3, <2>4, <2>5, <2>6 DEF TypeOK
<1>2. ObserverInv /\ ReadyInv
  BY DEF Init, ObserverInv, ReadyInv
<1>3. \A g, c : ~IsClaim(g, c)
  BY DEF Init, IsClaim, Settled, NoJob, Pinned
<1>4. ClaimInv
  BY <1>3 DEF ClaimInv
<1>5. ASSUME NEW q \in Requests PROVE RequestOK(q)
  <2>1. at[q] = "idle" /\ probe[q] = "off" /\ gen[q] = None /\ job[q] = NoJob /\ moves[q] = 0
        /\ lock = None /\ q # None
    BY SnapshotAssumption DEF Init
  <2>2. ProbeOK(q) /\ AnswerOK(q)
    BY <2>1 DEF ProbeOK, AnswerOK, Locked
  <2>3. KnownOK(q) /\ JobOK(q) /\ PinOK(q)
    BY <2>1 DEF KnownOK, Known, JobOK, PinOK, NoJob, Pinned
  <2>4. WindowOK(q)
    BY <2>1 DEF WindowOK
  <2> QED
    BY <2>2, <2>3, <2>4 DEF RequestOK
<1> QED
  BY <1>1, <1>2, <1>4, <1>5 DEF IInv

-----------------------------------------------------------------------------
(* What stays true of a generation while the observers come and go.        *)

\* The observer stays, goes, or is followed by one of a new epoch.
ObserverStep ==
    /\ commits' = commits
    /\ nextEpoch \in Nat /\ nextEpoch' \in Nat
    /\ \/ observer' = observer /\ nextEpoch' = nextEpoch
       \/ observer' = None /\ nextEpoch' = nextEpoch
       \/ observer'.epoch = nextEpoch /\ nextEpoch' = nextEpoch + 1

LEMMA KnownFrame ==
    ASSUME NEW g \in Generations \cup {None}, Known(g), ObserverStep
    PROVE  Known(g)'
<1> SUFFICES ASSUME g # None PROVE Known(g)'
  BY DEF Known
<1>1. g.epoch < nextEpoch /\ g.epoch \in Nat
  BY DEF Known, Generations
<1> QED
  BY <1>1 DEF Known, ObserverStep

\* No claim is new.
LEMMA ClaimFrame ==
    ASSUME ClaimInv, ObserverStep, flicker => flicker',
           ASSUME NEW g, NEW c, ~flicker', IsClaim(g, c)'
           PROVE  IsClaim(g, c) /\ g \in Generations
    PROVE  ClaimInv'
<1> SUFFICES ASSUME ~flicker' PROVE ClaimInv'
  BY DEF ClaimInv
<1>1. ASSUME NEW g, NEW c, IsClaim(g, c)' PROVE Backed(g, c)'
  <2>1. IsClaim(g, c) /\ g \in Generations
    BY <1>1
  <2>2. Backed(g, c) /\ g.epoch \in Nat
    BY <2>1 DEF ClaimInv, Generations
  <2> QED
    BY <2>2 DEF Backed, ObserverStep
<1>2. ASSUME NEW g, NEW c, NEW d, IsClaim(g, c)', IsClaim(g, d)' PROVE c = d
  <2>1. IsClaim(g, c) /\ IsClaim(g, d)
    BY <1>2
  <2> QED
    BY <2>1 DEF ClaimInv
<1> QED
  BY <1>1, <1>2 DEF ClaimInv

-----------------------------------------------------------------------------
(* The steps of a request between its probes.                              *)

\* The request q goes to a, with its probe at p, g for the generation, the
\* locals j, and m changes of the path counted.
Moved(q, a, p, g, j, m) ==
    /\ probe[q] = "off"
    /\ at' = [at EXCEPT ![q] = a]
    /\ probe' = [probe EXCEPT ![q] = p]
    /\ gen' = [gen EXCEPT ![q] = g]
    /\ job' = [job EXCEPT ![q] = j]
    /\ moves' = [moves EXCEPT ![q] = m]
    /\ UNCHANGED <<path, commits, swaps, flicker, observer, lock, nextEpoch, seen>>

LEMMA MovedEffect ==
    ASSUME TypeOK, NEW q \in Requests, NEW a \in Activities, NEW p \in {"off", "identify"},
           NEW g \in Generations \cup {None}, NEW j \in Jobs, NEW m \in 0..3,
           Moved(q, a, p, g, j, m), ready' \in Rankings \cup {None}
    PROVE  /\ TypeOK'
           /\ at'[q] = a /\ probe'[q] = p /\ gen'[q] = g /\ job'[q] = j /\ moves'[q] = m
           /\ \A r \in Requests : r # q =>
                 at'[r] = at[r] /\ probe'[r] = probe[r] /\ gen'[r] = gen[r]
                 /\ job'[r] = job[r] /\ moves'[r] = moves[r]
<1>1. p \in ProbeSteps
  BY DEF ProbeSteps
<1>2. at' \in [Requests -> Activities] /\ probe' \in [Requests -> ProbeSteps]
      /\ gen' \in [Requests -> Generations \cup {None}]
      /\ job' \in [Requests -> Jobs] /\ moves' \in [Requests -> 0..3]
  BY <1>1 DEF TypeOK, Moved
<1>3. TypeOK'
  BY <1>2 DEF TypeOK, Moved
<1> QED
  BY <1>3 DEF TypeOK, Moved

\* The other requests see nothing of it.
LEMMA MovedOthers ==
    ASSUME NEW r \in Requests, RequestOK(r),
           UNCHANGED <<path, commits, flicker, observer, lock, nextEpoch, seen>>,
           at'[r] = at[r], probe'[r] = probe[r], gen'[r] = gen[r], job'[r] = job[r],
           moves'[r] = moves[r]
    PROVE  RequestOK(r)'
<1>1. ProbeOK(r)' /\ AnswerOK(r)'
  BY DEF RequestOK, ProbeOK, AnswerOK
<1>2. KnownOK(r)'
  BY DEF RequestOK, KnownOK, Known
<1>3. JobOK(r)' /\ PinOK(r)'
  BY DEF RequestOK, JobOK, PinOK, Reference
<1>4. WindowOK(r)'
  BY DEF RequestOK, WindowOK
<1> QED
  BY <1>1, <1>2, <1>3, <1>4 DEF RequestOK

\* Everything is left to the request that moved: its own part, and whether what
\* it or the cache now holds was claimed before.
LEMMA MovedIInv ==
    ASSUME IInv, NEW q \in Requests, NEW a \in Activities, NEW p \in {"off", "identify"},
           NEW g \in Generations \cup {None}, NEW j \in Jobs, NEW m \in 0..3,
           Moved(q, a, p, g, j, m),
           a \notin Pinned \/ p # "off",
           ready' = ready \/ (ready' = job[q].cached /\ job[q].cached # None
                                                    /\ job[q].cached.stable),
           j.cached # None /\ j.cached.stable /\ ~flicker
                => IsClaim(j.cached.gen, j.cached.content),
           p = "identify" => g = None,
           a \in {"idle", "pin", "complete", "readPin", "matchOpen", "matchPin", "answered"} => p = "off",
           Known(g), Known(j.before), j.cached # None => Known(j.cached.gen),
           (at'[q] = a /\ probe'[q] = p /\ gen'[q] = g /\ job'[q] = j /\ moves'[q] = m)
                => (JobOK(q)' /\ PinOK(q)' /\ WindowOK(q)' /\ AnswerOK(q)')
    PROVE  IInv'
<1>0. ready' \in Rankings \cup {None}
  BY DEF IInv, TypeOK, Jobs
<1>1. /\ TypeOK'
      /\ at'[q] = a /\ probe'[q] = p /\ gen'[q] = g /\ job'[q] = j /\ moves'[q] = m
      /\ \A r \in Requests : r # q =>
            at'[r] = at[r] /\ probe'[r] = probe[r] /\ gen'[r] = gen[r]
            /\ job'[r] = job[r] /\ moves'[r] = moves[r]
  BY <1>0, MovedEffect DEF IInv
<1>2. UNCHANGED <<path, commits, flicker, observer, lock, nextEpoch, seen>>
  BY DEF Moved
<1>3. ASSUME NEW r \in Requests PROVE RequestOK(r)'
  <2>1. CASE r # q
    BY <1>1, <1>2, <2>1, MovedOthers DEF IInv
  <2>2. CASE r = q
    <3>1. ProbeOK(q)'
      <4>1. probe[q] = "off" /\ ProbeOK(q)
        BY DEF Moved, IInv, RequestOK
      <4>2. lock' # q
        BY <1>2, <4>1 DEF ProbeOK, Locked
      <4> QED
        BY <1>1, <4>2 DEF ProbeOK, Locked
    <3>2. KnownOK(q)'
      BY <1>1, <1>2 DEF KnownOK, Known
    <3>3. JobOK(q)' /\ PinOK(q)' /\ WindowOK(q)' /\ AnswerOK(q)'
      BY <1>1
    <3> QED
      BY <2>2, <3>1, <3>2, <3>3 DEF RequestOK
  <2> QED
    BY <2>1, <2>2
<1>4. ObserverInv'
  BY <1>2 DEF IInv, ObserverInv
<1>5. ReadyInv'
  <2>1. job[q].cached # None => Known(job[q].cached.gen)
    BY DEF IInv, RequestOK, KnownOK
  <2> QED
    BY <1>2, <2>1 DEF IInv, ReadyInv, Known
<1>6. ClaimInv'
  <2>1. ObserverStep
    BY <1>2 DEF ObserverStep, IInv, TypeOK
  <2>2. ASSUME NEW h, NEW c, ~flicker', IsClaim(h, c)'
        PROVE  IsClaim(h, c) /\ h \in Generations
    <3>1. CASE ready' # None /\ h = ready'.gen /\ c = ready'.content
      <4>1. h \in Generations
        BY <1>0, <3>1 DEF Rankings
      <4> QED
        BY <3>1, <4>1 DEF IsClaim
    <3>2. ASSUME NEW r \in Requests, job'[r].cached # None, job'[r].cached.stable,
                 h = job'[r].cached.gen, c = job'[r].cached.content
          PROVE  IsClaim(h, c) /\ h \in Generations
      <4>1. h \in Generations
        <5>1. job'[r].cached \in Rankings
          BY <1>1, <3>2 DEF TypeOK, Jobs
        <5> QED
          BY <3>2, <5>1 DEF Rankings
      <4>2. CASE r # q
        BY <1>1, <3>2, <4>1, <4>2 DEF IsClaim
      <4>3. CASE r = q
        BY <1>1, <1>2, <2>2, <3>2, <4>1, <4>3
      <4> QED
        BY <4>2, <4>3
    <3>3. ASSUME NEW r \in Requests, Settled(r)', h = gen'[r], c = job'[r].snap
          PROVE  IsClaim(h, c) /\ h \in Generations
      <4>1. r # q
        BY <1>1, <3>3 DEF Settled
      <4>2. Settled(r) /\ h = gen[r] /\ c = job[r].snap
        BY <1>1, <3>3, <4>1 DEF Settled, Reference
      <4>3. h \in Generations
        BY <4>2 DEF Settled, IInv, TypeOK
      <4> QED
        BY <4>2, <4>3 DEF IsClaim
    <3> QED
      BY <2>2, <3>1, <3>2, <3>3 DEF IsClaim
  <2> QED
    BY <1>2, <2>1, <2>2, ClaimFrame DEF IInv
<1> QED
  BY <1>1, <1>3, <1>4, <1>5, <1>6 DEF IInv

LEMMA GiveUpIInv ==
    ASSUME IInv, NEW q \in Requests, probe[q] = "off", GiveUp(q), UNCHANGED <<world, shared, seen>>
    PROVE  IInv'
<1>1. PICK j, m : j = NoJob /\ m = moves[q]
  OBVIOUS
<1>2. j \in Jobs /\ j.before = None /\ j.cached = None /\ m \in 0..3
  BY <1>1 DEF NoJob, Jobs, IInv, TypeOK
<1>3. Moved(q, "idle", "off", None, j, m) /\ ready' = ready
  BY <1>1 DEF Moved, GiveUp, Go, world, history, shared, IInv, TypeOK
<1>4. UNCHANGED <<path, flicker>>
  BY <1>3 DEF Moved
<1>5. m >= 3 => flicker
  BY <1>1 DEF IInv, RequestOK, WindowOK
<1>6. ASSUME at'[q] = "idle", gen'[q] = None, job'[q] = j, moves'[q] = m
      PROVE  JobOK(q)' /\ PinOK(q)' /\ WindowOK(q)' /\ AnswerOK(q)'
  BY <1>4, <1>5, <1>6 DEF JobOK, PinOK, WindowOK, AnswerOK, Pinned
<1>7. "idle" \in Activities /\ Known(None)
  BY DEF Activities, Known
<1>8. "idle" \notin Pinned
  BY DEF Pinned
<1> QED
  BY <1>2, <1>3, <1>6, <1>7, <1>8, MovedIInv

\* What a request holds already is claimed already.
LEMMA HeldClaim ==
    ASSUME NEW q \in Requests, job[q].cached # None, job[q].cached.stable
    PROVE  IsClaim(job[q].cached.gen, job[q].cached.content)
  BY DEF IsClaim

\* A step that starts a probe and leaves the locals alone, to a place outside
\* any window or at the start of one.
LEMMA BeginIInv ==
    ASSUME IInv, NEW q \in Requests, NEW a \in {"get", "readFirst"}, NEW m \in 0..3,
           Moved(q, a, "identify", None, job[q], m), m >= 3 => flicker,
           a = "readFirst" => job[q].cached # None,
           ready' = ready \/ (ready' = job[q].cached /\ job[q].cached # None
                                                    /\ job[q].cached.stable)
    PROVE  IInv'
<1>1. PICK j : j = job[q]
  OBVIOUS
<1>2. j \in Jobs /\ Known(j.before) /\ (j.cached # None => Known(j.cached.gen))
  BY <1>1 DEF IInv, TypeOK, RequestOK, KnownOK
<1>3. j.cached # None /\ j.cached.stable /\ ~flicker => IsClaim(j.cached.gen, j.cached.content)
  BY <1>1, HeldClaim
<1>4. UNCHANGED <<path, flicker>>
  BY DEF Moved
<1>5. ASSUME at'[q] = a, gen'[q] = None, job'[q] = j, moves'[q] = m
      PROVE  JobOK(q)' /\ PinOK(q)' /\ WindowOK(q)' /\ AnswerOK(q)'
  BY <1>1, <1>4, <1>5 DEF JobOK, PinOK, WindowOK, AnswerOK, Pinned
<1>6. a \in Activities /\ Known(None) /\ a \notin {"idle", "pin", "complete", "readPin", "matchPin", "answered"}
  BY DEF Activities, Known
<1> QED
  BY <1>1, <1>2, <1>3, <1>5, <1>6, MovedIInv

LEMMA BeginOverviewIInv ==
    ASSUME IInv, NEW q \in Requests, BeginOverview(q)
    PROVE  IInv'
<1>1. Moved(q, "get", "identify", None, job[q], moves[q]) /\ ready' = ready
  BY DEF BeginOverview, At, Go, StartProbe, Moved, world, history, shared, IInv, TypeOK
<1>2. moves[q] \in 0..3 /\ (moves[q] >= 3 => flicker)
  BY DEF IInv, TypeOK, RequestOK, WindowOK
<1> QED
  BY <1>1, <1>2, BeginIInv

LEMMA CompleteIInv ==
    ASSUME IInv, NEW q \in Requests, NEW current \in BOOLEAN, Complete(q, current)
    PROVE  IInv'
<1>1. Moved(q, "readFirst", "identify", None, job[q], 0)
  BY DEF Complete, At, Go, StartPair, StartProbe, Moved, IInv, TypeOK
<1>2. job[q].cached # None
  BY DEF Complete, At, IInv, RequestOK, JobOK
<1>3. ready' = ready \/ (ready' = job[q].cached /\ job[q].cached.stable)
  BY DEF Complete
<1>4. 0 \in 0..3 /\ ~(0 >= 3)
  OBVIOUS
<1> QED
  BY <1>1, <1>2, <1>3, <1>4, BeginIInv

LEMMA LookupIInv ==
    ASSUME IInv, NEW q \in Requests, Lookup(q)
    PROVE  IInv'
<1>0. probe[q] = "off" /\ at[q] = "get"
  BY DEF Lookup, At
<1>1. CASE gen[q] = None
  <2>1. GiveUp(q) /\ UNCHANGED <<world, shared, seen>>
    BY <1>1 DEF Lookup, world
  <2> QED
    BY <1>0, <2>1, GiveUpIInv
<1>2. CASE gen[q] # None
  <2>1. PICK a, j :
           /\ Moved(q, a, "identify", None, j, 0) /\ ready' = ready
           /\ \/ /\ ready # None
                 /\ a = "readFirst" /\ j = [job[q] EXCEPT !.cached = ready]
              \/ a = "first" /\ j = [job[q] EXCEPT !.flight = gen[q]]
    <3>1. CASE ready # None /\ ready.gen = gen[q]
      <4>1. Moved(q, "readFirst", "identify", None, [job[q] EXCEPT !.cached = ready], 0) /\ ready' = ready
        BY <1>2, <3>1 DEF Lookup, At, Go, StartPair, StartProbe, Moved, shared, IInv, TypeOK
      <4> QED
        BY <3>1, <4>1
    <3>2. CASE ~(ready # None /\ ready.gen = gen[q])
      <4>1. Moved(q, "first", "identify", None, [job[q] EXCEPT !.flight = gen[q]], 0) /\ ready' = ready
        BY <1>2, <3>2 DEF Lookup, At, Go, StartPair, StartProbe, Moved, shared, IInv, TypeOK
      <4> QED
        BY <4>1
    <3> QED
      BY <3>1, <3>2
  <2>2. job[q] \in Jobs /\ ready \in Rankings \cup {None} /\ gen[q] \in Generations \cup {None}
    BY DEF IInv, TypeOK
  <2>3. j \in Jobs /\ j.before = job[q].before
        /\ ((j.cached = ready /\ ready # None) \/ (j.cached = job[q].cached /\ a = "first"))
    BY <2>1, <2>2 DEF Jobs
  <2>4. Known(j.before) /\ (j.cached # None => Known(j.cached.gen))
    BY <2>3 DEF IInv, RequestOK, KnownOK, ReadyInv
  <2>5. j.cached # None /\ j.cached.stable /\ ~flicker => IsClaim(j.cached.gen, j.cached.content)
    BY <2>3, HeldClaim DEF IsClaim
  <2>6. UNCHANGED <<path, flicker>>
    BY <2>1 DEF Moved
  <2>7. a \in {"first", "readFirst"}
    BY <2>1
  <2>8. ASSUME at'[q] = a, gen'[q] = None, job'[q] = j, moves'[q] = 0
        PROVE  JobOK(q)' /\ PinOK(q)' /\ WindowOK(q)' /\ AnswerOK(q)'
    BY <2>3, <2>6, <2>7, <2>8 DEF JobOK, PinOK, WindowOK, AnswerOK, Pinned
  <2>9. /\ a \in Activities /\ Known(None) /\ 0 \in 0..3
        /\ a \notin {"idle", "pin", "complete", "readPin", "matchPin", "answered"}
    BY <2>7 DEF Activities, Known
  <2> QED
    BY <2>1, <2>3, <2>4, <2>5, <2>8, <2>9, MovedIInv
<1> QED
  BY <1>1, <1>2

\* The producer and the reader open their connection.
LEMMA OpenIInv ==
    ASSUME IInv, NEW q \in Requests, NEW j,
           \/ at[q] = "first" /\ gen[q] # None /\ Moved(q, "pin", "off", gen[q], j, moves[q])
           \/ at[q] = "readFirst" /\ Moved(q, "readPin", "off", gen[q], j, moves[q]),
           ready' = ready,
           j = [job[q] EXCEPT !.before = gen[q], !.db = path]
    PROVE  IInv'
<1>1. PICK a, g, m : a \in {"pin", "readPin"} /\ g = gen[q] /\ m = moves[q] /\ Moved(q, a, "off", g, j, m)
                     /\ (a = "pin" => at[q] = "first" /\ g # None)
                     /\ (a = "readPin" => at[q] = "readFirst")
  OBVIOUS
<1>2. job[q] \in Jobs /\ path \in Files /\ g \in Generations \cup {None} /\ m \in 0..3
  BY <1>1 DEF IInv, TypeOK
<1>3. j \in Jobs /\ j.before = g /\ j.db = path /\ j.cached = job[q].cached /\ path # None
  BY <1>1, <1>2, SnapshotAssumption DEF Jobs
<1>4. Known(g) /\ Known(j.before) /\ (j.cached # None => Known(j.cached.gen))
  BY <1>1, <1>3 DEF IInv, RequestOK, KnownOK
<1>5. j.cached # None /\ j.cached.stable /\ ~flicker => IsClaim(j.cached.gen, j.cached.content)
  BY <1>3, HeldClaim
<1>6. UNCHANGED <<path, flicker>>
  BY <1>1 DEF Moved
<1>7. a = "readPin" => j.cached # None
  BY <1>1, <1>3 DEF IInv, RequestOK, JobOK
<1>8. (m >= 3 => flicker) /\ (g # None /\ path # g.file => m >= 1)
  BY <1>1 DEF IInv, RequestOK, WindowOK
<1>9. ASSUME at'[q] = a, gen'[q] = g, job'[q] = j, moves'[q] = m
      PROVE  JobOK(q)' /\ PinOK(q)' /\ WindowOK(q)' /\ AnswerOK(q)'
  <2>1. JobOK(q)' /\ PinOK(q)' /\ AnswerOK(q)'
    BY <1>1, <1>3, <1>7, <1>9 DEF JobOK, PinOK, AnswerOK, Pinned
  <2>2. WindowOK(q)'
    BY <1>1, <1>3, <1>6, <1>8, <1>9 DEF WindowOK
  <2> QED
    BY <2>1, <2>2
<1>10. a \in Activities /\ a \notin Pinned
  BY <1>1 DEF Activities, Pinned
<1> QED
  BY <1>1, <1>2, <1>3, <1>4, <1>5, <1>9, <1>10, MovedIInv

LEMMA ProducerOpenIInv ==
    ASSUME IInv, NEW q \in Requests, ProducerOpen(q)
    PROVE  IInv'
<1>1. CASE gen[q] = None
  BY <1>1, GiveUpIInv DEF ProducerOpen, At
<1>2. CASE gen[q] # None
  <2>1. at[q] = "first" /\ ready' = ready
        /\ Moved(q, "pin", "off", gen[q], [job[q] EXCEPT !.before = gen[q], !.db = path], moves[q])
    BY <1>2 DEF ProducerOpen, At, Go, Moved, world, history, shared, IInv, TypeOK
  <2> QED
    BY <1>2, <2>1, OpenIInv
<1> QED
  BY <1>1, <1>2

LEMMA ReaderOpenIInv ==
    ASSUME IInv, NEW q \in Requests, ReaderOpen(q)
    PROVE  IInv'
<1>1. at[q] = "readFirst" /\ ready' = ready
      /\ Moved(q, "readPin", "off", gen[q], [job[q] EXCEPT !.before = gen[q], !.db = path], moves[q])
  BY DEF ReaderOpen, At, Go, Moved, world, history, shared, prober, IInv, TypeOK
<1> QED
  BY <1>1, OpenIInv

\* A snapshot is pinned: it has every commit that the first probe counted.
LEMMA PinIInv ==
    ASSUME IInv, NEW q \in Requests, NEW a, NEW j,
           \/ at[q] = "pin" /\ a = "second"
           \/ at[q] = "readPin" /\ a = "readSecond"
           \/ at[q] = "matchPin" /\ a = "matchSecond",
           Moved(q, a, "identify", None, j, moves[q]), ready' = ready,
           j = [job[q] EXCEPT !.snap = <<job[q].db, commits[job[q].db]>>]
    PROVE  IInv'
<1>1. PICK m : m = moves[q]
  OBVIOUS
<1>2. job[q] \in Jobs /\ m \in 0..3 /\ commits \in [Files -> 0..MaxCommits]
  BY <1>1 DEF IInv, TypeOK
<1>3. job[q].db # None /\ job[q].db \in Files
  <2>1. job[q].db # None
    BY DEF IInv, RequestOK, JobOK
  <2> QED
    BY <1>2, <2>1 DEF Jobs
<1>4. PICK c : c = <<job[q].db, commits[job[q].db]>>
  OBVIOUS
<1>5. c \in Content /\ c # None /\ c[1] = job[q].db /\ c[2] = commits[job[q].db]
      /\ commits[job[q].db] \in Nat
  BY <1>2, <1>3, <1>4, SnapshotAssumption DEF Content
<1>6. /\ j \in Jobs /\ j.snap = c
      /\ j.before = job[q].before /\ j.db = job[q].db /\ j.cached = job[q].cached
  BY <1>2, <1>4, <1>5 DEF Jobs
<1>7. Known(j.before) /\ (j.cached # None => Known(j.cached.gen)) /\ Known(None)
  BY <1>6 DEF IInv, RequestOK, KnownOK, Known
<1>8. j.cached # None /\ j.cached.stable /\ ~flicker => IsClaim(j.cached.gen, j.cached.content)
  BY <1>6, HeldClaim
<1>9. UNCHANGED <<path, flicker, commits, observer>>
  BY DEF Moved
<1>10. /\ JobOK(q) /\ WindowOK(q)
       /\ at[q] = "matchPin" => job[q].cached # None
  BY DEF IInv, RequestOK, JobOK
<1>11. ASSUME at'[q] = a, probe'[q] = "identify", gen'[q] = None, job'[q] = j, moves'[q] = m
       PROVE  JobOK(q)' /\ PinOK(q)' /\ WindowOK(q)' /\ AnswerOK(q)'
  <2>1. JobOK(q)'
    BY <1>3, <1>5, <1>6, <1>9, <1>10, <1>11 DEF JobOK, Pinned
  <2>2. PinOK(q)'
    <3>1. PICK g : g = Reference(q)'
      OBVIOUS
    <3>2. Known(g)
      BY <1>7, <1>10, <1>6, <1>11, <3>1 DEF Reference
    <3> QED
      BY <1>5, <1>6, <1>9, <1>11, <3>1, <3>2 DEF PinOK, Known
  <2>3. WindowOK(q)'
    BY <1>1, <1>6, <1>9, <1>10, <1>11 DEF WindowOK
  <2>4. AnswerOK(q)'
    BY <1>11 DEF AnswerOK
  <2> QED
    BY <2>1, <2>2, <2>3, <2>4
<1>12. a \in Activities /\ a \notin {"idle", "pin", "complete", "readPin", "matchPin", "answered"}
  BY DEF Activities
<1> QED
  BY <1>1, <1>2, <1>6, <1>7, <1>8, <1>11, <1>12, MovedIInv

LEMMA PinSteps ==
    ASSUME IInv, NEW q \in Requests, ProducerPin(q) \/ ReaderPin(q) \/ DescribePin(q)
    PROVE  IInv'
<1> DEFINE j == [job[q] EXCEPT !.snap = <<job[q].db, commits[job[q].db]>>]
<1>1. ASSUME NEW a, Go(q, a), probe[q] = "off", Pin(q), StartProbe(q), UNCHANGED <<world, shared, seen>>
      PROVE  Moved(q, a, "identify", None, j, moves[q]) /\ ready' = ready
  BY <1>1 DEF Go, Pin, StartProbe, Moved, world, history, shared, IInv, TypeOK
<1> HIDE DEF j
<1>2. CASE ProducerPin(q)
  BY <1>1, <1>2, PinIInv DEF ProducerPin, At, j
<1>3. CASE ReaderPin(q)
  BY <1>1, <1>3, PinIInv DEF ReaderPin, At, j
<1>4. CASE DescribePin(q)
  BY <1>1, <1>4, PinIInv DEF DescribePin, At, j
<1> QED
  BY <1>2, <1>3, <1>4

\* The producer's verdict: a ranking that is stable has the content its
\* generation stands for.
LEMMA ProducerResultIInv ==
    ASSUME IInv, NEW q \in Requests, ProducerResult(q)
    PROVE  IInv'
<1>1. PICK m, g, b : m = moves[q] /\ g = gen[q] /\ b \in BOOLEAN /\ b = Stable(q)
  BY DEF Stable
<1>2. PICK x : x = [content |-> job[q].snap, gen |-> job[q].before, stable |-> b]
  OBVIOUS
<1>3. PICK j : j = [job[q] EXCEPT !.cached = x]
  OBVIOUS
<1>4. at[q] = "second" /\ probe[q] = "off"
  BY DEF ProducerResult, At
<1>5. Moved(q, "complete", "off", g, j, m) /\ ready' = ready
  BY <1>1, <1>2, <1>3 DEF ProducerResult, At, Go, Moved, world, history, shared, prober, IInv, TypeOK
<1>6. job[q] \in Jobs /\ g \in Generations \cup {None} /\ m \in 0..3
  BY <1>1 DEF IInv, TypeOK
<1>7. /\ job[q].snap # None /\ job[q].before # None
      /\ Known(job[q].before) /\ Known(g)
  BY <1>1, <1>4 DEF IInv, RequestOK, JobOK, KnownOK, Pinned
<1>8. x \in Rankings /\ x # None
  BY <1>1, <1>2, <1>6, <1>7, SnapshotAssumption DEF Jobs, Rankings
<1>9. j \in Jobs /\ j.cached = x /\ j.before = job[q].before
  BY <1>3, <1>6, <1>8 DEF Jobs
<1>10. x.gen = job[q].before /\ x.content = job[q].snap /\ x.stable = b
  BY <1>2
<1>11. ASSUME x.stable, ~flicker PROVE IsClaim(x.gen, x.content)
  <2>1. path = job[q].db /\ gen[q] = job[q].before
    BY <1>1, <1>10, <1>11 DEF Stable, PathStillMatches
  <2>2. job[q].db = job[q].before.file
    <3>1. job[q].db # job[q].before.file => moves[q] >= 3
      BY <1>4, <1>7, <2>1 DEF IInv, RequestOK, WindowOK
    <3>2. moves[q] >= 3 => flicker
      BY DEF IInv, RequestOK, WindowOK
    <3> QED
      BY <1>11, <3>1, <3>2
  <2>3. Settled(q)
    BY <1>4, <1>7, <2>1, <2>2 DEF Settled, Reference, Pinned
  <2> QED
    BY <1>10, <2>1, <2>3 DEF IsClaim
<1>12. m >= 3 => flicker
  BY <1>1 DEF IInv, RequestOK, WindowOK
<1>13. UNCHANGED <<path, flicker>>
  BY <1>5 DEF Moved
<1>14. ASSUME at'[q] = "complete", gen'[q] = g, job'[q] = j, moves'[q] = m
       PROVE  JobOK(q)' /\ PinOK(q)' /\ WindowOK(q)' /\ AnswerOK(q)'
  BY <1>8, <1>9, <1>12, <1>13, <1>14 DEF JobOK, PinOK, WindowOK, AnswerOK, Pinned
<1>15. "complete" \in Activities /\ "complete" \notin Pinned
  BY DEF Activities, Pinned
<1> QED
  BY <1>5, <1>6, <1>7, <1>8, <1>9, <1>10, <1>11, <1>14, <1>15, MovedIInv

\* A request answers with c.
LEMMA UseIInv ==
    ASSUME IInv, NEW q \in Requests, NEW c \in Content, at[q] \in Pinned, probe[q] = "off",
           Use(q, c), UNCHANGED <<world, shared, probe, gen, seen>>,
           ~flicker => c = job[q].snap
    PROVE  IInv'
<1>1. PICK m, g, j : m = moves[q] /\ g = gen[q] /\ j = [job[q] EXCEPT !.used = c]
  OBVIOUS
<1>2. Moved(q, "answered", "off", g, j, m) /\ ready' = ready
  BY <1>1 DEF Use, Go, Moved, world, history, shared, IInv, TypeOK
<1>3. job[q] \in Jobs /\ g \in Generations \cup {None} /\ m \in 0..3
  BY <1>1 DEF IInv, TypeOK
<1>4. /\ j \in Jobs /\ j.used = c
      /\ j.snap = job[q].snap /\ j.before = job[q].before /\ j.cached = job[q].cached
  BY <1>1, <1>3 DEF Jobs
<1>5. Known(g) /\ Known(j.before) /\ (j.cached # None => Known(j.cached.gen))
  BY <1>1, <1>4 DEF IInv, RequestOK, KnownOK
<1>6. j.cached # None /\ j.cached.stable /\ ~flicker => IsClaim(j.cached.gen, j.cached.content)
  BY <1>4, HeldClaim
<1>7. UNCHANGED <<path, flicker>>
  BY <1>2 DEF Moved
<1>8. m >= 3 => flicker
  BY <1>1 DEF IInv, RequestOK, WindowOK
<1>9. ASSUME at'[q] = "answered", gen'[q] = g, job'[q] = j, moves'[q] = m
      PROVE  JobOK(q)' /\ PinOK(q)' /\ WindowOK(q)' /\ AnswerOK(q)'
  BY <1>4, <1>7, <1>8, <1>9 DEF JobOK, PinOK, WindowOK, AnswerOK, Pinned
<1>10. "answered" \in Activities /\ "answered" \notin Pinned
  BY DEF Activities, Pinned
<1> QED
  BY <1>2, <1>3, <1>4, <1>5, <1>6, <1>9, <1>10, MovedIInv

\* Two claims of one generation are one content.
LEMMA SameContent ==
    ASSUME IInv, ~flicker, NEW q \in Requests, Settled(q),
           job[q].cached # None, job[q].cached.stable, job[q].cached.gen = gen[q]
    PROVE  job[q].cached.content = job[q].snap
<1>1. IsClaim(gen[q], job[q].snap)
  BY DEF IsClaim
<1>2. IsClaim(gen[q], job[q].cached.content)
  BY DEF IsClaim
<1>3. PICK g, c, d : g = gen[q] /\ c = job[q].cached.content /\ d = job[q].snap
  OBVIOUS
<1> QED
  BY <1>1, <1>2, <1>3 DEF IInv, ClaimInv

LEMMA AnswerIInv ==
    ASSUME IInv, NEW q \in Requests, Answer(q)
    PROVE  IInv'
<1>1. at[q] = "readSecond" /\ probe[q] = "off" /\ UNCHANGED <<world, shared, probe, gen, seen>>
  BY DEF Answer, At, prober
<1>2. at[q] \in Pinned /\ job[q] \in Jobs
  BY <1>1 DEF Pinned, IInv, TypeOK
<1>3. job[q].snap \in Content /\ job[q].cached \in Rankings /\ job[q].cached # None
  BY <1>1, <1>2 DEF IInv, RequestOK, JobOK, Jobs
<1>4. CASE Changed(q)
  <2>1. Use(q, job[q].snap)
    BY <1>4 DEF Answer
  <2> QED
    BY <1>1, <1>2, <1>3, <2>1, UseIInv
<1>5. CASE ~Changed(q)
  <2>1. Use(q, job[q].cached.content)
    BY <1>5 DEF Answer
  <2>2. job[q].cached.content \in Content /\ job[q].cached.gen \in Generations
    BY <1>3 DEF Rankings
  <2>3. /\ job[q].cached.stable /\ job[q].before = job[q].cached.gen
        /\ job[q].before = gen[q] /\ job[q].db = path /\ gen[q] # None
    BY <1>5, <2>2, SnapshotAssumption DEF Changed, PathStillMatches
  <2>4. ASSUME ~flicker PROVE job[q].cached.content = job[q].snap
    <3>1. job[q].db # job[q].before.file => moves[q] >= 3
      BY <1>1, <2>3 DEF IInv, RequestOK, WindowOK
    <3>2. moves[q] >= 3 => flicker
      BY DEF IInv, RequestOK, WindowOK
    <3>3. Settled(q)
      BY <1>1, <1>2, <2>3, <2>4, <3>1, <3>2 DEF Settled, Reference
    <3> QED
      BY <1>3, <2>3, <2>4, <3>3, SameContent
  <2> QED
    BY <1>1, <1>2, <2>1, <2>2, <2>4, UseIInv
<1> QED
  BY <1>4, <1>5

LEMMA BeginDescribeIInv ==
    ASSUME IInv, NEW q \in Requests, BeginDescribe(q)
    PROVE  IInv'
<1>1. PICK j, g : j = [job[q] EXCEPT !.db = path] /\ g = gen[q]
  OBVIOUS
<1>2. Moved(q, "matchOpen", "off", g, j, 0) /\ ready' = ready
  BY <1>1 DEF BeginDescribe, At, Go, Moved, shared, prober, IInv, TypeOK
<1>3. job[q] \in Jobs /\ path \in Files /\ path # None /\ g \in Generations \cup {None}
  BY <1>1, SnapshotAssumption DEF IInv, TypeOK
<1>4. j \in Jobs /\ j.db = path /\ j.cached = job[q].cached /\ j.before = job[q].before
  BY <1>1, <1>3 DEF Jobs
<1>5. Known(g) /\ Known(j.before) /\ (j.cached # None => Known(j.cached.gen))
  BY <1>1, <1>4 DEF IInv, RequestOK, KnownOK
<1>6. j.cached # None /\ j.cached.stable /\ ~flicker => IsClaim(j.cached.gen, j.cached.content)
  BY <1>4, HeldClaim
<1>7. UNCHANGED <<path, flicker>>
  BY <1>2 DEF Moved
<1>8. ASSUME at'[q] = "matchOpen", gen'[q] = g, job'[q] = j, moves'[q] = 0
      PROVE  JobOK(q)' /\ PinOK(q)' /\ WindowOK(q)' /\ AnswerOK(q)'
  BY <1>3, <1>4, <1>7, <1>8 DEF JobOK, PinOK, WindowOK, AnswerOK, Pinned
<1>9. "matchOpen" \in Activities /\ "matchOpen" \notin Pinned /\ 0 \in 0..3
  BY DEF Activities, Pinned
<1> QED
  BY <1>2, <1>3, <1>4, <1>5, <1>6, <1>8, <1>9, MovedIInv

LEMMA ReadReadyIInv ==
    ASSUME IInv, NEW q \in Requests, ReadReady(q)
    PROVE  IInv'
<1>a. CASE ready = None
  BY <1>a, GiveUpIInv DEF ReadReady, At
<1>b. CASE ready # None
  <2>1. PICK j, m : j = [job[q] EXCEPT !.cached = ready] /\ m = moves[q]
    OBVIOUS
  <2>2. Moved(q, "matchFirst", "identify", None, j, m) /\ ready' = ready /\ at[q] = "matchOpen"
    BY <1>b, <2>1 DEF ReadReady, At, Go, StartProbe, Moved, world, history, shared, IInv, TypeOK
  <2>3. job[q] \in Jobs /\ ready \in Rankings /\ m \in 0..3
    BY <1>b, <2>1 DEF IInv, TypeOK
  <2>4. j \in Jobs /\ j.db = job[q].db /\ j.cached = ready /\ j.before = job[q].before
    BY <2>1, <2>3 DEF Jobs
  <2>5. ready.stable /\ Known(ready.gen) /\ Known(j.before) /\ Known(None)
    BY <1>b, <2>4 DEF IInv, ReadyInv, RequestOK, KnownOK, Known
  <2>6. IsClaim(j.cached.gen, j.cached.content)
    BY <1>b, <2>4 DEF IsClaim
  <2>7. UNCHANGED <<path, flicker>>
    BY <2>2 DEF Moved
  <2>8. j.db # None /\ (path # j.db => m >= 1) /\ (m >= 3 => flicker)
    BY <2>1, <2>2, <2>4 DEF IInv, RequestOK, JobOK, WindowOK
  <2>9. ASSUME at'[q] = "matchFirst", gen'[q] = None, job'[q] = j, moves'[q] = m
        PROVE  JobOK(q)' /\ PinOK(q)' /\ WindowOK(q)' /\ AnswerOK(q)'
    BY <1>b, <2>4, <2>5, <2>7, <2>8, <2>9 DEF JobOK, PinOK, WindowOK, AnswerOK, Pinned
  <2>10. "matchFirst" \in Activities /\ "matchFirst" \notin Pinned
    BY DEF Activities, Pinned
  <2> QED
    BY <1>b, <2>2, <2>3, <2>4, <2>5, <2>6, <2>9, <2>10, MovedIInv
<1> QED
  BY <1>a, <1>b

LEMMA DescribeMatchedIInv ==
    ASSUME IInv, NEW q \in Requests, DescribeMatched(q)
    PROVE  IInv'
<1>1. CASE ~SnapshotMatches(q)
  BY <1>1, GiveUpIInv DEF DescribeMatched, At
<1>2. CASE SnapshotMatches(q)
  <2>1. PICK m, g, j : m = moves[q] /\ g = gen[q] /\ j = job[q]
    OBVIOUS
  <2>2. Moved(q, "matchPin", "off", g, j, m) /\ ready' = ready /\ at[q] = "matchFirst"
    BY <1>2, <2>1 DEF DescribeMatched, At, Go, Moved, world, history, shared, IInv, TypeOK
  <2>3. j \in Jobs /\ g \in Generations \cup {None} /\ m \in 0..3
    BY <2>1 DEF IInv, TypeOK
  <2>4. /\ Known(g) /\ Known(j.before) /\ (j.cached # None => Known(j.cached.gen))
        /\ j.cached # None /\ j.cached.stable /\ j.db # None
    BY <2>1, <2>2 DEF IInv, RequestOK, KnownOK, JobOK
  <2>5. g = j.cached.gen /\ j.db = path /\ g # None
    <3>1. j.cached \in Rankings
      BY <2>3, <2>4 DEF Jobs
    <3>2. j.cached.gen # None
      BY <3>1, SnapshotAssumption DEF Rankings
    <3> QED
      BY <1>2, <2>1, <3>2 DEF SnapshotMatches, PathStillMatches
  <2>6. IsClaim(j.cached.gen, j.cached.content)
    BY <2>1, <2>4, HeldClaim
  <2>7. UNCHANGED <<path, flicker>>
    BY <2>2 DEF Moved
  <2>8. (m >= 3 => flicker) /\ (j.db # g.file => m >= 2)
    BY <2>1, <2>2, <2>5 DEF IInv, RequestOK, WindowOK
  <2>9. ASSUME at'[q] = "matchPin", gen'[q] = g, job'[q] = j, moves'[q] = m
        PROVE  JobOK(q)' /\ PinOK(q)' /\ WindowOK(q)' /\ AnswerOK(q)'
    BY <2>4, <2>5, <2>7, <2>8, <2>9 DEF JobOK, PinOK, WindowOK, AnswerOK, Pinned
  <2>10. "matchPin" \in Activities /\ "matchPin" \notin Pinned
    BY DEF Activities, Pinned
  <2> QED
    BY <2>2, <2>3, <2>4, <2>6, <2>9, <2>10, MovedIInv
<1> QED
  BY <1>1, <1>2

LEMMA DescribeAnswerIInv ==
    ASSUME IInv, NEW q \in Requests, DescribeAnswer(q)
    PROVE  IInv'
<1>1. CASE ~SnapshotMatches(q)
  BY <1>1, GiveUpIInv DEF DescribeAnswer, At
<1>2. CASE SnapshotMatches(q)
  <2>1. at[q] = "matchSecond" /\ probe[q] = "off" /\ UNCHANGED <<world, shared, probe, gen, seen>>
        /\ Use(q, job[q].cached.content)
    BY <1>2 DEF DescribeAnswer, At
  <2>2. at[q] \in Pinned /\ job[q] \in Jobs
    BY <2>1 DEF Pinned, IInv, TypeOK
  <2>3. job[q].cached \in Rankings /\ job[q].cached # None /\ job[q].cached.stable
    BY <2>1, <2>2 DEF IInv, RequestOK, JobOK, Jobs
  <2>4. job[q].cached.content \in Content /\ job[q].cached.gen \in Generations
    BY <2>3 DEF Rankings
  <2>5. gen[q] = job[q].cached.gen /\ gen[q] # None
    BY <1>2, <2>4, SnapshotAssumption DEF SnapshotMatches
  <2>6. ASSUME ~flicker PROVE job[q].cached.content = job[q].snap
    <3>1. job[q].db # job[q].cached.gen.file => moves[q] >= 3
      BY <2>1, <2>5 DEF IInv, RequestOK, WindowOK
    <3>2. moves[q] >= 3 => flicker
      BY DEF IInv, RequestOK, WindowOK
    <3>3. Settled(q)
      BY <2>1, <2>2, <2>5, <2>6, <3>1, <3>2 DEF Settled, Reference
    <3> QED
      BY <2>3, <2>5, <2>6, <3>3, SameContent
  <2> QED
    BY <2>1, <2>2, <2>4, <2>6, UseIInv
<1> QED
  BY <1>1, <1>2

-----------------------------------------------------------------------------
(* The steps of a probe.                                                   *)

\* Only the probe of q moves; it may take or release the mutex, and change the
\* observer while it holds it.
Probed(q) ==
    /\ probe[q] # "off"
    /\ UNCHANGED <<path, commits, swaps, moves, flicker, ready, at, job>>
    /\ TypeOK' /\ ObserverStep /\ ObserverInv'
    /\ \A r \in Requests : r # q => probe'[r] = probe[r] /\ seen'[r] = seen[r] /\ gen'[r] = gen[r]
    /\ \/ lock' = lock /\ observer' = observer
       \/ lock \in {None, q} /\ lock' \in {None, q}

LEMMA ProbedOthers ==
    ASSUME IInv, NEW q \in Requests, Probed(q), NEW r \in Requests, r # q
    PROVE  RequestOK(r)'
<1>0. RequestOK(r) /\ r # None
  BY SnapshotAssumption DEF IInv
<1>1. probe[r] \in Locked => observer' = observer /\ lock' = lock
  BY <1>0 DEF Probed, RequestOK, ProbeOK
<1>2. /\ at'[r] = at[r] /\ probe'[r] = probe[r] /\ gen'[r] = gen[r] /\ job'[r] = job[r]
      /\ moves'[r] = moves[r] /\ seen'[r] = seen[r]
      /\ UNCHANGED <<path, commits, flicker>>
  BY DEF Probed
<1>3. ProbeOK(r)'
  <2>1. lock' = r <=> lock = r
    BY <1>0 DEF Probed
  <2> QED
    BY <1>0, <1>1, <1>2, <2>1 DEF RequestOK, ProbeOK, Locked
<1>4. KnownOK(r)'
  <2>1. gen[r] \in Generations \cup {None} /\ job[r] \in Jobs
    BY DEF IInv, TypeOK
  <2>2. job[r].before \in Generations \cup {None}
        /\ (job[r].cached # None => job[r].cached.gen \in Generations)
    BY <2>1 DEF Jobs, Rankings
  <2>3. KnownOK(r) /\ ObserverStep
    BY <1>0 DEF RequestOK, Probed
  <2>4. Known(gen[r])' /\ Known(job[r].before)' /\ (job[r].cached # None => Known(job[r].cached.gen)')
    <3>1. PICK g, b, c : g = gen[r] /\ b = job[r].before /\ c = job[r].cached
      OBVIOUS
    <3>2. Known(g)' /\ Known(b)' /\ (c # None => Known(c.gen)')
      BY <2>1, <2>2, <2>3, <3>1, KnownFrame DEF KnownOK
    <3>3. g = gen[r]' /\ b = job[r].before' /\ c = job[r].cached'
      BY <1>2, <3>1
    <3> QED
      BY <1>2, <3>2, <3>3 DEF Known
  <2> QED
    BY <1>2, <2>4 DEF KnownOK, Known
<1>5. JobOK(r)' /\ AnswerOK(r)'
  BY <1>0, <1>2 DEF RequestOK, JobOK, AnswerOK
<1>6. WindowOK(r)'
  BY <1>0, <1>2 DEF RequestOK, WindowOK
<1>7. PinOK(r)'
  <2> SUFFICES ASSUME at[r] \in Pinned PROVE PinOK(r)'
    BY <1>2 DEF PinOK
  <2>1. PICK g : g = Reference(r) /\ g = Reference(r)'
    BY <1>2 DEF Reference
  <2>2. PinOK(r) /\ Known(g) /\ g \in Generations \cup {None}
    <3>1. /\ at[r] = "matchSecond" => job[r].cached # None
          /\ job[r] \in Jobs
      BY <1>0 DEF RequestOK, JobOK, IInv, TypeOK
    <3>2. g \in Generations \cup {None}
      BY <2>1, <3>1 DEF Reference, Jobs, Rankings
    <3> QED
      BY <1>0, <2>1, <3>1, <3>2 DEF RequestOK, KnownOK, Reference
  <2>3. g # None => g.epoch < nextEpoch /\ g.epoch \in Nat
    BY <2>2 DEF Known, Generations
  <2>4. g # None /\ observer' # None /\ observer'.epoch = g.epoch => observer' = observer
    BY <2>3 DEF Probed, ObserverStep
  <2>5. probe[r] = "attest" => observer' = observer
    BY <1>1 DEF Locked
  <2> QED
    BY <1>2, <2>1, <2>2, <2>4, <2>5 DEF PinOK
<1> QED
  BY <1>3, <1>4, <1>5, <1>6, <1>7 DEF RequestOK

\* The request itself, but for what its probe says.
LEMMA ProbedSelf ==
    ASSUME IInv, NEW q \in Requests, Probed(q), Known(gen[q])'
    PROVE  KnownOK(q)' /\ JobOK(q)' /\ AnswerOK(q)' /\ ReadyInv'
<1>0. RequestOK(q)
  BY DEF IInv
<1>1. at'[q] = at[q] /\ job'[q] = job[q] /\ UNCHANGED <<commits, flicker, ready>>
  BY DEF Probed
<1>2. job[q] \in Jobs /\ ready \in Rankings \cup {None}
  BY DEF IInv, TypeOK
<1>3. PICK b, c, d : b = job[q].before /\ c = job[q].cached /\ d = ready
  OBVIOUS
<1>4. /\ b \in Generations \cup {None}
      /\ c # None => c.gen \in Generations
      /\ d # None => d.gen \in Generations
  BY <1>2, <1>3 DEF Jobs, Rankings
<1>5. Known(b) /\ (c # None => Known(c.gen)) /\ (d # None => Known(d.gen))
  BY <1>0, <1>3 DEF RequestOK, KnownOK, IInv, ReadyInv
<1>6. Known(b)' /\ (c # None => Known(c.gen)') /\ (d # None => Known(d.gen)')
  BY <1>4, <1>5, KnownFrame DEF Probed
<1>7. b = job[q].before' /\ c = job[q].cached' /\ d = ready'
  BY <1>1, <1>3
<1>8. KnownOK(q)'
  BY <1>6, <1>7 DEF KnownOK
<1>9. ReadyInv'
  BY <1>3, <1>6, <1>7 DEF IInv, ReadyInv
<1>10. at[q] # "matchPin"
  BY <1>0 DEF RequestOK, ProbeOK, Probed
<1> QED
  BY <1>0, <1>1, <1>8, <1>9, <1>10 DEF RequestOK, JobOK, AnswerOK

\* While the probe has no result, no claim is new.
LEMMA ProbedClaims ==
    ASSUME IInv, NEW q \in Requests, Probed(q),
           NEW h, NEW c, IsClaim(h, c)', Settled(q)' => ~(h = gen'[q] /\ c = job'[q].snap)
    PROVE  IsClaim(h, c) /\ h \in Generations
<1>1. UNCHANGED <<ready, at, job>> /\ \A r \in Requests : r # q => probe'[r] = probe[r] /\ gen'[r] = gen[r]
  BY DEF Probed
<1>2. CASE ready' # None /\ h = ready'.gen /\ c = ready'.content
  BY <1>1, <1>2 DEF IsClaim, IInv, TypeOK, Rankings
<1>3. ASSUME NEW r \in Requests, job'[r].cached # None, job'[r].cached.stable,
             h = job'[r].cached.gen, c = job'[r].cached.content
      PROVE  IsClaim(h, c) /\ h \in Generations
  <2>1. job[r].cached \in Rankings
    BY <1>1, <1>3 DEF IInv, TypeOK, Jobs
  <2> QED
    BY <1>1, <1>3, <2>1 DEF IsClaim, Rankings
<1>4. ASSUME NEW r \in Requests, Settled(r)', h = gen'[r], c = job'[r].snap
      PROVE  IsClaim(h, c) /\ h \in Generations
  <2>1. r # q
    BY <1>4
  <2>2. Settled(r) /\ h = gen[r] /\ c = job[r].snap
    BY <1>1, <1>4, <2>1 DEF Settled, Reference
  <2> QED
    BY <2>2 DEF IsClaim, Settled, IInv, TypeOK
<1> QED
  BY <1>2, <1>3, <1>4 DEF IsClaim

\* A step of the probe that returns no generation.
LEMMA ProbedIInv ==
    ASSUME IInv, NEW q \in Requests, Probed(q), gen'[q] = None, ProbeOK(q)',
           at[q] \in Pinned /\ probe'[q] = "attest" /\ observer'.file = job[q].db
               => job[q].snap[2] <= observer'.base + seen'[q].version
    PROVE  IInv'
<1>0. RequestOK(q)
  BY DEF IInv
<1>1. /\ at'[q] = at[q] /\ job'[q] = job[q] /\ moves'[q] = moves[q]
      /\ UNCHANGED <<path, commits, flicker, ready>>
  BY DEF Probed
<1>2. KnownOK(q)' /\ JobOK(q)' /\ AnswerOK(q)' /\ ReadyInv'
  BY ProbedSelf DEF Known
<1>3. WindowOK(q)'
  BY <1>0, <1>1 DEF RequestOK, WindowOK
<1>4. PinOK(q)'
  <2> SUFFICES ASSUME at[q] \in Pinned PROVE PinOK(q)'
    BY <1>1 DEF PinOK
  <2>1. PICK g : g = Reference(q) /\ g = Reference(q)'
    BY <1>1 DEF Reference
  <2>2. PinOK(q) /\ Known(g) /\ g \in Generations \cup {None}
    <3>1. /\ at[q] = "matchSecond" => job[q].cached # None
          /\ job[q] \in Jobs
      BY <1>0 DEF RequestOK, JobOK, IInv, TypeOK
    <3>2. g \in Generations \cup {None}
      BY <2>1, <3>1 DEF Reference, Jobs, Rankings
    <3> QED
      BY <1>0, <2>1, <3>1, <3>2 DEF RequestOK, KnownOK, Reference
  <2>3. g # None => g.epoch < nextEpoch /\ g.epoch \in Nat
    BY <2>2 DEF Known, Generations
  <2>4. g # None /\ observer' # None /\ observer'.epoch = g.epoch => observer' = observer
    BY <2>3 DEF Probed, ObserverStep
  <2> QED
    BY <1>1, <2>1, <2>2, <2>4 DEF PinOK
<1>5. RequestOK(q)'
  BY <1>2, <1>3, <1>4 DEF RequestOK
<1>6. \A r \in Requests : RequestOK(r)'
  BY <1>5, ProbedOthers
<1>7. ClaimInv'
  <2>1. ~Settled(q)'
    BY DEF Settled
  <2>2. ASSUME NEW h, NEW c, ~flicker', IsClaim(h, c)' PROVE IsClaim(h, c) /\ h \in Generations
    BY <2>1, <2>2, ProbedClaims
  <2>3. ObserverStep
    BY DEF Probed
  <2> QED
    BY <1>1, <2>2, <2>3, ClaimFrame DEF IInv
<1> QED
  BY <1>2, <1>6, <1>7 DEF IInv, Probed

\* The variables of a probe after a step.
LEMMA ProbeTypes ==
    ASSUME TypeOK, NEW q \in Requests, NEW p \in ProbeSteps, NEW s \in Looks,
           NEW g \in Generations \cup {None},
           probe' = [probe EXCEPT ![q] = p], seen' = [seen EXCEPT ![q] = s],
           gen' = [gen EXCEPT ![q] = g],
           UNCHANGED <<path, commits, swaps, moves, flicker, ready, at, job>>,
           observer' \in Observers \cup {None}, lock' \in Requests \cup {None}, nextEpoch' \in Nat
    PROVE  /\ TypeOK'
           /\ probe'[q] = p /\ seen'[q] = s /\ gen'[q] = g
           /\ \A r \in Requests : r # q =>
                 probe'[r] = probe[r] /\ seen'[r] = seen[r] /\ gen'[r] = gen[r]
<1>1. /\ probe' \in [Requests -> ProbeSteps] /\ seen' \in [Requests -> Looks]
      /\ gen' \in [Requests -> Generations \cup {None}]
  BY DEF TypeOK
<1>2. TypeOK'
  BY <1>1 DEF TypeOK
<1> QED
  BY <1>2 DEF TypeOK

\* What q's probe may have read when it is at p.
SoundLook(q, p, s) ==
    /\ p # "off" /\ (p \in Locked <=> probe[q] \in Locked)
    /\ p \in {"version", "attest"} => observer # None
    /\ p = "attest" => observer.base + s.version <= commits[observer.file]
    /\ p \in {"lock"} \cup Locked => s.ident # None
    /\ p = "attestOpen" => s.conn # None
    /\ p = "attest" /\ at[q] \in Pinned /\ observer.file = job[q].db
          => job[q].snap[2] <= observer.base + s.version

\* A step of q's probe that leaves the mutex and the observer alone.
LEMMA QuietProbe ==
    ASSUME IInv, NEW q \in Requests, NEW p \in ProbeSteps, NEW s \in Looks,
           probe[q] # "off", SoundLook(q, p, s),
           probe' = [probe EXCEPT ![q] = p], seen' = [seen EXCEPT ![q] = s],
           UNCHANGED <<world, shared, at, gen, job>>
    PROVE  IInv'
<1>0. RequestOK(q) /\ gen[q] = None
  BY DEF IInv, RequestOK, ProbeOK
<1>1. /\ UNCHANGED <<observer, lock, nextEpoch>>
      /\ UNCHANGED <<path, commits, swaps, moves, flicker, ready, at, job>>
      /\ gen' = [gen EXCEPT ![q] = None]
  BY <1>0 DEF world, history, shared, IInv, TypeOK
<1>2. /\ TypeOK
      /\ observer' \in Observers \cup {None} /\ lock' \in Requests \cup {None} /\ nextEpoch' \in Nat
  BY <1>1 DEF IInv, TypeOK
<1>3. /\ TypeOK'
      /\ probe'[q] = p /\ seen'[q] = s /\ gen'[q] = None
      /\ \A r \in Requests : r # q =>
            probe'[r] = probe[r] /\ seen'[r] = seen[r] /\ gen'[r] = gen[r]
  BY <1>1, <1>2, ProbeTypes
<1>4. Probed(q)
  <2>1. ObserverStep
    BY <1>1, <1>2 DEF ObserverStep
  <2>2. ObserverInv'
    BY <1>1 DEF IInv, ObserverInv
  <2> QED
    BY <1>1, <1>3, <2>1, <2>2 DEF Probed
<1>5. ProbeOK(q)'
  <2>1. at[q] \notin {"idle", "pin", "complete", "readPin", "matchPin", "answered"}
    BY <1>0 DEF RequestOK, ProbeOK
  <2> QED
    BY <1>0, <1>1, <1>3, <2>1 DEF RequestOK, ProbeOK, SoundLook
<1>6. at[q] \in Pinned /\ p = "attest" /\ observer.file = job[q].db
         => job[q].snap[2] <= observer.base + s.version
  BY DEF SoundLook
<1> QED
  BY <1>1, <1>3, <1>4, <1>5, <1>6, ProbedIInv

LEMMA IdentifyIInv ==
    ASSUME IInv, NEW q \in Requests, Identify(q)
    PROVE  IInv'
<1>1. PICK s : s = [NoLook EXCEPT !.ident = path]
  OBVIOUS
<1>2. s \in Looks /\ s.ident # None
  BY <1>1, SnapshotAssumption DEF NoLook, Looks, IInv, TypeOK
<1>3. "lock" \in ProbeSteps /\ "lock" \notin Locked
  BY DEF ProbeSteps, Locked
<1>4. /\ probe[q] = "identify"
      /\ seen' = [seen EXCEPT ![q] = s] /\ probe' = [probe EXCEPT ![q] = "lock"]
      /\ UNCHANGED <<world, shared, at, gen, job>>
  BY <1>1 DEF Identify
<1>5. probe[q] \notin Locked
  BY <1>4 DEF Locked
<1>6. SoundLook(q, "lock", s)
  BY <1>2, <1>3, <1>5 DEF SoundLook
<1> QED
  BY <1>2, <1>3, <1>4, <1>6, QuietProbe

LEMMA OpenObserverIInv ==
    ASSUME IInv, NEW q \in Requests, OpenObserver(q)
    PROVE  IInv'
<1>1. PICK s : s = [seen[q] EXCEPT !.conn = path]
  OBVIOUS
<1>2. probe[q] = "open" /\ seen[q] \in Looks /\ path \in Files /\ path # None /\ seen[q].ident # None
  BY SnapshotAssumption DEF OpenObserver, IInv, TypeOK, RequestOK, ProbeOK, Locked
<1>3. s \in Looks /\ s.ident # None /\ s.conn # None
  BY <1>1, <1>2 DEF Looks
<1>4. "attestOpen" \in ProbeSteps /\ "attestOpen" \in Locked /\ probe[q] \in Locked
  BY <1>2 DEF ProbeSteps, Locked
<1>5. /\ seen' = [seen EXCEPT ![q] = s] /\ probe' = [probe EXCEPT ![q] = "attestOpen"]
      /\ UNCHANGED <<world, shared, at, gen, job>>
  BY <1>1 DEF OpenObserver, IInv, TypeOK
<1>6. SoundLook(q, "attestOpen", s)
  BY <1>3, <1>4 DEF SoundLook
<1> QED
  BY <1>2, <1>3, <1>4, <1>5, <1>6, QuietProbe

\* data_version counts the commits since the observer was opened; a snapshot
\* of its file that is pinned already has no more of them.
LEMMA ReadVersionIInv ==
    ASSUME IInv, NEW q \in Requests, ReadVersion(q)
    PROVE  IInv'
<1>1. PICK v : v = commits[observer.file] - observer.base
  OBVIOUS
<1>2. PICK s : s = [seen[q] EXCEPT !.version = v]
  OBVIOUS
<1>3. probe[q] = "version" /\ seen[q] \in Looks /\ observer # None /\ seen[q].ident # None
  BY DEF ReadVersion, IInv, TypeOK, RequestOK, ProbeOK, Locked
<1>4. /\ observer.file \in Files /\ observer.base \in 0..MaxCommits
      /\ commits[observer.file] \in 0..MaxCommits /\ observer.base <= commits[observer.file]
  <2>1. observer \in Observers /\ commits \in [Files -> 0..MaxCommits]
    BY <1>3 DEF IInv, TypeOK
  <2> QED
    BY <1>3, <2>1 DEF Observers, IInv, ObserverInv
<1>5. v \in 0..MaxCommits /\ observer.base + v = commits[observer.file]
  BY <1>1, <1>4, SnapshotAssumption
<1>6. s \in Looks /\ s.ident # None /\ s.version = v
  BY <1>2, <1>3, <1>5 DEF Looks
<1>7. at[q] \in Pinned => job[q].snap[2] <= commits[job[q].db]
  BY DEF IInv, RequestOK, JobOK
<1>8. "attest" \in ProbeSteps /\ "attest" \in Locked /\ probe[q] \in Locked
  BY <1>3 DEF ProbeSteps, Locked
<1>9. /\ seen' = [seen EXCEPT ![q] = s] /\ probe' = [probe EXCEPT ![q] = "attest"]
      /\ UNCHANGED <<world, shared, at, gen, job>>
  BY <1>1, <1>2 DEF ReadVersion, IInv, TypeOK
<1>10. observer.base + s.version <= commits[observer.file]
  BY <1>4, <1>5, <1>6
<1>11. at[q] \in Pinned /\ observer.file = job[q].db => job[q].snap[2] <= observer.base + s.version
  BY <1>5, <1>6, <1>7
<1>12. SoundLook(q, "attest", s)
  BY <1>3, <1>6, <1>8, <1>10, <1>11 DEF SoundLook
<1> QED
  BY <1>3, <1>6, <1>8, <1>9, <1>12, QuietProbe

LEMMA LockObserverIInv ==
    ASSUME IInv, NEW q \in Requests, LockObserver(q)
    PROVE  IInv'
<1>0. RequestOK(q) /\ gen[q] = None /\ probe[q] = "lock" /\ lock = None /\ TypeOK
  BY DEF IInv, RequestOK, ProbeOK, LockObserver
<1>1. PICK p : /\ probe' = [probe EXCEPT ![q] = p]
               /\ \/ p = "open" /\ observer' = None
                  \/ p = "version" /\ observer' = observer /\ observer # None
  BY DEF LockObserver
<1>2. /\ lock' = q /\ nextEpoch' = nextEpoch
      /\ UNCHANGED <<path, commits, swaps, moves, flicker, ready, at, job>>
      /\ gen' = [gen EXCEPT ![q] = None] /\ seen' = [seen EXCEPT ![q] = seen[q]]
  BY <1>0 DEF LockObserver, world, history, IInv, TypeOK
<1>3. p \in ProbeSteps /\ seen[q] \in Looks /\ nextEpoch \in Nat
      /\ observer' \in Observers \cup {None} /\ lock' \in Requests \cup {None}
  BY <1>1, <1>2 DEF ProbeSteps, IInv, TypeOK
<1>4. /\ TypeOK'
      /\ probe'[q] = p /\ seen'[q] = seen[q] /\ gen'[q] = None
      /\ \A r \in Requests : r # q =>
            probe'[r] = probe[r] /\ seen'[r] = seen[r] /\ gen'[r] = gen[r]
  BY <1>0, <1>1, <1>2, <1>3, ProbeTypes
<1>5. Probed(q)
  <2>1. ObserverStep
    BY <1>1, <1>2, <1>3 DEF ObserverStep
  <2>2. ObserverInv'
    BY <1>1, <1>2 DEF IInv, ObserverInv
  <2> QED
    BY <1>0, <1>2, <1>4, <2>1, <2>2 DEF Probed
<1>6. ProbeOK(q)'
  BY <1>0, <1>1, <1>2, <1>4 DEF RequestOK, ProbeOK, Locked
<1> QED
  BY <1>1, <1>4, <1>5, <1>6, ProbedIInv

\* The mutex is released without a generation, or with g.
LEMMA ReturnEffect ==
    ASSUME IInv, NEW q \in Requests, probe[q] \in Locked, NEW g \in Generations \cup {None},
           Return(q, g), UNCHANGED <<world, observer, nextEpoch, ready, at, job>>
    PROVE  /\ Probed(q) /\ gen'[q] = g /\ probe'[q] = "off" /\ ProbeOK(q)'
           /\ UNCHANGED <<path, commits, observer, nextEpoch, flicker, moves, at, job>>
<1>1. /\ lock' = None /\ nextEpoch' = nextEpoch /\ observer' = observer
      /\ UNCHANGED <<path, commits, swaps, moves, flicker, ready, at, job>>
      /\ gen' = [gen EXCEPT ![q] = g] /\ seen' = [seen EXCEPT ![q] = NoLook]
      /\ probe' = [probe EXCEPT ![q] = "off"]
  BY DEF Return, world, history
<1>2. "off" \in ProbeSteps /\ NoLook \in Looks /\ nextEpoch \in Nat /\ TypeOK
      /\ observer' \in Observers \cup {None} /\ lock' \in Requests \cup {None}
  BY <1>1, SnapshotAssumption DEF ProbeSteps, IInv, TypeOK, NoLook, Looks
<1>3. /\ TypeOK'
      /\ probe'[q] = "off" /\ seen'[q] = NoLook /\ gen'[q] = g
      /\ \A r \in Requests : r # q =>
            probe'[r] = probe[r] /\ seen'[r] = seen[r] /\ gen'[r] = gen[r]
  BY <1>1, <1>2, ProbeTypes
<1>4. lock = q /\ q # None
  BY SnapshotAssumption DEF IInv, RequestOK, ProbeOK
<1>5. Probed(q)
  <2>1. ObserverStep
    BY <1>1, <1>2 DEF ObserverStep
  <2>2. ObserverInv'
    BY <1>1 DEF IInv, ObserverInv
  <2> QED
    BY <1>1, <1>3, <1>4, <2>1, <2>2 DEF Probed, Locked
<1>6. ProbeOK(q)'
  BY <1>1, <1>3, <1>4 DEF ProbeOK, Locked
<1> QED
  BY <1>1, <1>3, <1>5, <1>6

LEMMA UnavailableIInv ==
    ASSUME IInv, NEW q \in Requests, probe[q] \in Locked,
           Unavailable(q), UNCHANGED <<world, observer, nextEpoch, ready, at, job>>
    PROVE  IInv'
<1>1. Probed(q) /\ gen'[q] = None /\ probe'[q] = "off" /\ ProbeOK(q)'
  BY ReturnEffect DEF Unavailable
<1> QED
  BY <1>1, ProbedIInv

\* A new observer has an epoch that nobody has seen.
LEMMA AttestOpenIInv ==
    ASSUME IInv, NEW q \in Requests, AttestOpen(q)
    PROVE  IInv'
<1>0. probe[q] = "attestOpen" /\ probe[q] \in Locked /\ TypeOK
  BY DEF AttestOpen, Locked, IInv
<1>1. CASE ~Attested(q, seen[q].conn)
  BY <1>0, <1>1, UnavailableIInv DEF AttestOpen
<1>2. CASE Attested(q, seen[q].conn)
  <2>1. RequestOK(q) /\ gen[q] = None /\ lock = q /\ seen[q].conn # None /\ seen[q].ident # None
    BY <1>0 DEF IInv, RequestOK, ProbeOK
  <2>2. PICK f \in Files : f = seen[q].conn
    BY <2>1 DEF IInv, TypeOK, Looks
  <2>3. /\ observer' = [file |-> f, epoch |-> nextEpoch, base |-> commits[f]]
        /\ nextEpoch' = nextEpoch + 1 /\ lock' = lock
        /\ UNCHANGED <<path, commits, swaps, moves, flicker, ready, at, job>>
        /\ gen' = [gen EXCEPT ![q] = None] /\ seen' = [seen EXCEPT ![q] = seen[q]]
        /\ probe' = [probe EXCEPT ![q] = "version"]
    BY <1>2, <2>1, <2>2 DEF AttestOpen, world, history, IInv, TypeOK
  <2>4. /\ nextEpoch \in Nat /\ commits[f] \in 0..MaxCommits /\ seen[q] \in Looks
        /\ lock' \in Requests \cup {None} /\ "version" \in ProbeSteps
    BY <2>3 DEF IInv, TypeOK, ProbeSteps
  <2>5. observer' \in Observers /\ observer' # None
        /\ observer'.epoch = nextEpoch /\ observer'.file = f /\ observer'.base = commits[f]
    BY <2>2, <2>3, <2>4, SnapshotAssumption DEF Observers
  <2>6. /\ TypeOK'
        /\ probe'[q] = "version" /\ seen'[q] = seen[q] /\ gen'[q] = None
        /\ \A r \in Requests : r # q =>
              probe'[r] = probe[r] /\ seen'[r] = seen[r] /\ gen'[r] = gen[r]
    <3>1. observer' \in Observers \cup {None} /\ nextEpoch' \in Nat
      BY <2>3, <2>4, <2>5
    <3> QED
      BY <1>0, <2>3, <2>4, <3>1, ProbeTypes
  <2>7. Probed(q)
    <3>1. ObserverStep
      BY <2>3, <2>4, <2>5 DEF ObserverStep
    <3>2. ObserverInv'
      <4>1. commits[f] <= commits[f] /\ nextEpoch < nextEpoch + 1
        BY <2>4
      <4> QED
        BY <2>3, <2>5, <4>1 DEF ObserverInv
    <3> QED
      BY <1>0, <2>1, <2>3, <2>6, <3>1, <3>2 DEF Probed
  <2>8. ProbeOK(q)'
    BY <1>0, <2>1, <2>3, <2>5, <2>6 DEF RequestOK, ProbeOK, Locked
  <2> QED
    BY <2>6, <2>7, <2>8, ProbedIInv
<1> QED
  BY <1>1, <1>2

\* The probe returns a generation.  If it is the second of a pair and returns
\* what the first did, the snapshot between them is its content.
LEMMA FinishProbeIInv ==
    ASSUME IInv, NEW q \in Requests, FinishProbe(q)
    PROVE  IInv'
<1>0. probe[q] = "attest" /\ probe[q] \in Locked
  BY DEF FinishProbe, Locked
<1>1. CASE ~Attested(q, observer.file)
  BY <1>0, <1>1, UnavailableIInv DEF FinishProbe
<1>2. CASE Attested(q, observer.file)
  <2>1. PICK g : g = [file |-> seen[q].ident, epoch |-> observer.epoch, version |-> seen[q].version]
    OBVIOUS
  <2>2. path = g.file /\ observer.file = g.file /\ g.epoch = observer.epoch
        /\ g.version = seen[q].version
    BY <1>2, <2>1 DEF Attested
  <2>3. /\ RequestOK(q) /\ observer # None
        /\ observer.base + seen[q].version <= commits[observer.file]
    BY <1>0 DEF IInv, RequestOK, ProbeOK
  <2>4. observer \in Observers /\ seen[q] \in Looks /\ path \in Files
    BY <2>3 DEF IInv, TypeOK
  <2>5. g \in Generations /\ g # None
    <3>1. seen[q].ident \in Files
      BY <1>2, <2>4 DEF Attested
    <3> QED
      BY <2>1, <2>4, <3>1, SnapshotAssumption DEF Generations, Observers, Looks
  <2>6. /\ Probed(q) /\ gen'[q] = g /\ probe'[q] = "off" /\ ProbeOK(q)'
        /\ UNCHANGED <<path, commits, observer, nextEpoch, flicker, moves, at, job>>
    BY <1>0, <1>2, <2>1, <2>5, ReturnEffect DEF FinishProbe
  <2>7. Known(gen[q])'
    <3>1. observer.epoch < nextEpoch
      BY <2>3 DEF IInv, ObserverInv
    <3> QED
      BY <2>2, <2>3, <2>6, <3>1 DEF Known
  <2>8. KnownOK(q)' /\ JobOK(q)' /\ AnswerOK(q)' /\ ReadyInv'
    BY <2>6, <2>7, ProbedSelf
  <2>9. PinOK(q)'
    BY <2>3, <2>6 DEF RequestOK, PinOK, Reference
  <2>10. WindowOK(q)'
    BY <2>2, <2>3, <2>6 DEF RequestOK, WindowOK
  <2>11. \A r \in Requests : RequestOK(r)'
    BY <2>6, <2>8, <2>9, <2>10, ProbedOthers DEF RequestOK
  <2>12. ASSUME Settled(q)' PROVE job[q].snap = <<g.file, observer.base + g.version>>
    <3>1. at[q] \in Pinned /\ g = Reference(q) /\ job[q].db = g.file
      BY <2>6, <2>12 DEF Settled, Reference
    <3>2. /\ observer.base + g.version <= job[q].snap[2]
          /\ job[q].snap[2] <= observer.base + g.version
      BY <1>0, <2>2, <2>3, <2>5, <3>1 DEF RequestOK, PinOK
    <3>3. job[q].snap \in Content /\ job[q].snap[1] = job[q].db
      BY <2>3, <3>1 DEF RequestOK, JobOK, IInv, TypeOK, Jobs
    <3>4. PICK k \in Nat, f \in Files : job[q].snap = <<f, k>>
      BY <3>3 DEF Content
    <3>5. observer.base \in Nat /\ g.version \in Nat
      BY <2>4, <2>5 DEF Observers, Generations
    <3> QED
      BY <3>1, <3>2, <3>3, <3>4, <3>5
  <2>13. ClaimInv'
    <3> SUFFICES ASSUME ~flicker' PROVE ClaimInv'
      BY DEF ClaimInv
    <3>1. ClaimInv /\ ~flicker
      BY <2>6 DEF IInv
    <3>2. ASSUME NEW h, NEW c, IsClaim(h, c)'
          PROVE  \/ IsClaim(h, c) /\ h \in Generations
                 \/ h = g /\ c = <<g.file, observer.base + g.version>>
      <4>1. CASE Settled(q)' /\ h = gen'[q] /\ c = job'[q].snap
        BY <2>6, <2>12, <4>1
      <4>2. CASE Settled(q)' => ~(h = gen'[q] /\ c = job'[q].snap)
        BY <2>6, <3>2, <4>2, ProbedClaims
      <4> QED
        BY <4>1, <4>2
    <3>3. \A h, c : IsClaim(h, c) => Backed(h, c)
      BY <3>1 DEF ClaimInv
    <3>4. ASSUME NEW h, NEW c, IsClaim(h, c)' PROVE Backed(h, c)'
      <4>1. observer.epoch < nextEpoch
        BY <2>3 DEF IInv, ObserverInv
      <4>2. CASE IsClaim(h, c)
        BY <2>6, <3>3, <4>2 DEF Backed
      <4>3. CASE h = g /\ c = <<g.file, observer.base + g.version>>
        BY <2>2, <2>6, <4>1, <4>3 DEF Backed
      <4> QED
        BY <3>2, <3>4, <4>2, <4>3
    <3>5. ASSUME NEW c, IsClaim(g, c) PROVE c = <<g.file, observer.base + g.version>>
      BY <2>2, <2>3, <3>3, <3>5 DEF Backed
    <3>6. ASSUME NEW h, NEW c, NEW d, IsClaim(h, c)', IsClaim(h, d)' PROVE c = d
      <4>1. CASE h = g
        BY <3>2, <3>5, <3>6, <4>1
      <4>2. CASE h # g
        BY <3>1, <3>2, <3>6, <4>2 DEF ClaimInv
      <4> QED
        BY <4>1, <4>2
    <3> QED
      BY <3>4, <3>6 DEF ClaimInv
  <2> QED
    BY <2>6, <2>8, <2>11, <2>13 DEF IInv, Probed
<1> QED
  BY <1>1, <1>2

LEMMA ProbeStepIInv ==
    ASSUME IInv, NEW q \in Requests, ProbeStep(q)
    PROVE  IInv'
  BY IdentifyIInv, LockObserverIInv, OpenObserverIInv, AttestOpenIInv, ReadVersionIInv,
     FinishProbeIInv DEF ProbeStep

-----------------------------------------------------------------------------
(* Commits, changes of the path, and evictions.                            *)

LEMMA CommitIInv ==
    ASSUME IInv, NEW f \in Files, Commit(f)
    PROVE  IInv'
<1>1. /\ UNCHANGED <<path, swaps, moves, flicker, observer, lock, nextEpoch, ready, at, probe, seen,
                     gen, job>>
      /\ commits[f] < MaxCommits /\ commits' = [commits EXCEPT ![f] = @ + 1]
  BY DEF Commit, history, shared, prober
<1>2. commits \in [Files -> 0..MaxCommits]
  BY DEF IInv, TypeOK
<1>3. /\ commits' \in [Files -> 0..MaxCommits]
      /\ \A x \in Files : commits[x] \in Nat /\ commits'[x] \in Nat /\ commits[x] <= commits'[x]
  BY <1>1, <1>2, SnapshotAssumption
<1> HIDE <1>2
<1>4. TypeOK'
  BY <1>1, <1>3 DEF IInv, TypeOK
<1>5. observer # None => observer.file \in Files /\ observer.base \in Nat
  BY DEF IInv, TypeOK, Observers
<1>6. ObserverInv'
  BY <1>1, <1>3, <1>5 DEF IInv, ObserverInv
<1>7. ASSUME NEW g \in Generations \cup {None}, Known(g) PROVE Known(g)'
  <2> SUFFICES ASSUME g # None PROVE Known(g)'
    BY DEF Known
  <2>1. g.file \in Files /\ g.version \in Nat
    BY DEF Generations
  <2> QED
    BY <1>1, <1>3, <1>5, <1>7, <2>1 DEF Known
<1>8. ASSUME NEW q \in Requests PROVE RequestOK(q)'
  <2>1. RequestOK(q) /\ job[q] \in Jobs /\ gen[q] \in Generations \cup {None} /\ seen[q] \in Looks
    BY DEF IInv, TypeOK
  <2>2. ProbeOK(q)'
    <3>1. seen[q].version \in Nat
      BY <2>1 DEF Looks
    <3>2. probe[q] = "attest" => observer.base + seen[q].version <= commits'[observer.file]
      BY <1>3, <1>5, <2>1, <3>1 DEF RequestOK, ProbeOK
    <3> QED
      BY <1>1, <2>1, <3>2 DEF RequestOK, ProbeOK
  <2>3. KnownOK(q)'
    <3>1. PICK g, b, c : g = gen[q] /\ b = job[q].before /\ c = job[q].cached
      OBVIOUS
    <3>2. g \in Generations \cup {None} /\ b \in Generations \cup {None}
          /\ (c # None => c.gen \in Generations)
      BY <2>1, <3>1 DEF Jobs, Rankings
    <3>3. Known(g) /\ Known(b) /\ (c # None => Known(c.gen))
      BY <2>1, <3>1 DEF RequestOK, KnownOK
    <3>4. Known(g)' /\ Known(b)' /\ (c # None => Known(c.gen)')
      BY <1>7, <3>2, <3>3
    <3>5. g = gen'[q] /\ b = job'[q].before /\ c = job'[q].cached
      BY <1>1, <3>1
    <3> QED
      BY <3>4, <3>5 DEF KnownOK
  <2>4. JobOK(q)'
    <3>1. job[q].db # None => job[q].db \in Files
      BY <2>1 DEF Jobs
    <3>2. job[q].snap # None => job[q].snap[2] \in Nat
      BY <2>1 DEF Jobs, Content
    <3>3. at[q] \in Pinned => job[q].snap[2] <= commits'[job[q].db]
      BY <1>3, <2>1, <3>1, <3>2 DEF RequestOK, JobOK
    <3> QED
      BY <1>1, <2>1, <3>3 DEF RequestOK, JobOK
  <2>5. PinOK(q)' /\ WindowOK(q)' /\ AnswerOK(q)'
    BY <1>1, <2>1 DEF RequestOK, PinOK, Reference, WindowOK, AnswerOK
  <2> QED
    BY <2>2, <2>3, <2>4, <2>5 DEF RequestOK
<1>9. ReadyInv'
  <2>1. PICK r : r = ready
    OBVIOUS
  <2>2. r # None => r.gen \in Generations /\ Known(r.gen) /\ r.stable
    BY <2>1 DEF IInv, TypeOK, Rankings, ReadyInv
  <2>3. r # None => Known(r.gen)'
    BY <1>7, <2>2
  <2> QED
    BY <1>1, <2>1, <2>2, <2>3 DEF ReadyInv
<1>10. ClaimInv'
  <2>1. \A g, c : IsClaim(g, c)' <=> IsClaim(g, c)
    BY <1>1 DEF IsClaim, Settled, Reference
  <2>2. \A g, c : Backed(g, c)' <=> Backed(g, c)
    BY <1>1 DEF Backed
  <2> QED
    BY <1>1, <2>1, <2>2 DEF IInv, ClaimInv
<1> QED
  BY <1>4, <1>6, <1>8, <1>9, <1>10 DEF IInv

\* A change of the path is counted by every window it falls into.
LEMMA SwapIInv ==
    ASSUME IInv, NEW f \in Files, Swap(f)
    PROVE  IInv'
<1>1. /\ UNCHANGED <<commits, observer, lock, nextEpoch, ready, at, probe, seen, gen, job>>
      /\ path' = f /\ swaps < MaxSwaps /\ swaps' = swaps + 1
      /\ moves' = [q \in Requests |->
                      IF at[q] \in Window /\ moves[q] < 3 THEN moves[q] + 1 ELSE moves[q]]
  BY DEF Swap, shared, prober
<1>2. flicker' = (flicker \/ \E q \in Requests : at[q] \in Window /\ moves[q] >= 2)
  BY DEF Swap
<1>3. flicker' \in BOOLEAN /\ (flicker => flicker')
      /\ \A q \in Requests : at[q] \in Window /\ moves[q] >= 2 => flicker'
  BY <1>2
<1>4. \A q \in Requests : moves[q] \in 0..3
  BY DEF IInv, TypeOK
<1>5. /\ moves' \in [Requests -> 0..3]
      /\ \A q \in Requests :
            /\ moves'[q] = IF at[q] \in Window /\ moves[q] < 3 THEN moves[q] + 1 ELSE moves[q]
  BY <1>1, <1>4
<1>6. TypeOK'
  <2>1. swaps' \in 0..MaxSwaps
    BY <1>1, SnapshotAssumption DEF IInv, TypeOK
  <2> QED
    BY <1>1, <1>3, <1>5, <2>1 DEF IInv, TypeOK
<1>7. ObserverInv' /\ ReadyInv'
  BY <1>1 DEF IInv, ObserverInv, ReadyInv, Known
<1>8. ASSUME NEW q \in Requests PROVE RequestOK(q)'
  <2>1. RequestOK(q) /\ moves[q] \in 0..3
        /\ moves'[q] = IF at[q] \in Window /\ moves[q] < 3 THEN moves[q] + 1 ELSE moves[q]
    BY <1>4, <1>5 DEF IInv
  <2>2. ProbeOK(q)' /\ KnownOK(q)' /\ JobOK(q)' /\ PinOK(q)'
    BY <1>1, <2>1 DEF RequestOK, ProbeOK, KnownOK, Known, JobOK, PinOK, Reference
  <2>3. AnswerOK(q)'
    BY <1>1, <1>3, <2>1 DEF RequestOK, AnswerOK
  <2>4. WindowOK(q)'
    <3>1. PICK m, n : m = moves[q] /\ n = moves'[q] /\ m \in 0..3
      BY <2>1
    <3>2. at[q] \in Window => n >= 1 /\ (m >= 1 => n >= 2) /\ (m >= 2 => n >= 3)
      BY <2>1, <3>1
    <3>3. n >= 3 => flicker'
      <4>1. m >= 3 => flicker
        BY <2>1, <3>1 DEF RequestOK, WindowOK
      <4>2. n >= 3 => m >= 3 \/ (at[q] \in Window /\ m >= 2)
        BY <2>1, <3>1
      <4> QED
        BY <1>3, <3>1, <4>1, <4>2
    <3>4. /\ at'[q] = at[q] /\ gen'[q] = gen[q] /\ job'[q] = job[q] /\ path' = f
          /\ WindowOK(q)
      BY <1>1, <2>1 DEF RequestOK
    <3> QED
      BY <3>1, <3>2, <3>3, <3>4 DEF WindowOK, Window
  <2> QED
    BY <2>2, <2>3, <2>4 DEF RequestOK
<1>9. ClaimInv'
  <2>1. \A g, c : IsClaim(g, c)' <=> IsClaim(g, c)
    BY <1>1 DEF IsClaim, Settled, Reference
  <2>2. \A g, c : Backed(g, c)' <=> Backed(g, c)
    BY <1>1 DEF Backed
  <2> QED
    BY <1>3, <2>1, <2>2 DEF IInv, ClaimInv
<1> QED
  BY <1>6, <1>7, <1>8, <1>9 DEF IInv

LEMMA EvictIInv ==
    ASSUME IInv, Evict
    PROVE  IInv'
<1>1. /\ UNCHANGED <<path, commits, swaps, moves, flicker, lock, nextEpoch, at, probe, seen, gen, job>>
      /\ ready' = None /\ observer' = None
      /\ \A q \in Requests : probe[q] \in {"off", "identify"}
  BY DEF Evict, InUse, world, history, prober
<1>2. TypeOK' /\ ObserverInv' /\ ReadyInv'
  BY <1>1 DEF IInv, TypeOK, ObserverInv, ReadyInv
<1>3. ASSUME NEW q \in Requests PROVE RequestOK(q)'
  <2>1. RequestOK(q) /\ probe[q] \in {"off", "identify"}
    BY <1>1 DEF IInv
  <2>2. ProbeOK(q)'
    BY <1>1, <2>1 DEF RequestOK, ProbeOK, Locked
  <2>3. KnownOK(q)'
    BY <1>1, <2>1 DEF RequestOK, KnownOK, Known
  <2>4. JobOK(q)' /\ AnswerOK(q)'
    BY <1>1, <2>1 DEF RequestOK, JobOK, AnswerOK
  <2>5. PinOK(q)'
    BY <1>1, <2>1 DEF RequestOK, PinOK, Reference
  <2>6. WindowOK(q)'
    BY <1>1, <2>1 DEF RequestOK, WindowOK
  <2> QED
    BY <2>2, <2>3, <2>4, <2>5, <2>6 DEF RequestOK
<1>4. ClaimInv'
  <2>1. ASSUME NEW g, NEW c, ~flicker', IsClaim(g, c)' PROVE IsClaim(g, c) /\ g \in Generations
    <3>1. ASSUME NEW q \in Requests, Settled(q)', g = gen'[q], c = job'[q].snap
          PROVE  IsClaim(g, c) /\ g \in Generations
      <4>1. Settled(q) /\ g = gen[q] /\ c = job[q].snap
        BY <1>1, <3>1 DEF Settled, Reference
      <4> QED
        BY <4>1 DEF IsClaim, Settled, IInv, TypeOK
    <3>2. ASSUME NEW q \in Requests, job[q].cached # None, job[q].cached.stable,
                 g = job[q].cached.gen, c = job[q].cached.content
          PROVE  IsClaim(g, c) /\ g \in Generations
      <4>1. job[q].cached \in Rankings
        BY <3>2 DEF IInv, TypeOK, Jobs
      <4> QED
        BY <3>2, <4>1 DEF IsClaim, Rankings
    <3> QED
      BY <1>1, <2>1, <3>1, <3>2 DEF IsClaim
  <2>2. ObserverStep
    BY <1>1 DEF ObserverStep, IInv, TypeOK
  <2> QED
    BY <1>1, <2>1, <2>2, ClaimFrame DEF IInv
<1> QED
  BY <1>2, <1>3, <1>4 DEF IInv

-----------------------------------------------------------------------------
(* The theorems.                                                           *)

LEMMA NextIInv == IInv /\ [Next]_vars => IInv'
<1> SUFFICES ASSUME IInv, [Next]_vars PROVE IInv'
  OBVIOUS
<1>1. CASE UNCHANGED vars
  <2>1. UNCHANGED <<path, commits, swaps, moves, flicker, observer, lock, nextEpoch, ready, at,
                    probe, seen, gen, job>>
    BY <1>1 DEF vars, world, history, shared, prober
  <2>2. TypeOK' /\ ObserverInv' /\ ReadyInv'
    BY <2>1 DEF IInv, TypeOK, ObserverInv, ReadyInv, Known
  <2>3. \A q \in Requests : RequestOK(q)'
    BY <2>1, MovedOthers DEF IInv
  <2>4. \A g, c : (IsClaim(g, c)' <=> IsClaim(g, c)) /\ (Backed(g, c)' <=> Backed(g, c))
    BY <2>1 DEF IsClaim, Settled, Reference, Backed
  <2>5. ClaimInv'
    BY <2>1, <2>4 DEF IInv, ClaimInv
  <2> QED
    BY <2>2, <2>3, <2>5 DEF IInv
<1>2. ASSUME NEW q \in Requests, Finish(q) PROVE IInv'
  BY <1>2, GiveUpIInv DEF Finish, At
<1>3. ASSUME NEW q \in Requests, RequestStep(q) PROVE IInv'
  BY <1>2, <1>3, ProbeStepIInv, BeginOverviewIInv, LookupIInv, ProducerOpenIInv, PinSteps,
     ProducerResultIInv, CompleteIInv, ReaderOpenIInv, AnswerIInv, BeginDescribeIInv, ReadReadyIInv,
     DescribeMatchedIInv, DescribeAnswerIInv DEF RequestStep
<1> QED
  BY <1>1, <1>3, CommitIInv, SwapIInv, EvictIInv DEF Next

\* The inductive invariant of the ranking's requests.
THEOREM Inductive == Spec => []IInv
  BY InitIInv, NextIInv, PTL DEF Spec

\* Type correctness.
THEOREM TypeCorrect == Spec => []TypeOK
<1>1. IInv => TypeOK
  BY DEF IInv
<1> QED
  BY <1>1, Inductive, PTL

\* with_cached_snapshot and describe present only a ranking of the snapshot the
\* request pinned, whatever is committed, replaced, evicted and published
\* meanwhile, unless a pair of probes has seen the path change three times.
THEOREM RankingIsOfSnapshot == Spec => []RankingMatchesSnapshot
<1>1. IInv => RankingMatchesSnapshot
  BY DEF IInv, RequestOK, AnswerOK, RankingMatchesSnapshot
<1> QED
  BY <1>1, Inductive, PTL

\* complete() publishes only a ranking of the content that its generation
\* stands for, unless a pair of probes has seen the path change three times.
THEOREM PublishedIsFaithful == Spec => []PublishedFaithfulUnlessFlicker
<1>1. IInv => PublishedFaithfulUnlessFlicker
  <2> SUFFICES ASSUME IInv, ~flicker, ready # None, observer # None,
                      ready.gen.epoch = observer.epoch
               PROVE  ready.content = <<ready.gen.file, observer.base + ready.gen.version>>
    BY DEF PublishedFaithfulUnlessFlicker, PublishedRankingFaithful
  <2>1. PICK g, c : g = ready.gen /\ c = ready.content
    OBVIOUS
  <2>2. IsClaim(g, c)
    BY <2>1 DEF IsClaim
  <2>3. Backed(g, c)
    BY <2>2 DEF IInv, ClaimInv
  <2> QED
    BY <2>1, <2>3 DEF Backed
<1> QED
  BY <1>1, Inductive, PTL
=============================================================================
