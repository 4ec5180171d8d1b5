------------------------- MODULE OverviewCacheProofs -------------------------
(***************************************************************************)
(* For any number of projects, requests and flights: who waits for which   *)
(* computation, which entry stays while it is in use, and how much is      *)
(* stored.                                                                 *)
(***************************************************************************)
EXTENDS OverviewCache, FiniteSetTheorems, SequenceTheorems, TLAPS

\* The requests whose guard counts as a waiter of f.
Waiters(f) ==
    {q \in Requests : req[q].flight = f /\ pc[q] \in {"arm", "check", "wait", "leave"}}

Retirees == {f \in Flights : fl[f].retired}

\* The types, save for the ready payloads and their byte count.
Typed ==
    /\ gen \in [Projects -> Gens]
    /\ lru \in Seq(Projects)
    /\ current \in [Projects -> Flights \cup {None}]
    /\ retired \in Nat
    /\ fl \in [Flights -> FlightRec]
    /\ pc \in [Requests -> PcValues]
    /\ req \in [Requests -> ReqRec]

\* What a request holds at each place of get().
RequestInv ==
    \A q \in Requests :
        /\ pc[q] \in {"probe", "lookup"} => req[q].slot /\ req[q].project \in Projects
        /\ pc[q] \in {"idle", "probe", "lookup", "linger"} => req[q].flight = None
        /\ pc[q] \in {"arm", "check", "wait", "leave", "abandon"} =>
              req[q].flight # None /\ fl[req[q].flight].project = req[q].project

\* A flight is not freed while a request has a reference to it.
HolderInv ==
    \A q \in Requests : req[q].flight # None => fl[req[q].flight].task # "none"

\* A flight that is not there is blank; one that is there has a project, and
\* with its result it is no longer counted as retired.
FlightInv ==
    \A f \in Flights :
        /\ fl[f].task = "none" => fl[f] = NoFlight
        /\ fl[f].task # "none" => fl[f].project \in Projects
        /\ HasResult(f) => ~fl[f].retired

\* The flight a request can join.
CurrentInv ==
    \A p \in Projects : current[p] # None =>
        /\ fl[current[p]].project = p
        /\ fl[current[p]].task \in {"queued", "computing", "completing"}
        /\ ~fl[current[p]].abandoned /\ ~fl[current[p]].retired
        /\ Waiters(current[p]) # {}
        /\ p \in ToSet(lru)

CountInv ==
    \A f \in Flights :
        /\ IsFiniteSet(Waiters(f))
        /\ fl[f].waiters = Cardinality(Waiters(f))
        /\ fl[f].abandoned => Waiters(f) = {}

RetiredInv == IsFiniteSet(Retirees) /\ retired = Cardinality(Retirees)

IInv ==
    /\ Typed /\ RequestInv /\ HolderInv /\ FlightInv /\ CurrentInv /\ CountInv /\ RetiredInv
    /\ HeldEntryStays

-----------------------------------------------------------------------------
(* The order of the entries.                                               *)

\* The entry that is touched or inserted is the last one, and the one it
\* replaces is the only one that may go.
LEMMA ReplaceEffect ==
    ASSUME lru \in Seq(Projects), NEW i \in 1..Len(lru), NEW p \in Projects, Replace(i, p)
    PROVE  /\ lru' \in Seq(Projects)
           /\ p \in ToSet(lru')
           /\ \A v \in ToSet(lru) : v # lru[i] => v \in ToSet(lru')
<1> DEFINE a == SubSeq(lru, 1, i - 1)
           b == SubSeq(lru, i + 1, Len(lru))
           s == a \o b
<1>1. a \in Seq(Projects) /\ Len(a) = i - 1 /\ \A k \in 1..(i - 1) : a[k] = lru[k]
  OBVIOUS
<1>2. b \in Seq(Projects) /\ Len(b) = Len(lru) - i /\ \A k \in 1..(Len(lru) - i) : b[k] = lru[i + k]
  OBVIOUS
<1> HIDE DEF a, b
<1>3. s \in Seq(Projects) /\ Len(s) = Len(lru) - 1
  <2>1. s \in Seq(Projects) /\ Len(s) = Len(a) + Len(b)
    <3> HIDE DEF s
    <3>1. ASSUME NEW x \in Seq(Projects), NEW y \in Seq(Projects)
          PROVE  x \o y \in Seq(Projects) /\ Len(x \o y) = Len(x) + Len(y)
      BY ConcatProperties
    <3> QED
      BY <1>1, <1>2, <3>1 DEF s
  <2> QED
    BY <1>1, <1>2, <2>1
<1>4. \A k \in 1..(i - 1) : s[k] = lru[k]
  BY <1>1, <1>2, ConcatProperties
<1>5. \A k \in (i + 1)..Len(lru) : s[k - 1] = lru[k]
  <2> SUFFICES ASSUME NEW k \in (i + 1)..Len(lru) PROVE s[k - 1] = lru[k]
    OBVIOUS
  <2>1. s[k - 1] = b[k - 1 - Len(a)]
    BY <1>1, <1>2, ConcatProperties
  <2> QED
    BY <1>1, <1>2, <2>1
<1>6. lru' = Append(s, p)
  BY DEF Replace, RemoveAt, a, b
<1> HIDE DEF s
<1>7. lru' \in Seq(Projects) /\ Len(lru') = Len(lru) /\ lru'[Len(lru)] = p
      /\ \A k \in 1..(Len(lru) - 1) : lru'[k] = s[k]
  BY <1>3, <1>6
<1>8. p \in ToSet(lru')
  BY <1>7 DEF ToSet
<1>9. ASSUME NEW v \in ToSet(lru), v # lru[i] PROVE v \in ToSet(lru')
  <2>1. PICK k \in 1..Len(lru) : lru[k] = v
    BY <1>9 DEF ToSet
  <2>2. CASE k < i
    <3>1. k \in 1..(i - 1) /\ k \in 1..(Len(lru) - 1)
      BY <2>2
    <3> QED
      BY <2>1, <3>1, <1>4, <1>7 DEF ToSet
  <2>3. CASE k > i
    <3>1. k \in (i + 1)..Len(lru) /\ k - 1 \in 1..(Len(lru) - 1)
      BY <2>3
    <3>2. lru'[k - 1] = v
      BY <2>1, <3>1, <1>5, <1>7
    <3> QED
      BY <3>1, <3>2, <1>7 DEF ToSet
  <2> QED
    BY <1>9, <2>1, <2>2, <2>3
<1> QED
  BY <1>7, <1>8, <1>9

LEMMA SlotEffect ==
    ASSUME Typed, NEW p \in Projects, Slot(p)
    PROVE  /\ lru' \in Seq(Projects)
           /\ p \in ToSet(lru')
           /\ \A v \in ToSet(lru) : v \in ToSet(lru') \/ (Evictable(v) /\ p \notin ToSet(lru))
<1>1. ASSUME NEW i \in 1..Len(lru), lru[i] = p, Replace(i, p)
      PROVE  /\ lru' \in Seq(Projects) /\ p \in ToSet(lru')
             /\ \A v \in ToSet(lru) : v \in ToSet(lru')
  BY <1>1, ReplaceEffect DEF Typed
<1>2. CASE lru' = Append(lru, p)
  <2>1. lru' \in Seq(Projects) /\ Len(lru') = Len(lru) + 1 /\ lru'[Len(lru) + 1] = p
        /\ \A k \in 1..Len(lru) : lru'[k] = lru[k]
    BY <1>2 DEF Typed
  <2>2. ASSUME NEW v \in ToSet(lru) PROVE v \in ToSet(lru')
    <3>1. PICK k \in 1..Len(lru) : lru[k] = v
      BY <2>2 DEF ToSet, Typed
    <3>2. k \in 1..Len(lru') /\ lru'[k] = v
      BY <2>1, <3>1 DEF Typed
    <3> QED
      BY <2>1, <3>2 DEF ToSet
  <2>3. p \in ToSet(lru')
    BY <2>1 DEF ToSet, Typed
  <2> QED
    BY <2>1, <2>2, <2>3
<1>3. ASSUME p \notin ToSet(lru), NEW i \in 1..Len(lru), FirstEvictable(i), Replace(i, p)
      PROVE  /\ lru' \in Seq(Projects) /\ p \in ToSet(lru')
             /\ \A v \in ToSet(lru) : v \in ToSet(lru') \/ Evictable(v)
  BY <1>3, ReplaceEffect DEF Typed, FirstEvictable
<1> QED
  BY <1>1, <1>2, <1>3 DEF Slot

-----------------------------------------------------------------------------
(* Where a request goes, and what it carries.                              *)

MovesTo(q, l, project, g, f) ==
    /\ pc' \in [Requests -> PcValues]
    /\ req' \in [Requests -> ReqRec]
    /\ \A r \in Requests : r # q => pc'[r] = pc[r] /\ req'[r] = req[r]
    /\ pc'[q] = l
    /\ req'[q].project = project
    /\ req'[q].gen = g
    /\ req'[q].flight = f

\* A step that moves the request and changes none of its locals.
LEMMA Moves ==
    ASSUME Typed, NEW q \in Requests, NEW l \in PcValues, Goto(q, l), UNCHANGED req
    PROVE  MovesTo(q, l, req[q].project, req[q].gen, req[q].flight)
  BY DEF Typed, Goto, MovesTo

LEMMA MovesIn ==
    ASSUME Typed, NEW q \in Requests, NEW l \in PcValues, NEW p \in Projects, Goto(q, l),
           req' = [req EXCEPT ![q] = [NoReq EXCEPT !.project = p, !.slot = TRUE]]
    PROVE  MovesTo(q, l, p, 0, None) /\ req'[q].slot
<1> DEFINE new == [NoReq EXCEPT !.project = p, !.slot = TRUE]
<1>1. 0 \in Gens
  BY CacheAssumption DEF Gens
<1>2. new \in ReqRec /\ new.project = p /\ new.gen = 0 /\ new.flight = None /\ new.slot
  BY <1>1 DEF NoReq, ReqRec
<1>3. req' = [req EXCEPT ![q] = new]
  OBVIOUS
<1> HIDE DEF new
<1> QED
  BY <1>2, <1>3 DEF Typed, Goto, MovesTo

LEMMA MovesOut ==
    ASSUME Typed, NEW q \in Requests, EndCall(q)
    PROVE  MovesTo(q, "idle", None, 0, None)
  BY CacheAssumption DEF Typed, EndCall, Goto, MovesTo, NoReq, ReqRec, Gens, PcValues

LEMMA MovesGen ==
    ASSUME Typed, NEW q \in Requests, NEW l \in PcValues, NEW g \in Gens, Goto(q, l),
           req' = [req EXCEPT ![q].gen = g]
    PROVE  MovesTo(q, l, req[q].project, g, req[q].flight) /\ req'[q].slot = req[q].slot
  BY DEF Typed, Goto, MovesTo, ReqRec

LEMMA MovesFlight ==
    ASSUME Typed, NEW q \in Requests, NEW l \in PcValues, NEW f \in Flights, Goto(q, l),
           \/ req' = [req EXCEPT ![q].flight = f]
           \/ req' = [req EXCEPT ![q].flight = f, ![q].slot = FALSE]
    PROVE  MovesTo(q, l, req[q].project, req[q].gen, f)
  BY DEF Typed, Goto, MovesTo, ReqRec

-----------------------------------------------------------------------------
(* What a step does to the flights.                                        *)

\* The fields the waiters and the counters depend on.
SameFlight(f) ==
    /\ fl'[f].project = fl[f].project
    /\ fl'[f].gen = fl[f].gen
    /\ fl'[f].waiters = fl[f].waiters
    /\ fl'[f].abandoned = fl[f].abandoned
    /\ fl'[f].retired = fl[f].retired

OthersFly(f) ==
    /\ fl' \in [Flights -> FlightRec]
    /\ \A h \in Flights : h # f => fl'[h] = fl[h]

Pending == {"queued", "computing", "completing"}

\* One flight changes.
LEMMA FlightChange ==
    ASSUME Typed, NEW f \in Flights, NEW new \in FlightRec, fl' = [fl EXCEPT ![f] = new]
    PROVE  OthersFly(f) /\ fl'[f] = new
  BY DEF Typed, OthersFly

LEMMA StopEffect ==
    ASSUME Typed, NEW f \in Flights, fl' = [fl EXCEPT ![f].stop = TRUE]
    PROVE  OthersFly(f) /\ SameFlight(f) /\ fl'[f].task = fl[f].task
  BY DEF Typed, FlightRec, OthersFly, SameFlight

LEMMA FailEffect ==
    ASSUME Typed, NEW f \in Flights, Fail(f)
    PROVE  OthersFly(f) /\ SameFlight(f) /\ fl[f].task \in Pending /\ fl'[f].task \in Pending
<1> DEFINE new == [fl[f] EXCEPT !.task = "completing", !.outcome = "error"]
<1>1. fl[f].task \in Pending /\ fl' = [fl EXCEPT ![f] = new]
  BY DEF Fail, Typed, Pending
<1>2. fl[f] \in FlightRec /\ "completing" \in Tasks /\ "error" \in Outcomes
  BY DEF Typed, Tasks, Outcomes
<1>3. new \in FlightRec /\ new.task = "completing" /\ new.project = fl[f].project
      /\ new.gen = fl[f].gen /\ new.waiters = fl[f].waiters
      /\ new.abandoned = fl[f].abandoned /\ new.retired = fl[f].retired
  BY <1>2 DEF FlightRec
<1> HIDE DEF new
<1> QED
  BY <1>1, <1>3, FlightChange DEF SameFlight, Pending

LEMMA ComputeEffect ==
    ASSUME Typed, FlightInv, NEW f \in Flights, Compute(f)
    PROVE  OthersFly(f) /\ SameFlight(f) /\ fl[f].task \in Pending /\ fl'[f].task \in Pending
<1> DEFINE new == [fl[f] EXCEPT !.task = "computing", !.before = gen[fl[f].project]]
<1>1. fl[f].task \in Pending /\ fl' = [fl EXCEPT ![f] = new]
  BY DEF Compute, Typed, Pending
<1>2. fl[f] \in FlightRec /\ "computing" \in Tasks /\ gen[fl[f].project] \in Gens
  BY DEF Typed, Tasks, FlightInv, Compute
<1>3. new \in FlightRec /\ new.task = "computing" /\ new.project = fl[f].project
      /\ new.gen = fl[f].gen /\ new.waiters = fl[f].waiters
      /\ new.abandoned = fl[f].abandoned /\ new.retired = fl[f].retired
  BY <1>2 DEF FlightRec
<1> HIDE DEF new
<1> QED
  BY <1>1, <1>3, FlightChange DEF SameFlight, Pending

LEMMA ComputedEffect ==
    ASSUME Typed, NEW f \in Flights, NEW n \in Sizes, Computed(f, n)
    PROVE  OthersFly(f) /\ SameFlight(f) /\ fl[f].task \in Pending /\ fl'[f].task \in Pending
<1>1. PICK b \in BOOLEAN : b = (fl[f].before = gen[fl[f].project] /\ fl[f].before = fl[f].gen)
  BY Zenon
<1> DEFINE new == [fl[f] EXCEPT !.task = "completing", !.outcome = "ok", !.bytes = n, !.stable = b]
<1>2. /\ fl[f].task = "computing"
      /\ fl' = [fl EXCEPT ![f].task = "completing", ![f].outcome = "ok", ![f].bytes = n,
                          ![f].stable = b]
  BY <1>1, Zenon DEF Computed
<1>3. fl' = [fl EXCEPT ![f] = new]
  BY <1>2 DEF Typed
<1>4. fl[f] \in FlightRec /\ "completing" \in Tasks /\ "ok" \in Outcomes /\ n \in Sizes \cup {0}
  BY DEF Typed, Tasks, Outcomes
<1>5. new \in FlightRec /\ new.task = "completing" /\ new.project = fl[f].project
      /\ new.gen = fl[f].gen /\ new.waiters = fl[f].waiters
      /\ new.abandoned = fl[f].abandoned /\ new.retired = fl[f].retired
  BY <1>4 DEF FlightRec
<1> HIDE DEF new
<1> QED
  BY <1>2, <1>3, <1>5, FlightChange DEF SameFlight, Pending

LEMMA JoinEffect ==
    ASSUME Typed, NEW f \in Flights, fl' = [fl EXCEPT ![f].waiters = @ + 1]
    PROVE  /\ OthersFly(f)
           /\ fl'[f].waiters = fl[f].waiters + 1
           /\ fl'[f].project = fl[f].project /\ fl'[f].gen = fl[f].gen
           /\ fl'[f].task = fl[f].task
           /\ fl'[f].abandoned = fl[f].abandoned /\ fl'[f].retired = fl[f].retired
<1> DEFINE new == [fl[f] EXCEPT !.waiters = @ + 1]
<1>1. fl' = [fl EXCEPT ![f] = new] /\ fl[f] \in FlightRec
  BY DEF Typed
<1>2. new \in FlightRec /\ new.task = fl[f].task /\ new.project = fl[f].project
      /\ new.gen = fl[f].gen /\ new.waiters = fl[f].waiters + 1
      /\ new.abandoned = fl[f].abandoned /\ new.retired = fl[f].retired
  BY <1>1 DEF FlightRec
<1> HIDE DEF new
<1> QED
  BY <1>1, <1>2, FlightChange

LEMMA CompleteEffect ==
    ASSUME Typed, NEW f \in Flights, Complete(f)
    PROVE  /\ OthersFly(f)
           /\ fl[f].task = "completing" /\ fl'[f].task = "notifying" /\ ~fl'[f].retired
           /\ fl'[f].project = fl[f].project /\ fl'[f].gen = fl[f].gen
           /\ fl'[f].waiters = fl[f].waiters /\ fl'[f].abandoned = fl[f].abandoned
<1> DEFINE new == [fl[f] EXCEPT !.task = "notifying", !.retired = FALSE, !.before = 0,
                                !.bytes = 0, !.stable = FALSE]
<1>1. /\ fl[f].task = "completing"
      /\ fl' = [fl EXCEPT ![f].task = "notifying", ![f].retired = FALSE, ![f].before = 0,
                          ![f].bytes = 0, ![f].stable = FALSE]
  BY DEF Complete
<1>2. fl' = [fl EXCEPT ![f] = new]
  BY <1>1 DEF Typed
<1>3. fl[f] \in FlightRec /\ "notifying" \in Tasks /\ 0 \in Gens /\ 0 \in Sizes \cup {0}
  BY CacheAssumption DEF Typed, Tasks, Gens
<1>4. new \in FlightRec /\ new.task = "notifying" /\ new.project = fl[f].project
      /\ new.gen = fl[f].gen /\ new.waiters = fl[f].waiters
      /\ new.abandoned = fl[f].abandoned /\ ~new.retired
  BY <1>3 DEF FlightRec
<1> HIDE DEF new
<1> QED
  BY <1>1, <1>2, <1>4, FlightChange

\* last: the guard that leaves is the last one and there is no result yet.
LEMMA LeaveEffect ==
    ASSUME Typed, CountInv, NEW q \in Requests, Leave(q), req[q].flight \in Flights,
           q \in Waiters(req[q].flight)
    PROVE  LET f == req[q].flight
               p == req[q].project
           IN  \E last \in BOOLEAN :
                 /\ last <=> fl[f].waiters = 1 /\ ~HasResult(f)
                 /\ OthersFly(f)
                 /\ fl'[f].waiters = fl[f].waiters - 1
                 /\ fl'[f].abandoned <=> last \/ fl[f].abandoned
                 /\ fl'[f].retired <=> last \/ fl[f].retired
                 /\ fl'[f].project = fl[f].project /\ fl'[f].gen = fl[f].gen
                 /\ fl'[f].task = fl[f].task
                 /\ retired' = IF last /\ ~fl[f].retired THEN retired + 1 ELSE retired
                 /\ current' = IF last /\ current[p] = f THEN [current EXCEPT ![p] = None]
                               ELSE current
                 /\ MovesTo(q, IF last THEN "abandon" ELSE "exit", p, req[q].gen, f)
<1> DEFINE f == req[q].flight
           p == req[q].project
<1>1. PICK last \in BOOLEAN : last = (fl[f].waiters = 1 /\ ~HasResult(f))
  BY Zenon
<1>2. PICK a \in BOOLEAN, r \in BOOLEAN :
        a = (last \/ fl[f].abandoned) /\ r = (last \/ fl[f].retired)
  BY Zenon
<1>3. /\ fl' = [fl EXCEPT ![f].waiters = @ - 1, ![f].abandoned = a, ![f].retired = r]
      /\ retired' = IF last /\ ~fl[f].retired THEN retired + 1 ELSE retired
      /\ current' = IF last /\ current[p] = f THEN [current EXCEPT ![p] = None] ELSE current
      /\ Goto(q, IF last THEN "abandon" ELSE "exit")
      /\ UNCHANGED req
  BY <1>1, <1>2, Zenon DEF Leave
<1>4. fl[f].waiters \in Nat /\ fl[f].waiters # 0
  <2>1. Cardinality(Waiters(f)) # 0
    BY FS_EmptySet DEF CountInv
  <2> QED
    BY <2>1 DEF CountInv, Typed, FlightRec
<1>5. fl[f].waiters - 1 \in Nat /\ fl[f] \in FlightRec
  BY <1>4 DEF Typed
<1> DEFINE new == [fl[f] EXCEPT !.waiters = @ - 1, !.abandoned = a, !.retired = r]
<1>6. fl' = [fl EXCEPT ![f] = new]
  BY <1>3 DEF Typed
<1>7. OthersFly(f) /\ fl'[f] = new
  <2>1. new \in FlightRec
    BY <1>2, <1>5 DEF FlightRec
  <2> HIDE DEF new
  <2> QED
    BY <1>6, <2>1, FlightChange
<1>9. /\ fl'[f].waiters = fl[f].waiters - 1
      /\ fl'[f].abandoned = a /\ fl'[f].retired = r
      /\ fl'[f].project = fl[f].project /\ fl'[f].gen = fl[f].gen
      /\ fl'[f].task = fl[f].task
  BY <1>5, <1>7 DEF FlightRec
<1>8. MovesTo(q, IF last THEN "abandon" ELSE "exit", p, req[q].gen, f)
  <2>1. PICK l \in PcValues : l = IF last THEN "abandon" ELSE "exit"
    BY DEF PcValues
  <2> QED
    BY <1>3, <2>1, Moves
<1> HIDE DEF new
<1> QED
  BY <1>1, <1>2, <1>3, <1>7, <1>8, <1>9

LEMMA OwnEffect ==
    ASSUME Typed, RequestInv, NEW q \in Requests, NEW f \in Flights, Own(q, f)
    PROVE  LET p == req[q].project
               g == current[p]
           IN  /\ p \in Projects /\ pc[q] = "lookup" /\ ~Joinable(q)
               /\ fl[f].task = "none"
               /\ fl' \in [Flights -> FlightRec]
               /\ fl'[f].project = p /\ fl'[f].gen = req[q].gen /\ fl'[f].task = "queued"
               /\ fl'[f].waiters = 1 /\ ~fl'[f].abandoned /\ ~fl'[f].retired
               /\ \A h \in Flights : h # f /\ h # g => fl'[h] = fl[h]
               /\ g # None /\ g # f => /\ fl'[g].retired
                            /\ fl'[g].project = fl[g].project /\ fl'[g].gen = fl[g].gen
                            /\ fl'[g].task = fl[g].task /\ fl'[g].waiters = fl[g].waiters
                            /\ fl'[g].abandoned = fl[g].abandoned
               /\ current' = [current EXCEPT ![p] = f]
               /\ retired' = IF g = None THEN retired ELSE retired + 1
               /\ MovesTo(q, "arm", p, req[q].gen, f)
<1> DEFINE p == req[q].project
           g == current[p]
           new == [NoFlight EXCEPT !.project = p, !.gen = req[q].gen, !.task = "queued",
                                   !.waiters = 1]
<1>1. /\ p \in Projects /\ pc[q] = "lookup" /\ ~Joinable(q)
      /\ req[q].gen \in Gens
  BY DEF Own, Miss, RequestInv, Typed, ReqRec
<1>2. /\ fl[f].task = "none"
      /\ fl' = [h \in Flights |->
                  IF h = f THEN new
                  ELSE IF h = g THEN [fl[h] EXCEPT !.retired = TRUE] ELSE fl[h]]
      /\ current' = [current EXCEPT ![p] = f]
      /\ retired' = IF g = None THEN retired ELSE retired + 1
      /\ req' = [req EXCEPT ![q].flight = f, ![q].slot = FALSE]
      /\ Goto(q, "arm")
  BY DEF Own
<1>3. /\ new \in FlightRec /\ new.project = p /\ new.gen = req[q].gen /\ new.task = "queued"
      /\ new.waiters = 1 /\ ~new.abandoned /\ ~new.retired
  <2>1. NoFlight \in FlightRec /\ ~NoFlight.abandoned /\ ~NoFlight.retired
    BY CacheAssumption DEF NoFlight, FlightRec, Tasks, Gens, Outcomes
  <2>2. "queued" \in Tasks
    BY DEF Tasks
  <2> QED
    BY <1>1, <2>1, <2>2 DEF FlightRec
<1> HIDE DEF new
<1>4. \A h \in Flights : /\ [fl[h] EXCEPT !.retired = TRUE] \in FlightRec
                         /\ [fl[h] EXCEPT !.retired = TRUE].retired
                         /\ [fl[h] EXCEPT !.retired = TRUE].project = fl[h].project
                         /\ [fl[h] EXCEPT !.retired = TRUE].gen = fl[h].gen
                         /\ [fl[h] EXCEPT !.retired = TRUE].task = fl[h].task
                         /\ [fl[h] EXCEPT !.retired = TRUE].waiters = fl[h].waiters
                         /\ [fl[h] EXCEPT !.retired = TRUE].abandoned = fl[h].abandoned
  BY DEF Typed, FlightRec
<1>5. fl' \in [Flights -> FlightRec]
  BY <1>2, <1>3, <1>4 DEF Typed
<1>6. g # None => g \in Flights
  BY <1>1 DEF Typed
<1>7. MovesTo(q, "arm", p, req[q].gen, f)
  <2>1. "arm" \in PcValues
    BY DEF PcValues
  <2> QED
    BY <1>2, <2>1, MovesFlight
<1>8. fl'[f] = new /\ (\A h \in Flights : h # f /\ h # g => fl'[h] = fl[h])
      /\ (g # None /\ g # f => fl'[g] = [fl[g] EXCEPT !.retired = TRUE])
  BY <1>2, <1>6
<1> QED
  BY <1>1, <1>2, <1>3, <1>4, <1>5, <1>6, <1>7, <1>8

\* Freed flights are those with a result that nobody holds.
LEMMA ExitEffect ==
    ASSUME Typed, NEW q \in Requests, Exit(q)
    PROVE  /\ fl' \in [Flights -> FlightRec]
           /\ \A h \in Flights :
                 \/ fl'[h] = fl[h]
                 \/ fl'[h] = NoFlight /\ fl[h].task = "done" /\ Holders(h) = {q}
           /\ MovesTo(q, "idle", None, 0, None)
<1>1. NoFlight \in FlightRec
  BY CacheAssumption DEF NoFlight, FlightRec, Tasks, Gens, Outcomes
<1> QED
  BY <1>1, MovesOut DEF Exit, Typed

LEMMA NotifyEffect ==
    ASSUME Typed, NEW f \in Flights, Notify(f)
    PROVE  /\ OthersFly(f)
           /\ fl[f].task = "notifying"
           /\ \/ fl'[f] = NoFlight /\ Holders(f) = {}
              \/ SameFlight(f) /\ fl'[f].task = "done"
<1>1. NoFlight \in FlightRec
  BY CacheAssumption DEF NoFlight, FlightRec, Tasks, Gens, Outcomes
<1>2. PICK new : /\ new = IF Holders(f) = {} THEN NoFlight ELSE [fl[f] EXCEPT !.task = "done"]
                 /\ fl' = [fl EXCEPT ![f] = new]
  BY DEF Notify
<1>3. CASE Holders(f) = {}
  BY <1>1, <1>2, <1>3 DEF Notify, Typed, OthersFly
<1>4. CASE Holders(f) # {}
  <2>1. new \in FlightRec /\ new.task = "done" /\ new.project = fl[f].project
        /\ new.gen = fl[f].gen /\ new.waiters = fl[f].waiters
        /\ new.abandoned = fl[f].abandoned /\ new.retired = fl[f].retired
    BY <1>2, <1>4 DEF Typed, FlightRec, Tasks
  <2> QED
    BY <1>2, <2>1 DEF Notify, Typed, OthersFly, SameFlight
<1> QED
  BY <1>3, <1>4

-----------------------------------------------------------------------------
LEMMA InitIInv == Init => IInv
<1> SUFFICES ASSUME Init PROVE IInv
  OBVIOUS
<1>1. NoFlight \in FlightRec /\ NoReq \in ReqRec /\ "idle" \in PcValues /\ 0 \in Gens
  BY CacheAssumption DEF NoFlight, FlightRec, Tasks, Gens, Outcomes, NoReq, ReqRec, PcValues
<1>2. Typed
  BY <1>1 DEF Init, Typed
<1>3. \A f \in Flights : Waiters(f) = {}
  BY DEF Init, Waiters
<1>4. Retirees = {}
  BY DEF Init, Retirees, NoFlight
<1>5. CountInv /\ RetiredInv
  BY <1>3, <1>4, FS_EmptySet DEF Init, CountInv, RetiredInv, NoFlight
<1>6. RequestInv /\ HolderInv /\ FlightInv /\ CurrentInv /\ HeldEntryStays
  BY DEF Init, RequestInv, HolderInv, FlightInv, CurrentInv, HeldEntryStays,
         NoFlight, NoReq, HasResult
<1> QED
  BY <1>2, <1>5, <1>6 DEF IInv

\* Nobody begins or ends to wait.
LEMMA SameWaiters ==
    ASSUME NEW q \in Requests,
           \A r \in Requests : r # q => pc'[r] = pc[r] /\ req'[r] = req[r],
           \/ pc[q] \notin {"arm", "check", "wait", "leave"}
              /\ pc'[q] \notin {"arm", "check", "wait", "leave"}
           \/ pc[q] \in {"arm", "check", "wait", "leave"}
              /\ pc'[q] \in {"arm", "check", "wait", "leave"}
              /\ req'[q].flight = req[q].flight
    PROVE  \A f \in Flights : Waiters(f)' = Waiters(f)
  BY DEF Waiters

-----------------------------------------------------------------------------
(* The steps of a request that touch no flight.                            *)

Quiet(q) ==
    /\ UNCHANGED <<gen, fl, current, retired>>
    /\ pc' \in [Requests -> PcValues] /\ req' \in [Requests -> ReqRec]
    /\ \A r \in Requests : r # q => pc'[r] = pc[r] /\ req'[r] = req[r]
    /\ \/ pc[q] \notin {"arm", "check", "wait", "leave"} /\ req'[q].flight = None
          /\ pc'[q] \in {"idle", "probe", "lookup", "linger", "exit"}
       \/ pc[q] \in {"arm", "check", "wait"} /\ req'[q] = req[q]
          /\ pc'[q] \in {"arm", "check", "wait", "leave"}
    /\ pc'[q] \in {"probe", "lookup"} =>
          req'[q].slot /\ req'[q].project \in Projects /\ req'[q].project \in ToSet(lru')
    /\ lru' \in Seq(Projects)
    /\ \A v \in ToSet(lru) : v \in ToSet(lru') \/ Evictable(v)

LEMMA QuietSteps ==
    ASSUME IInv, NEW q \in Requests,
           \/ \E p \in Projects : Get(q, p) \/ Peek(q, p)
           \/ Probe(q) \/ AbortProbe(q) \/ Hit(q) \/ Arm(q) \/ Check(q) \/ Wake(q) \/ Abort(q)
           \/ Linger(q)
    PROVE  Quiet(q)
<1> USE DEF IInv, cacheVars
<1>1. "idle" \in PcValues /\ "probe" \in PcValues /\ "lookup" \in PcValues /\ "linger" \in PcValues
      /\ "exit" \in PcValues /\ "arm" \in PcValues /\ "check" \in PcValues /\ "wait" \in PcValues
      /\ "leave" \in PcValues
  BY DEF PcValues
<1>2. ASSUME NEW p \in Projects, Get(q, p) PROVE Quiet(q)
  <2>1. MovesTo(q, "probe", p, 0, None) /\ req'[q].slot
    BY <1>1, <1>2, MovesIn DEF Get
  <2> QED
    BY <1>2, <2>1, SlotEffect DEF Get, Quiet, MovesTo
<1>3. ASSUME NEW p \in Projects, Peek(q, p) PROVE Quiet(q)
  <2>1. MovesTo(q, "linger", p, 0, None)
    BY <1>1, <1>3, MovesIn DEF Peek
  <2> QED
    BY <1>3, <2>1, SlotEffect DEF Peek, Quiet, MovesTo
<1>4. CASE Probe(q)
  <2>1. req[q].project \in Projects /\ req[q].flight = None /\ req[q].slot
    BY <1>4 DEF Probe, RequestInv
  <2>2. gen[req[q].project] \in Gens
    BY <2>1 DEF Typed
  <2>3. \/ /\ MovesTo(q, "lookup", req[q].project, gen[req[q].project], req[q].flight)
           /\ req'[q].slot = req[q].slot
        \/ MovesTo(q, "exit", req[q].project, req[q].gen, req[q].flight)
    BY <1>1, <1>4, <2>2, Moves, MovesGen DEF Probe
  <2> QED
    BY <1>4, <2>1, <2>3, SlotEffect DEF Probe, Quiet, MovesTo
<1>5. CASE AbortProbe(q)
  <2>1. MovesTo(q, "linger", req[q].project, req[q].gen, req[q].flight) /\ req[q].flight = None
    BY <1>1, <1>5, Moves DEF AbortProbe, RequestInv
  <2> QED
    BY <1>5, <2>1 DEF AbortProbe, Quiet, MovesTo, Typed
<1>6. CASE Hit(q)
  <2>1. MovesTo(q, "exit", req[q].project, req[q].gen, req[q].flight) /\ req[q].flight = None
    BY <1>1, <1>6, Moves DEF Hit, RequestInv
  <2> QED
    BY <1>6, <2>1 DEF Hit, Quiet, MovesTo, Typed
<1>7. CASE Linger(q)
  <2>1. MovesTo(q, "idle", None, 0, None)
    BY <1>7, MovesOut DEF Linger
  <2> QED
    BY <1>7, <2>1 DEF Linger, Quiet, MovesTo, Typed
<1>8. CASE Arm(q) \/ Check(q) \/ Wake(q) \/ Abort(q)
  <2>1. pc[q] \in {"arm", "check", "wait"} /\ UNCHANGED <<gen, fl, current, retired, lru, req>>
    BY <1>8 DEF Arm, Check, Wake, Abort
  <2>2. PICK l \in {"arm", "check", "wait", "leave"} : Goto(q, l)
    BY <1>8 DEF Arm, Check, Wake, Abort
  <2>3. MovesTo(q, l, req[q].project, req[q].gen, req[q].flight)
    BY <1>1, <2>1, <2>2, Moves
  <2> QED
    BY <2>1, <2>3 DEF Quiet, MovesTo, Typed
<1> QED
  BY <1>2, <1>3, <1>4, <1>5, <1>6, <1>7, <1>8

LEMMA QuietIInv ==
    ASSUME IInv, NEW q \in Requests, Quiet(q)
    PROVE  IInv'
<1> USE DEF IInv
<1>1. \A f \in Flights : Waiters(f)' = Waiters(f)
  BY SameWaiters DEF Quiet
<1>2. Typed'
  BY DEF Quiet, Typed
<1>3. RequestInv' /\ HolderInv'
  BY DEF Quiet, RequestInv, HolderInv
<1>4. FlightInv' /\ RetiredInv'
  BY DEF Quiet, FlightInv, HasResult, RetiredInv, Retirees
<1>5. CountInv'
  BY <1>1 DEF Quiet, CountInv
<1>6. CurrentInv'
  <2>1. \A p \in Projects : current[p] # None => current[p] \in Flights /\ ~Evictable(p)
    BY DEF Typed, Evictable
  <2> QED
    BY <1>1, <2>1 DEF Quiet, CurrentInv
<1>7. HeldEntryStays'
  <2>1. \A r \in Requests : pc[r] \in {"probe", "lookup"} => ~Evictable(req[r].project)
    BY DEF RequestInv, Evictable, SlotInUse
  <2> QED
    BY <2>1 DEF Quiet, HeldEntryStays
<1> QED
  BY <1>2, <1>3, <1>4, <1>5, <1>6, <1>7

-----------------------------------------------------------------------------
(* The steps of a flight that change neither its waiters nor its standing. *)

Calm(f) ==
    /\ OthersFly(f) /\ SameFlight(f)
    /\ fl[f].task # "none"
    /\ fl'[f].task = fl[f].task \/ (fl[f].task \in Pending /\ fl'[f].task \in Pending)
    /\ UNCHANGED <<gen, lru, current, retired>>

LEMMA CalmIInv ==
    ASSUME IInv, NEW f \in Flights, Calm(f), UNCHANGED req, pc' \in [Requests -> PcValues],
           \A r \in Requests : pc'[r] = pc[r] \/ (pc[r] = "abandon" /\ pc'[r] = "exit")
    PROVE  IInv'
<1> USE DEF IInv
<1>1. \A h \in Flights : Waiters(h)' = Waiters(h) /\ SameFlight(h)
  BY DEF Waiters, Calm, OthersFly, SameFlight
<1>2. \A h \in Flights :
         \/ fl'[h].task = fl[h].task /\ (fl'[h] = fl[h] \/ fl[h].task # "none")
         \/ fl[h].task \in Pending /\ fl'[h].task \in Pending
  BY DEF Calm, OthersFly
<1>3. UNCHANGED <<gen, lru, current, retired, req>> /\ fl' \in [Flights -> FlightRec]
  BY DEF Calm, OthersFly
<1> HIDE DEF IInv
<1>4. Typed'
  BY <1>3 DEF IInv, Typed
<1>5. RequestInv' /\ HolderInv'
  <2>1. \A r \in Requests : req[r].flight # None => req[r].flight \in Flights
    BY DEF IInv, Typed, ReqRec
  <2>2. RequestInv'
    BY <1>1, <1>3, <2>1 DEF IInv, RequestInv, SameFlight
  <2>3. HolderInv'
    BY <1>2, <1>3, <2>1 DEF IInv, HolderInv, Pending
  <2> QED
    BY <2>2, <2>3
<1>6. FlightInv'
  BY <1>1, <1>2 DEF IInv, FlightInv, HasResult, SameFlight, Pending
<1>7. RetiredInv'
  <2>1. Retirees' = Retirees
    BY <1>1 DEF Retirees, SameFlight
  <2> QED
    BY <1>3, <2>1 DEF IInv, RetiredInv
<1>8. CountInv'
  BY <1>1 DEF IInv, CountInv, SameFlight
<1>9. CurrentInv'
  <2>1. \A p \in Projects : current[p] # None => current[p] \in Flights
    BY DEF IInv, Typed
  <2> QED
    BY <1>1, <1>2, <1>3, <2>1 DEF IInv, CurrentInv, SameFlight, Pending
<1>10. HeldEntryStays'
  BY <1>3 DEF IInv, HeldEntryStays
<1> QED
  BY <1>4, <1>5, <1>6, <1>7, <1>8, <1>9, <1>10 DEF IInv

LEMMA CalmSteps ==
    ASSUME IInv, NEW f \in Flights,
           Compute(f) \/ (\E n \in Sizes : Computed(f, n)) \/ Fail(f) \/ StopFlight(f)
    PROVE  IInv'
<1>1. Calm(f)
  <2> USE DEF IInv
  <2>1. CASE Compute(f)
    BY <2>1, ComputeEffect DEF Compute, Calm, cacheVars, Pending
  <2>2. ASSUME NEW n \in Sizes, Computed(f, n) PROVE Calm(f)
    BY <2>2, ComputedEffect DEF Computed, Calm, cacheVars, Pending
  <2>3. CASE Fail(f)
    BY <2>3, FailEffect DEF Fail, Calm, cacheVars, Pending
  <2>4. CASE StopFlight(f)
    BY <2>4, StopEffect DEF StopFlight, Calm, cacheVars, Pending
  <2> QED
    BY <2>1, <2>2, <2>3, <2>4
<1>2. UNCHANGED <<pc, req>>
  BY DEF Compute, Computed, Fail, StopFlight, reqVars
<1> QED
  BY <1>1, <1>2, CalmIInv DEF IInv, Typed

LEMMA CancelAbandonedIInv ==
    ASSUME IInv, NEW q \in Requests, CancelAbandoned(q)
    PROVE  IInv'
<1> DEFINE f == req[q].flight
<1>1. f \in Flights /\ fl[f].task # "none"
  BY DEF IInv, CancelAbandoned, RequestInv, HolderInv, Typed, ReqRec
<1>2. Calm(f)
  BY <1>1, StopEffect DEF IInv, CancelAbandoned, Calm, cacheVars
<1>3. /\ UNCHANGED req /\ pc' \in [Requests -> PcValues]
      /\ \A r \in Requests : pc'[r] = pc[r] \/ (pc[r] = "abandon" /\ pc'[r] = "exit")
  BY DEF IInv, CancelAbandoned, Goto, Typed, PcValues
<1> QED
  BY <1>1, <1>2, <1>3, CalmIInv

-----------------------------------------------------------------------------
(* A request joins the current flight, or starts one.                      *)

LEMMA JoinIInv ==
    ASSUME IInv, NEW q \in Requests, Join(q)
    PROVE  IInv'
<1>a. pc[q] = "lookup" /\ req[q].flight = None /\ req[q].project \in Projects
  BY DEF IInv, Join, Miss, RequestInv
<1>b. PICK p \in Projects : p = req[q].project
  BY <1>a
<1>c. PICK f \in Flights : f = current[p]
  BY <1>b DEF IInv, Join, Joinable, Typed
<1>1. /\ pc[q] = "lookup" /\ req[q].flight = None /\ p = req[q].project /\ f = current[p]
      /\ fl[f].gen = req[q].gen /\ ~fl[f].abandoned
  BY <1>a, <1>b, <1>c DEF Join, Joinable
<1>2. /\ fl[f].project = p /\ fl[f].task \in Pending /\ ~fl[f].retired /\ p \in ToSet(lru)
  BY <1>1, CacheAssumption DEF IInv, CurrentInv, Pending
<1>3. MovesTo(q, "arm", p, req[q].gen, f)
  <2>1. "arm" \in PcValues
    BY DEF PcValues
  <2> QED
    BY <1>1, <2>1, MovesFlight DEF IInv, Join
<1>4. /\ OthersFly(f)
      /\ fl'[f].waiters = fl[f].waiters + 1
      /\ fl'[f].project = fl[f].project /\ fl'[f].gen = fl[f].gen
      /\ fl'[f].task = fl[f].task
      /\ fl'[f].abandoned = fl[f].abandoned /\ fl'[f].retired = fl[f].retired
  BY <1>1, JoinEffect DEF IInv, Join
<1>5. UNCHANGED <<gen, lru, current, retired>>
  BY DEF Join, cacheVars
<1>6. q \notin Waiters(f) /\ Waiters(f)' = Waiters(f) \cup {q}
  BY <1>1, <1>3 DEF Waiters, MovesTo
<1>7. \A h \in Flights : h # f => Waiters(h)' = Waiters(h)
  BY <1>1, <1>3, CacheAssumption DEF Waiters, MovesTo
<1>8. Typed'
  BY <1>3, <1>4, <1>5 DEF IInv, Typed, MovesTo, OthersFly
<1>9. \A r \in Requests : req[r].flight # None => req[r].flight \in Flights
  BY DEF IInv, Typed, ReqRec
<1>10. RequestInv'
  BY <1>1, <1>2, <1>3, <1>4, <1>9, CacheAssumption DEF IInv, RequestInv, MovesTo, OthersFly
<1>11. HolderInv'
  BY <1>1, <1>2, <1>3, <1>4, <1>9 DEF IInv, HolderInv, MovesTo, OthersFly, Pending
<1>13. FlightInv'
  BY <1>1, <1>2, <1>4 DEF IInv, FlightInv, HasResult, OthersFly, Pending
<1>14. CurrentInv'
  <2>1. \A v \in Projects : current[v] # None => current[v] \in Flights
    BY DEF IInv, Typed
  <2> QED
    BY <1>1, <1>4, <1>5, <1>6, <1>7, <2>1 DEF IInv, CurrentInv, OthersFly
<1>15. CountInv'
  <2>1. IsFiniteSet(Waiters(f)') /\ Cardinality(Waiters(f)') = Cardinality(Waiters(f)) + 1
    <3>1. PICK S : S = Waiters(f)
      OBVIOUS
    <3>2. IsFiniteSet(S) /\ q \notin S /\ Waiters(f)' = S \cup {q}
      BY <1>6, <3>1 DEF IInv, CountInv
    <3>3. IsFiniteSet(S \cup {q}) /\ Cardinality(S \cup {q}) = Cardinality(S) + 1
      BY <3>2, FS_AddElement
    <3> QED
      BY <3>1, <3>2, <3>3
  <2> QED
    BY <1>1, <1>4, <1>6, <1>7, <2>1 DEF IInv, CountInv, OthersFly
<1>16. RetiredInv'
  <2>1. Retirees' = Retirees
    BY <1>1, <1>4 DEF Retirees, OthersFly
  <2> QED
    BY <1>5, <2>1 DEF IInv, RetiredInv
<1>17. HeldEntryStays'
  BY <1>3, <1>5 DEF IInv, HeldEntryStays, MovesTo
<1> QED
  BY <1>8, <1>10, <1>11, <1>13, <1>14, <1>15, <1>16, <1>17 DEF IInv

LEMMA OwnIInv ==
    ASSUME IInv, NEW q \in Requests, NEW f \in Flights, Own(q, f)
    PROVE  IInv'
<1>a. PICK p : p = req[q].project
  OBVIOUS
<1>b. PICK g : g = current[p]
  OBVIOUS
<1>1. /\ p \in Projects /\ pc[q] = "lookup"
      /\ fl[f].task = "none"
      /\ fl' \in [Flights -> FlightRec]
      /\ fl'[f].project = p /\ fl'[f].gen = req[q].gen /\ fl'[f].task = "queued"
      /\ fl'[f].waiters = 1 /\ ~fl'[f].abandoned /\ ~fl'[f].retired
      /\ current' = [current EXCEPT ![p] = f]
      /\ retired' = IF g = None THEN retired ELSE retired + 1
      /\ MovesTo(q, "arm", p, req[q].gen, f)
      /\ \A h \in Flights : h # f /\ h # g => fl'[h] = fl[h]
      /\ g # None /\ g # f => /\ fl'[g].retired
                   /\ fl'[g].project = fl[g].project /\ fl'[g].gen = fl[g].gen
                   /\ fl'[g].task = fl[g].task /\ fl'[g].waiters = fl[g].waiters
                   /\ fl'[g].abandoned = fl[g].abandoned
  BY <1>a, <1>b, OwnEffect DEF IInv
<1>2. /\ req[q].flight = None /\ p \in ToSet(lru)
      /\ UNCHANGED <<gen, lru>>
  BY <1>a, <1>1 DEF IInv, RequestInv, HeldEntryStays, Own
<1>3. g # None => g \in Flights /\ g # f /\ ~fl[g].retired /\ fl[g].project = p
                  /\ fl[g].task \in Pending
  BY <1>b, <1>1 DEF IInv, Typed, CurrentInv, Pending
<1>4. \A h \in Flights : h # f =>
         /\ fl'[h].project = fl[h].project /\ fl'[h].gen = fl[h].gen
         /\ fl'[h].task = fl[h].task /\ fl'[h].waiters = fl[h].waiters
         /\ fl'[h].abandoned = fl[h].abandoned
  BY <1>1, <1>3, CacheAssumption
<1>5. \A r \in Requests : req[r].flight # f
  BY <1>1, CacheAssumption DEF IInv, HolderInv
<1>6. Waiters(f)' = {q}
  BY <1>1, <1>5 DEF Waiters, MovesTo
<1>7. \A h \in Flights : h # f => Waiters(h)' = Waiters(h)
  BY <1>1 DEF Waiters, MovesTo
<1>8. Typed'
  BY <1>1, <1>2 DEF IInv, Typed, MovesTo
<1>9. \A r \in Requests : req[r].flight # None => req[r].flight \in Flights
  BY DEF IInv, Typed, ReqRec
<1>10. RequestInv'
  BY <1>1, <1>4, <1>5, <1>9, CacheAssumption DEF IInv, RequestInv, MovesTo
<1>11. HolderInv'
  BY <1>1, <1>4, <1>5, <1>9 DEF IInv, HolderInv, MovesTo
<1>13. FlightInv'
  <2>1. ASSUME NEW h \in Flights, h # f, h # g
        PROVE  /\ fl'[h].task = "none" => fl'[h] = NoFlight
               /\ fl'[h].task # "none" => fl'[h].project \in Projects
               /\ HasResult(h)' => ~fl'[h].retired
    BY <1>1, <2>1 DEF IInv, FlightInv, HasResult
  <2>2. ASSUME g \in Flights, g # None
        PROVE  fl'[g].task # "none" /\ fl'[g].project \in Projects /\ ~HasResult(g)'
    BY <1>1, <1>3, <2>2 DEF HasResult, Pending
  <2>3. fl'[f].task # "none" /\ fl'[f].project \in Projects /\ ~HasResult(f)'
    BY <1>1 DEF HasResult
  <2> QED
    BY <2>1, <2>2, <2>3, CacheAssumption DEF FlightInv
<1>14. CurrentInv'
  <2>1. \A v \in Projects : v # p /\ current[v] # None =>
            current[v] \in Flights /\ current[v] # f /\ current[v] # g
    BY <1>1, <1>3 DEF IInv, Typed, CurrentInv
  <2>2. ASSUME NEW v \in Projects, v # p, current'[v] # None
        PROVE  /\ fl'[current'[v]].project = v
               /\ fl'[current'[v]].task \in Pending
               /\ ~fl'[current'[v]].abandoned /\ ~fl'[current'[v]].retired
               /\ Waiters(current[v])' # {}
               /\ v \in ToSet(lru') /\ current'[v] = current[v]
    <3>1. current'[v] = current[v]
      BY <1>1, <2>2 DEF IInv, Typed
    <3>2. fl'[current[v]] = fl[current[v]] /\ Waiters(current[v])' = Waiters(current[v])
      BY <1>1, <1>7, <2>1, <2>2, <3>1
    <3> QED
      BY <1>2, <2>2, <3>1, <3>2 DEF IInv, CurrentInv, Pending
  <2>3. current'[p] = f
    BY <1>1 DEF IInv, Typed
  <2>4. Waiters(f)' # {}
    BY <1>6
  <2> QED
    BY <1>1, <1>2, <2>2, <2>3, <2>4 DEF CurrentInv, Pending, Waiters
<1>15. CountInv'
  <2>1. IsFiniteSet(Waiters(f)') /\ Cardinality(Waiters(f)') = 1
    BY <1>6, FS_Singleton
  <2> QED
    BY <1>1, <1>4, <1>7, <2>1 DEF IInv, CountInv
<1>16. RetiredInv'
  <2>1. ~fl[f].retired
    BY <1>1 DEF IInv, FlightInv, NoFlight
  <2>2. CASE g = None
    <3>1. Retirees' = Retirees
      BY <1>1, <2>1, <2>2, CacheAssumption DEF Retirees
    <3> QED
      BY <1>1, <2>2, <3>1 DEF IInv, RetiredInv
  <2>3. CASE g # None
    <3>1. Retirees' = Retirees \cup {g} /\ g \notin Retirees
      BY <1>1, <1>3, <2>1, <2>3 DEF Retirees
    <3> QED
      BY <1>1, <2>3, <3>1, FS_AddElement DEF IInv, RetiredInv
  <2> QED
    BY <2>2, <2>3
<1>17. HeldEntryStays'
  BY <1>1, <1>2 DEF IInv, HeldEntryStays, MovesTo
<1> QED
  BY <1>8, <1>10, <1>11, <1>13, <1>14, <1>15, <1>16, <1>17 DEF IInv

-----------------------------------------------------------------------------
(* A waiter leaves, and a request ends.                                    *)

LEMMA LeaveIInv ==
    ASSUME IInv, NEW q \in Requests, Leave(q)
    PROVE  IInv'
<1>a. pc[q] = "leave" /\ UNCHANGED <<gen, lru>>
  BY DEF Leave
<1>b. PICK f \in Flights : f = req[q].flight
  BY <1>a DEF IInv, RequestInv, Typed, ReqRec
<1>c. PICK p : p = req[q].project
  OBVIOUS
<1>1. q \in Waiters(f) /\ fl[f].project = p /\ fl[f].task # "none"
  BY <1>a, <1>b, <1>c, CacheAssumption DEF IInv, Waiters, RequestInv, HolderInv
<1>2. PICK last \in BOOLEAN :
        /\ last <=> fl[f].waiters = 1 /\ ~HasResult(f)
        /\ OthersFly(f)
        /\ fl'[f].waiters = fl[f].waiters - 1
        /\ fl'[f].abandoned <=> last \/ fl[f].abandoned
        /\ fl'[f].retired <=> last \/ fl[f].retired
        /\ fl'[f].project = fl[f].project /\ fl'[f].gen = fl[f].gen
        /\ fl'[f].task = fl[f].task
        /\ retired' = IF last /\ ~fl[f].retired THEN retired + 1 ELSE retired
        /\ current' = IF last /\ current[p] = f THEN [current EXCEPT ![p] = None] ELSE current
        /\ MovesTo(q, IF last THEN "abandon" ELSE "exit", p, req[q].gen, f)
  BY <1>b, <1>c, <1>1, LeaveEffect DEF IInv
<1>3. PICK S : S = Waiters(f)
  OBVIOUS
<1>4. /\ IsFiniteSet(S) /\ q \in S
      /\ fl[f].waiters = Cardinality(S)
      /\ fl[f].abandoned => S = {}
  BY <1>1, <1>3 DEF IInv, CountInv
<1>5. Waiters(f)' = S \ {q}
  BY <1>2, <1>3 DEF Waiters, MovesTo
<1>6. IsFiniteSet(S \ {q}) /\ Cardinality(S \ {q}) = fl[f].waiters - 1
  BY <1>4, FS_RemoveElement
<1>7. fl[f].waiters \in Nat
  BY DEF IInv, Typed, FlightRec
<1>8. fl[f].waiters = 1 <=> S \ {q} = {}
  BY <1>6, <1>7, FS_EmptySet
<1>9. \A h \in Flights : h # f => Waiters(h)' = Waiters(h)
  BY <1>b, <1>2 DEF Waiters, MovesTo
<1>10. \A r \in Requests : req[r].flight # None => req[r].flight \in Flights
  BY DEF IInv, Typed, ReqRec
<1>11. Typed'
  <2>1. retired' \in Nat
    BY <1>2 DEF IInv, Typed
  <2>2. current' \in [Projects -> Flights \cup {None}]
    BY <1>2 DEF IInv, Typed
  <2> QED
    BY <1>a, <1>2, <2>1, <2>2 DEF IInv, Typed, MovesTo, OthersFly
<1>12. RequestInv'
  <2>1. pc'[q] \in {"abandon", "exit"}
    BY <1>2 DEF MovesTo
  <2> QED
    BY <1>1, <1>2, <1>10, <2>1, CacheAssumption DEF IInv, RequestInv, MovesTo, OthersFly
<1>13. HolderInv'
  BY <1>b, <1>2, <1>10 DEF IInv, HolderInv, MovesTo, OthersFly
<1>15. FlightInv'
  <2>1. HasResult(f)' => HasResult(f) /\ ~last
    BY <1>2 DEF HasResult
  <2>2. /\ fl'[f].task # "none" /\ fl'[f].project \in Projects
        /\ HasResult(f)' => ~fl'[f].retired
    BY <1>1, <1>2, <2>1 DEF IInv, FlightInv
  <2> QED
    BY <1>2, <2>2 DEF IInv, FlightInv, HasResult, OthersFly
<1>16. CurrentInv'
  <2>1. ASSUME NEW v \in Projects, current'[v] # None
        PROVE  /\ current[v] \in Flights /\ current'[v] = current[v]
               /\ current[v] = f => ~last /\ ~HasResult(f)
    <3>1. current[v] # None /\ current'[v] = current[v]
      BY <1>2, <2>1 DEF IInv, Typed
    <3>2. current[v] = f => v = p /\ fl[f].task \in {"queued", "computing", "completing"}
      BY <1>1, <3>1 DEF IInv, CurrentInv
    <3>3. current[v] = f => ~last
      BY <1>2, <2>1, <3>1, <3>2 DEF IInv, Typed
    <3> QED
      BY <3>1, <3>2, <3>3 DEF IInv, Typed, HasResult
  <2>2. ASSUME NEW v \in Projects, current'[v] # None, current[v] = f
        PROVE  ~fl'[f].abandoned /\ ~fl'[f].retired /\ Waiters(f)' # {}
    BY <1>2, <1>5, <1>8, <2>1, <2>2 DEF IInv, CurrentInv
  <2> QED
    BY <1>a, <1>2, <1>9, <2>1, <2>2 DEF IInv, CurrentInv, OthersFly
<1>17. CountInv'
  <2>1. fl'[f].abandoned => S \ {q} = {}
    BY <1>2, <1>4, <1>8
  <2>2. /\ IsFiniteSet(Waiters(f)')
        /\ fl'[f].waiters = Cardinality(Waiters(f)')
        /\ fl'[f].abandoned => Waiters(f)' = {}
    BY <1>2, <1>5, <1>6, <2>1
  <2> QED
    BY <1>2, <1>9, <2>2 DEF IInv, CountInv, OthersFly
<1>18. RetiredInv'
  <2>1. CASE last /\ ~fl[f].retired
    <3>1. Retirees' = Retirees \cup {f} /\ f \notin Retirees
      BY <1>2, <2>1 DEF Retirees, OthersFly
    <3> QED
      BY <1>2, <2>1, <3>1, FS_AddElement DEF IInv, RetiredInv
  <2>2. CASE ~(last /\ ~fl[f].retired)
    <3>1. Retirees' = Retirees
      BY <1>2, <2>2 DEF Retirees, OthersFly
    <3> QED
      BY <1>2, <2>2, <3>1 DEF IInv, RetiredInv
  <2> QED
    BY <2>1, <2>2
<1>19. HeldEntryStays'
  BY <1>a, <1>2 DEF IInv, HeldEntryStays, MovesTo
<1> QED
  BY <1>11, <1>12, <1>13, <1>15, <1>16, <1>17, <1>18, <1>19 DEF IInv

LEMMA ExitIInv ==
    ASSUME IInv, NEW q \in Requests, Exit(q)
    PROVE  IInv'
<1>1. /\ fl' \in [Flights -> FlightRec]
      /\ \A h \in Flights :
            \/ fl'[h] = fl[h]
            \/ fl'[h] = NoFlight /\ fl[h].task = "done" /\ Holders(h) = {q}
      /\ MovesTo(q, "idle", None, 0, None)
      /\ pc[q] = "exit" /\ UNCHANGED <<gen, lru, current, retired>>
  BY ExitEffect DEF IInv, Exit, cacheVars
<1>2. \A h \in Flights : Waiters(h)' = Waiters(h)
  BY <1>1, SameWaiters DEF MovesTo
<1>3. \A h \in Flights : Holders(h) = {q} => Waiters(h) = {}
  BY <1>1 DEF Waiters, Holders
<1>4. \A r \in Requests : req[r].flight # None => req[r].flight \in Flights
  BY DEF IInv, Typed, ReqRec
<1>5. \A r \in Requests : r # q /\ req[r].flight # None =>
         req[r].flight \in Flights /\ fl'[req[r].flight] = fl[req[r].flight]
  BY <1>1, <1>4 DEF Holders
<1>6. Typed'
  BY <1>1 DEF IInv, Typed, MovesTo
<1>7. RequestInv' /\ HolderInv'
  BY <1>1, <1>5 DEF IInv, RequestInv, HolderInv, MovesTo
<1>9. FlightInv'
  BY <1>1 DEF IInv, FlightInv, HasResult, NoFlight
<1>10. CurrentInv'
  <2>1. \A v \in Projects : current[v] # None =>
           current[v] \in Flights /\ fl'[current[v]] = fl[current[v]]
    BY <1>1 DEF IInv, Typed, CurrentInv
  <2> QED
    BY <1>1, <1>2, <2>1 DEF IInv, CurrentInv
<1>11. CountInv'
  BY <1>1, <1>2, <1>3, FS_EmptySet DEF IInv, CountInv, NoFlight
<1>12. RetiredInv'
  <2>1. Retirees' = Retirees
    BY <1>1 DEF IInv, Retirees, FlightInv, HasResult, NoFlight
  <2> QED
    BY <1>1, <2>1 DEF IInv, RetiredInv
<1>13. HeldEntryStays'
  BY <1>1 DEF IInv, HeldEntryStays, MovesTo
<1> QED
  BY <1>6, <1>7, <1>9, <1>10, <1>11, <1>12, <1>13 DEF IInv

-----------------------------------------------------------------------------
(* A flight completes, and tells its waiters.                              *)

LEMMA CompleteIInv ==
    ASSUME IInv, NEW f \in Flights, Complete(f)
    PROVE  IInv'
<1>1. /\ OthersFly(f)
      /\ fl[f].task = "completing" /\ fl'[f].task = "notifying" /\ ~fl'[f].retired
      /\ fl'[f].project = fl[f].project /\ fl'[f].gen = fl[f].gen
      /\ fl'[f].waiters = fl[f].waiters /\ fl'[f].abandoned = fl[f].abandoned
  BY CompleteEffect DEF IInv
<1>2. PICK p \in Projects : p = fl[f].project
  BY <1>1 DEF IInv, FlightInv
<1>3. /\ retired' = IF fl[f].retired THEN retired - 1 ELSE retired
      /\ current' = IF current[p] = f THEN [current EXCEPT ![p] = None] ELSE current
      /\ UNCHANGED <<gen, lru, pc, req>>
  BY <1>2 DEF Complete, reqVars
<1>4. \A h \in Flights : Waiters(h)' = Waiters(h)
  BY <1>3 DEF Waiters
<1>5. \A r \in Requests : req[r].flight # None => req[r].flight \in Flights
  BY DEF IInv, Typed, ReqRec
<1>6. RetiredInv' /\ retired' \in Nat
  <2>1. CASE fl[f].retired
    <3>1. Retirees' = Retirees \ {f} /\ f \in Retirees
      BY <1>1, <2>1 DEF Retirees, OthersFly
    <3>2. PICK S : S = Retirees
      OBVIOUS
    <3>3. IsFiniteSet(S \ {f}) /\ Cardinality(S \ {f}) = Cardinality(S) - 1
      BY <3>1, <3>2, FS_RemoveElement DEF IInv, RetiredInv
    <3>4. Cardinality(S \ {f}) \in Nat
      BY <3>3, FS_CardinalityType
    <3> QED
      BY <1>3, <2>1, <3>1, <3>2, <3>3, <3>4 DEF IInv, RetiredInv
  <2>2. CASE ~fl[f].retired
    <3>1. Retirees' = Retirees
      BY <1>1, <2>2 DEF Retirees, OthersFly
    <3> QED
      BY <1>3, <2>2, <3>1 DEF IInv, RetiredInv, Typed
  <2> QED
    BY <2>1, <2>2
<1>7. Typed'
  <2>1. current' \in [Projects -> Flights \cup {None}]
    BY <1>3 DEF IInv, Typed
  <2> QED
    BY <1>1, <1>3, <1>6, <2>1 DEF IInv, Typed, OthersFly
<1>8. RequestInv' /\ HolderInv'
  BY <1>1, <1>3, <1>5 DEF IInv, RequestInv, HolderInv, OthersFly
<1>10. FlightInv'
  BY <1>1, <1>2 DEF IInv, FlightInv, HasResult, OthersFly
<1>11. CurrentInv'
  <2>1. ASSUME NEW v \in Projects, current'[v] # None
        PROVE  current[v] \in Flights /\ current'[v] = current[v] /\ current[v] # f
    <3>1. current[v] # None /\ current'[v] = current[v]
      BY <1>3, <2>1 DEF IInv, Typed
    <3>2. current[v] = f => v = p
      BY <1>2, <3>1 DEF IInv, CurrentInv
    <3> QED
      BY <1>3, <2>1, <3>1, <3>2 DEF IInv, Typed
  <2> QED
    BY <1>1, <1>3, <1>4, <2>1 DEF IInv, CurrentInv, OthersFly
<1>12. CountInv'
  BY <1>1, <1>4 DEF IInv, CountInv, OthersFly
<1>13. HeldEntryStays'
  BY <1>3 DEF IInv, HeldEntryStays
<1> QED
  BY <1>6, <1>7, <1>8, <1>10, <1>11, <1>12, <1>13 DEF IInv

LEMMA NotifyIInv ==
    ASSUME IInv, NEW f \in Flights, Notify(f)
    PROVE  IInv'
<1>1. /\ OthersFly(f)
      /\ fl[f].task = "notifying"
      /\ \/ fl'[f] = NoFlight /\ Holders(f) = {}
         \/ SameFlight(f) /\ fl'[f].task = "done"
      /\ UNCHANGED <<gen, lru, current, retired, pc, req>>
  BY NotifyEffect DEF IInv, Notify, cacheVars
<1>2. \A h \in Flights : Waiters(h)' = Waiters(h)
  BY <1>1 DEF Waiters
<1>3. Holders(f) = {} => Waiters(f) = {}
  BY DEF Waiters, Holders
<1>4. \A r \in Requests : req[r].flight # None => req[r].flight \in Flights
  BY DEF IInv, Typed, ReqRec
<1>5. \A r \in Requests : req[r].flight = f => SameFlight(f) /\ fl'[f].task = "done"
  BY <1>1 DEF Holders
<1>6. Typed'
  BY <1>1 DEF IInv, Typed, OthersFly
<1>7. RequestInv' /\ HolderInv'
  BY <1>1, <1>4, <1>5 DEF IInv, RequestInv, HolderInv, OthersFly, SameFlight
<1>9. FlightInv'
  BY <1>1 DEF IInv, FlightInv, HasResult, NoFlight, OthersFly, SameFlight
<1>10. CurrentInv'
  <2>1. \A v \in Projects : current[v] # None => current[v] \in Flights /\ current[v] # f
    BY <1>1 DEF IInv, Typed, CurrentInv
  <2> QED
    BY <1>1, <1>2, <2>1 DEF IInv, CurrentInv, OthersFly
<1>11. CountInv'
  BY <1>1, <1>2, <1>3, FS_EmptySet DEF IInv, CountInv, NoFlight, OthersFly, SameFlight
<1>12. RetiredInv'
  <2>1. Retirees' = Retirees
    BY <1>1 DEF IInv, Retirees, FlightInv, HasResult, NoFlight, OthersFly, SameFlight
  <2> QED
    BY <1>1, <2>1 DEF IInv, RetiredInv
<1>13. HeldEntryStays'
  BY <1>1 DEF IInv, HeldEntryStays
<1> QED
  BY <1>6, <1>7, <1>9, <1>10, <1>11, <1>12, <1>13 DEF IInv

-----------------------------------------------------------------------------
(* The bytes of the stored rankings.                                       *)

Ranked == [gen : Gens, bytes : Sizes]
Rankings == [Projects -> Ranked \cup {None}]
Weight(r, v) == IF r[v] = None THEN 0 ELSE r[v].bytes
Units(r, S) == UNION {{v} \X (1..Weight(r, v)) : v \in S}

LEMMA WeightType ==
    ASSUME NEW r \in Rankings, NEW v \in Projects
    PROVE  Weight(r, v) \in Nat
  BY CacheAssumption DEF Rankings, Ranked, Weight

LEMMA UnitsMember ==
    ASSUME NEW r, NEW S, NEW x
    PROVE  x \in Units(r, S) <=> \E v \in S : x \in {v} \X (1..Weight(r, v))
  BY DEF Units

LEMMA UnitsSame ==
    ASSUME NEW r, NEW s, NEW S, \A v \in S : Weight(r, v) = Weight(s, v)
    PROVE  Units(r, S) = Units(s, S)
<1>1. {{v} \X (1..Weight(r, v)) : v \in S} = {{v} \X (1..Weight(s, v)) : v \in S}
  OBVIOUS
<1> QED
  BY <1>1 DEF Units

LEMMA UnitsEmpty ==
    ASSUME NEW r, NEW S, \A v \in S : Weight(r, v) = 0
    PROVE  Units(r, S) = {}
<1>1. \A v \in S : 1..Weight(r, v) = {}
  OBVIOUS
<1>2. \A x : x \notin Units(r, S)
  BY <1>1, UnitsMember
<1> QED
  BY <1>2

LEMMA UnitsOne ==
    ASSUME NEW r \in Rankings, NEW p \in Projects
    PROVE  /\ IsFiniteSet(Units(r, {p}))
           /\ Cardinality(Units(r, {p})) = Weight(r, p)
<1>1. PICK n \in Nat : n = Weight(r, p)
  BY WeightType
<1>2. Units(r, {p}) = {p} \X (1..n)
  BY <1>1 DEF Units
<1>3. IsFiniteSet({p}) /\ Cardinality({p}) = 1
  BY FS_Singleton
<1>4. 1 \in Int /\ n \in Int
  OBVIOUS
<1>5. IsFiniteSet(1..n) /\ Cardinality(1..n) = n
  BY <1>4, FS_Interval
<1>6. PICK I : I = 1..n
  OBVIOUS
<1>7. IsFiniteSet({p} \X I) /\ Cardinality({p} \X I) = Cardinality({p}) * Cardinality(I)
  BY <1>3, <1>5, <1>6, FS_Product
<1> QED
  <2>1. Cardinality({p} \X I) = 1 * n
    BY <1>3, <1>5, <1>6, <1>7
  <2> QED
    <3>1. 1 * n = n
      OBVIOUS
    <3>2. Units(r, {p}) = {p} \X I
      BY <1>2, <1>6
    <3> QED
      BY <1>1, <1>7, <2>1, <3>1, <3>2, Zenon

\* The bytes of disjoint sets of projects add up.
LEMMA UnitsJoin ==
    ASSUME NEW r, NEW S, NEW T, S \cap T = {},
           IsFiniteSet(Units(r, S)), IsFiniteSet(Units(r, T))
    PROVE  /\ IsFiniteSet(Units(r, S \cup T))
           /\ Cardinality(Units(r, S)) \in Nat /\ Cardinality(Units(r, T)) \in Nat
           /\ Cardinality(Units(r, S \cup T)) = Cardinality(Units(r, S)) + Cardinality(Units(r, T))
<1>1. Units(r, S \cup T) = Units(r, S) \cup Units(r, T)
  BY DEF Units
<1>2. Units(r, S) \cap Units(r, T) = {}
  <2>1. ASSUME NEW x \in Units(r, S), x \in Units(r, T) PROVE FALSE
    <3>1. PICK v \in S : x \in {v} \X (1..Weight(r, v))
      BY UnitsMember
    <3>2. PICK w \in T : x \in {w} \X (1..Weight(r, w))
      BY <2>1, UnitsMember
    <3>3. v = w
      BY <3>1, <3>2
    <3> QED
      BY <3>3
  <2> QED
    BY <2>1
<1>3. PICK A, B : A = Units(r, S) /\ B = Units(r, T)
  OBVIOUS
<1>4. IsFiniteSet(A) /\ IsFiniteSet(B) /\ A \cap B = {}
  BY <1>2, <1>3
<1>5. /\ IsFiniteSet(A \cup B)
      /\ Cardinality(A \cup B) = Cardinality(A) + Cardinality(B) - Cardinality(A \cap B)
      /\ Cardinality(A) \in Nat /\ Cardinality(B) \in Nat
  BY <1>4, FS_Union, FS_CardinalityType
<1> QED
  BY <1>1, <1>3, <1>4, <1>5, FS_EmptySet

LEMMA UnitsPart ==
    ASSUME NEW r, NEW S, NEW T, T \subseteq S, IsFiniteSet(Units(r, S))
    PROVE  /\ IsFiniteSet(Units(r, T)) /\ IsFiniteSet(Units(r, S \ T))
           /\ Cardinality(Units(r, T)) \in Nat /\ Cardinality(Units(r, S \ T)) \in Nat
           /\ Cardinality(Units(r, S)) = Cardinality(Units(r, T)) + Cardinality(Units(r, S \ T))
<1>1. Units(r, T) \subseteq Units(r, S) /\ Units(r, S \ T) \subseteq Units(r, S)
  BY DEF Units
<1>2. IsFiniteSet(Units(r, T)) /\ IsFiniteSet(Units(r, S \ T))
  BY <1>1, FS_Subset
<1>3. T \cap (S \ T) = {} /\ T \cup (S \ T) = S
  OBVIOUS
<1> QED
  BY <1>2, <1>3, UnitsJoin

-----------------------------------------------------------------------------
(* The entries and what they store, through slot and complete.             *)

\* No project has two entries.
OrderInv ==
    /\ \A i, j \in 1..Len(lru) : lru[i] = lru[j] => i = j
    /\ Len(lru) <= MaxProjects

StoreInv ==
    /\ ready \in Rankings
    /\ IsFiniteSet(Units(ready, Projects))
    /\ bytes = Cardinality(Units(ready, Projects))
    /\ bytes <= MaxPayload
    /\ \A p \in Projects : ready[p] # None => p \in ToSet(lru)

\* A flight that has a ranking knows its size.
ResultInv ==
    \A f \in Flights : fl[f].task = "completing" /\ fl[f].outcome = "ok" => fl[f].bytes \in Sizes

FlagInv == woken \in [Requests -> BOOLEAN] /\ stopped \in [Requests -> BOOLEAN]

PayloadInv == OrderInv /\ StoreInv /\ ResultInv /\ FlagInv

\* Taking an entry out of the order and appending one leaves no duplicate.
LEMMA ReplaceOrder ==
    ASSUME lru \in Seq(Projects), OrderInv, NEW i \in 1..Len(lru), NEW p \in Projects,
           Replace(i, p), lru[i] = p \/ p \notin ToSet(lru)
    PROVE  OrderInv'
<1> DEFINE a == SubSeq(lru, 1, i - 1)
           b == SubSeq(lru, i + 1, Len(lru))
           s == a \o b
<1>1. a \in Seq(Projects) /\ Len(a) = i - 1 /\ \A k \in 1..(i - 1) : a[k] = lru[k]
  OBVIOUS
<1>2. b \in Seq(Projects) /\ Len(b) = Len(lru) - i /\ \A k \in 1..(Len(lru) - i) : b[k] = lru[i + k]
  OBVIOUS
<1> HIDE DEF a, b
<1>3. s \in Seq(Projects) /\ Len(s) = Len(lru) - 1
  <2>1. s \in Seq(Projects) /\ Len(s) = Len(a) + Len(b)
    <3> HIDE DEF s
    <3>1. ASSUME NEW x \in Seq(Projects), NEW y \in Seq(Projects)
          PROVE  x \o y \in Seq(Projects) /\ Len(x \o y) = Len(x) + Len(y)
      BY ConcatProperties
    <3> QED
      BY <1>1, <1>2, <3>1 DEF s
  <2> QED
    BY <1>1, <1>2, <2>1
<1>4. \A k \in 1..(Len(lru) - 1) : s[k] = IF k < i THEN lru[k] ELSE lru[k + 1]
  <2> SUFFICES ASSUME NEW k \in 1..(Len(lru) - 1)
               PROVE  s[k] = IF k < i THEN lru[k] ELSE lru[k + 1]
    OBVIOUS
  <2>1. CASE k < i
    BY <1>1, <1>2, <2>1, ConcatProperties
  <2>2. CASE k >= i
    <3>1. s[k] = b[k - Len(a)]
      BY <1>1, <1>2, <2>2, ConcatProperties
    <3>2. PICK m \in 1..(Len(lru) - i) : m = k - Len(a) /\ i + m = k + 1
      BY <1>1, <2>2
    <3> QED
      <4>1. s[k] = lru[k + 1]
        BY <1>2, <3>1, <3>2
      <4>2. ~(k < i)
        BY <2>2
      <4> QED
        BY <4>1, <4>2, Zenon
  <2>3. k < i \/ k >= i
    OBVIOUS
  <2> QED
    BY <2>1, <2>2, <2>3, Zenon
<1>5. lru' = Append(s, p)
  BY DEF Replace, RemoveAt, a, b
<1> HIDE DEF s
<1>6. Len(lru') = Len(lru) /\ lru'[Len(lru)] = p
      /\ \A k \in 1..(Len(lru) - 1) : lru'[k] = IF k < i THEN lru[k] ELSE lru[k + 1]
  BY <1>3, <1>4, <1>5
<1>7. \A k \in 1..Len(lru) : k # i => lru[k] # p
  BY DEF OrderInv, ToSet
<1>8. ASSUME NEW j \in 1..Len(lru), NEW k \in 1..Len(lru), lru'[j] = lru'[k], j < k
      PROVE  FALSE
  <2>1. PICK x \in 1..Len(lru) : lru'[j] = lru[x] /\ x # i /\ (x = j \/ x = j + 1) /\ (x = j + 1 => j >= i)
    BY <1>6, <1>8
  <2>2. CASE k = Len(lru)
    BY <1>6, <1>7, <1>8, <2>1, <2>2
  <2>3. CASE k < Len(lru)
    <3>1. PICK y \in 1..Len(lru) : lru'[k] = lru[y] /\ (y = k \/ y = k + 1) /\ (k >= i => y = k + 1)
      BY <1>6, <2>3
    <3>2. x # y
      BY <1>8, <2>1, <3>1
    <3> QED
      BY <1>8, <2>1, <3>1, <3>2 DEF OrderInv
  <2> QED
    BY <2>2, <2>3
<1>9. \A j, k \in 1..Len(lru) : lru'[j] = lru'[k] => j = k
  BY <1>8
<1> QED
  BY <1>6, <1>9 DEF OrderInv

LEMMA SlotOrder ==
    ASSUME Typed, OrderInv, NEW p \in Projects, Slot(p)
    PROVE  OrderInv'
<1>0. lru \in Seq(Projects)
  BY DEF Typed
<1>1. ASSUME NEW i \in 1..Len(lru), lru[i] = p, Replace(i, p) PROVE OrderInv'
  BY <1>0, <1>1, ReplaceOrder
<1>2. CASE p \notin ToSet(lru) /\ Len(lru) < MaxProjects /\ lru' = Append(lru, p)
  <2>1. Len(lru') = Len(lru) + 1 /\ lru'[Len(lru) + 1] = p
        /\ \A k \in 1..Len(lru) : lru'[k] = lru[k]
    BY <1>0, <1>2
  <2>2. \A k \in 1..Len(lru) : lru[k] # p
    BY <1>2 DEF ToSet
  <2>3. Len(lru') <= MaxProjects
    BY <1>0, <1>2, <2>1, CacheAssumption
  <2> QED
    BY <1>0, <2>1, <2>2, <2>3 DEF OrderInv
<1>3. ASSUME p \notin ToSet(lru), NEW i \in 1..Len(lru), Replace(i, p) PROVE OrderInv'
  BY <1>0, <1>3, ReplaceOrder
<1> QED
  BY <1>1, <1>2, <1>3 DEF Slot

\* An entry that goes takes its bytes along.
LEMMA SlotStore ==
    ASSUME Typed, OrderInv, StoreInv, NEW p \in Projects, Slot(p)
    PROVE  StoreInv'
<1>0. lru \in Seq(Projects)
  BY DEF Typed
<1>1. ASSUME UNCHANGED <<ready, bytes>>, \A v \in ToSet(lru) : v \in ToSet(lru') PROVE StoreInv'
  BY <1>1 DEF StoreInv
<1>2. ASSUME NEW i \in 1..Len(lru), lru[i] = p, Replace(i, p), UNCHANGED <<ready, bytes>>
      PROVE  StoreInv'
  BY <1>0, <1>1, <1>2, ReplaceEffect
<1>3. CASE lru' = Append(lru, p) /\ UNCHANGED <<ready, bytes>>
  <2>1. lru' \in Seq(Projects) /\ Len(lru') = Len(lru) + 1
        /\ \A k \in 1..Len(lru) : lru'[k] = lru[k]
    BY <1>0, <1>3
  <2>2. ASSUME NEW v \in ToSet(lru) PROVE v \in ToSet(lru')
    <3>1. PICK k \in 1..Len(lru) : lru[k] = v
      BY <1>0, <2>2 DEF ToSet
    <3>2. k \in 1..Len(lru') /\ lru'[k] = v
      BY <1>0, <2>1, <3>1
    <3> QED
      BY <2>1, <3>2 DEF ToSet
  <2> QED
    BY <1>1, <1>3, <2>2
<1>4. ASSUME NEW i \in 1..Len(lru), Replace(i, p),
             ready' = [ready EXCEPT ![lru[i]] = None], bytes' = bytes - SizeOf(lru[i])
      PROVE  StoreInv'
  <2>1. PICK e \in Projects : e = lru[i]
    BY <1>0
  <2>2. /\ \A v \in Projects : v # e => ready'[v] = ready[v]
        /\ ready'[e] = None /\ ready' \in Rankings
        /\ bytes' = bytes - Weight(ready, e)
    BY <1>4, <2>1 DEF StoreInv, Rankings, Weight, SizeOf
  <2>3. \A v \in ToSet(lru) : v # e => v \in ToSet(lru')
    BY <1>0, <1>4, <2>1, ReplaceEffect
  <2>4. PICK r, n : r = ready' /\ n = ready
    OBVIOUS
  <2>5. Units(r, {e}) = {}
    BY <2>2, <2>4, UnitsEmpty DEF Weight
  <2>6. Units(r, Projects \ {e}) = Units(n, Projects \ {e})
    BY <2>2, <2>4, UnitsSame DEF Weight
  <2>7. Units(r, Projects) = Units(n, Projects \ {e})
    <3>1. Units(r, Projects) = Units(r, {e}) \cup Units(r, Projects \ {e})
      BY DEF Units
    <3> QED
      BY <2>5, <2>6, <3>1
  <2>8. /\ IsFiniteSet(Units(n, Projects \ {e}))
        /\ Cardinality(Units(n, Projects \ {e})) \in Nat
        /\ Cardinality(Units(n, Projects)) =
              Weight(n, e) + Cardinality(Units(n, Projects \ {e}))
    <3>1. {e} \subseteq Projects /\ n \in Rankings /\ IsFiniteSet(Units(n, Projects))
      BY <2>1, <2>4 DEF StoreInv
    <3>2. Cardinality(Units(n, {e})) = Weight(n, e)
      BY <2>1, <3>1, UnitsOne
    <3> QED
      BY <3>1, <3>2, UnitsPart
  <2>9. Weight(n, e) \in Nat
    BY <2>4, WeightType DEF StoreInv
  <2>10. bytes' = Cardinality(Units(r, Projects)) /\ bytes' <= MaxPayload
    BY <2>2, <2>4, <2>7, <2>8, <2>9, CacheAssumption DEF StoreInv
  <2>11. \A v \in Projects : ready'[v] # None => v \in ToSet(lru')
    BY <2>2, <2>3 DEF StoreInv
  <2> QED
    BY <2>2, <2>4, <2>7, <2>8, <2>10, <2>11 DEF StoreInv
<1> QED
  BY <1>2, <1>3, <1>4 DEF Slot

\* Publishing a ranking drops as many of the oldest ones as it takes; when none
\* is left the new one fits, since complete() refuses one above MAX_PAYLOAD.
LEMMA CompleteStore ==
    ASSUME IInv, PayloadInv, NEW f \in Flights, Complete(f)
    PROVE  StoreInv'
<1>0. lru \in Seq(Projects) /\ fl[f] \in FlightRec /\ StoreInv /\ ResultInv
  BY DEF IInv, Typed, PayloadInv
<1>1. PICK p \in Projects : p = fl[f].project
  BY DEF IInv, FlightInv, Complete
<1>2. lru' = lru
  BY DEF Complete
<1>3. CASE ~Publishable(f)
  <2>1. UNCHANGED <<ready, bytes>>
    BY <1>3 DEF Complete
  <2> QED
    BY <1>0, <1>2, <2>1 DEF StoreInv
<1>4. CASE Publishable(f)
  <2>1. PICK n, g : n = fl[f].bytes /\ g = fl[f].before
    OBVIOUS
  <2>2. n \in Sizes /\ n \in Nat /\ n <= MaxPayload /\ g \in Gens
    <3>1. fl[f].task = "completing" /\ fl[f].outcome = "ok" /\ n <= MaxPayload
      BY <1>4, <2>1 DEF Complete, Publishable
    <3>2. n \in Sizes /\ g \in Gens
      BY <1>0, <2>1, <3>1 DEF ResultInv, FlightRec
    <3> QED
      BY <3>1, <3>2, CacheAssumption
  <2>3. PICK k \in 0..Len(lru) :
           /\ Room(p, n, k)
           /\ ready' = [v \in Projects |->
                          IF v = p THEN [gen |-> g, bytes |-> n]
                          ELSE IF v \in Oldest(p, k) THEN None ELSE ready[v]]
           /\ bytes' = bytes - SizeOf(p) - BytesOf(Oldest(p, k)) + n
    <3>1. \E k \in 0..Len(lru) :
             /\ MakesRoom(p, n, k)
             /\ ready' = [v \in Projects |->
                            IF v = p THEN [gen |-> g, bytes |-> n]
                            ELSE IF v \in Oldest(p, k) THEN None ELSE ready[v]]
             /\ bytes' = bytes - SizeOf(p) - BytesOf(Oldest(p, k)) + n
      BY <1>1, <1>4, <2>1, Zenon DEF Complete
    <3> QED
      BY <3>1, Zenon DEF MakesRoom
  <2>4. PICK D : D = Oldest(p, k)
    OBVIOUS
  <2>5. D \subseteq Projects \ {p}
    BY <1>0, <2>3, <2>4 DEF Oldest
  <2>6. PICK o, r, Q, S : o = ready /\ r = ready' /\ S = Projects \ {p} /\ Q = S \ D
    BY Zenon
  <2>7. o \in Rankings /\ IsFiniteSet(Units(o, Projects)) /\ bytes = Cardinality(Units(o, Projects))
        /\ \A v \in Projects : o[v] # None => v \in ToSet(lru)
    BY <1>0, <2>6 DEF StoreInv
  <2>8. [gen |-> g, bytes |-> n] \in Ranked /\ [gen |-> g, bytes |-> n] # None
    BY <2>2, CacheAssumption DEF Ranked, Gens
  <2>9. /\ r \in Rankings
        /\ r[p] = [gen |-> g, bytes |-> n]
        /\ \A v \in D : r[v] = None
        /\ \A v \in Q : r[v] = o[v]
    <3> HIDE DEF Ranked
    <3>1. \A v \in Projects : r[v] = IF v = p THEN [gen |-> g, bytes |-> n]
                                    ELSE IF v \in D THEN None ELSE o[v]
      BY <2>3, <2>4, <2>6
    <3>2. r = [v \in Projects |-> r[v]]
      BY <2>3, <2>6
    <3>3. \A v \in Projects : r[v] \in Ranked \cup {None}
      BY <2>7, <2>8, <3>1 DEF Rankings
    <3> QED
      BY <2>5, <2>6, <3>1, <3>2, <3>3 DEF Rankings
  <2>10. /\ Weight(r, p) = n
         /\ \A v \in D : Weight(r, v) = 0
         /\ \A v \in Q : Weight(r, v) = Weight(o, v)
    BY <2>8, <2>9 DEF Weight
  <2>11. Units(r, S) = Units(o, Q)
    <3>1. Units(r, S) = Units(r, D) \cup Units(r, Q)
      BY <2>5, <2>6 DEF Units
    <3>2. Units(r, D) = {}
      BY <2>10, UnitsEmpty
    <3>3. Units(r, Q) = Units(o, Q)
      BY <2>10, UnitsSame
    <3> QED
      BY <3>1, <3>2, <3>3
  <2>12. /\ IsFiniteSet(Units(o, S)) /\ Cardinality(Units(o, S)) \in Nat
         /\ Cardinality(Units(o, Projects)) = Weight(o, p) + Cardinality(Units(o, S))
    <3>1. {p} \subseteq Projects
      BY <1>1
    <3>2. Cardinality(Units(o, {p})) = Weight(o, p)
      BY <1>1, <2>7, UnitsOne
    <3>3. PICK T : T = {p}
      OBVIOUS
    <3>4. T \subseteq Projects /\ IsFiniteSet(Units(o, Projects))
      BY <2>7, <3>1, <3>3
    <3>5. /\ IsFiniteSet(Units(o, Projects \ T)) /\ Cardinality(Units(o, Projects \ T)) \in Nat
          /\ Cardinality(Units(o, Projects)) =
                Cardinality(Units(o, T)) + Cardinality(Units(o, Projects \ T))
      BY <3>4, UnitsPart
    <3> QED
      BY <2>6, <3>2, <3>3, <3>5
  <2>13. /\ IsFiniteSet(Units(o, Q)) /\ Cardinality(Units(o, Q)) \in Nat
         /\ Cardinality(Units(o, D)) \in Nat
         /\ Cardinality(Units(o, S)) = Cardinality(Units(o, D)) + Cardinality(Units(o, Q))
    <3>1. D \subseteq S
      BY <2>5, <2>6
    <3>2. /\ IsFiniteSet(Units(o, S \ D)) /\ Cardinality(Units(o, S \ D)) \in Nat
          /\ Cardinality(Units(o, D)) \in Nat
          /\ Cardinality(Units(o, S)) = Cardinality(Units(o, D)) + Cardinality(Units(o, S \ D))
      BY <2>12, <3>1, UnitsPart
    <3> QED
      BY <2>6, <3>2
  <2>14. /\ IsFiniteSet(Units(r, Projects))
         /\ Cardinality(Units(r, Projects)) = n + Cardinality(Units(o, Q))
    <3>1. IsFiniteSet(Units(r, {p})) /\ Cardinality(Units(r, {p})) = n
      BY <1>1, <2>9, <2>10, UnitsOne
    <3>2. {p} \cap S = {} /\ {p} \cup S = Projects
      BY <1>1, <2>6
    <3> QED
      BY <2>11, <2>13, <3>1, <3>2, UnitsJoin
  <2>15. Weight(o, p) \in Nat
    BY <1>1, <2>7, WeightType
  <2>16. /\ SizeOf(p) = Weight(o, p)
         /\ BytesOf(D) = Cardinality(Units(o, D))
    BY <2>6 DEF SizeOf, Weight, BytesOf, Units
  <2>17. bytes - SizeOf(p) - BytesOf(D) + n = n + Cardinality(Units(o, Q))
    BY <2>2, <2>7, <2>12, <2>13, <2>15, <2>16
  <2>18. bytes' = Cardinality(Units(r, Projects))
    BY <2>3, <2>4, <2>14, <2>17
  <2>19. bytes' <= MaxPayload
    <3>1. CASE bytes - SizeOf(p) - BytesOf(D) + n <= MaxPayload
      BY <2>3, <2>4, <3>1
    <3>2. CASE k = Len(lru)
      <4>1. \A v \in Q : Weight(o, v) = 0
        <5> SUFFICES ASSUME NEW v \in Q, o[v] # None PROVE FALSE
          BY DEF Weight
        <5>1. v \in ToSet(lru) /\ v # p /\ v \notin D
          BY <2>6, <2>7
        <5>2. PICK i \in 1..Len(lru) : lru[i] = v
          BY <1>0, <5>1 DEF ToSet
        <5> QED
          BY <2>4, <3>2, <5>1, <5>2 DEF Oldest
      <4>2. Units(o, Q) = {}
        BY <4>1, UnitsEmpty
      <4>3. Cardinality(Units(o, Q)) = 0
        BY <4>2, FS_EmptySet
      <4> QED
        BY <2>2, <2>3, <2>4, <2>17, <4>3
    <3> QED
      BY <2>3, <2>4, <3>1, <3>2 DEF Room
  <2>20. \A v \in Projects : r[v] # None => v \in ToSet(lru)
    <3>1. p \in ToSet(lru)
      <4>1. current[p] = f /\ f # None
        BY <1>1, <1>4, CacheAssumption DEF Publishable
      <4> QED
        BY <4>1 DEF IInv, CurrentInv
    <3>2. \A v \in Projects : v = p \/ v \in D \/ v \in Q
      BY <2>6
    <3> QED
      BY <2>7, <2>9, <3>1, <3>2
  <2> QED
    BY <1>2, <2>6, <2>9, <2>14, <2>18, <2>19, <2>20 DEF StoreInv
<1> QED
  BY <1>3, <1>4

\* Only a computation that ends well gives a flight a ranking.
LEMMA ResultStep ==
    ASSUME IInv, ResultInv, [Next]_vars
    PROVE  ResultInv'
<1>0. fl \in [Flights -> FlightRec]
  BY DEF IInv, Typed
<1>1. ASSUME \A h \in Flights : \/ fl'[h] = fl[h]
                                \/ fl'[h].task # "completing"
                                \/ fl'[h].outcome # "ok"
                                \/ fl'[h].bytes \in Sizes
                                \/ /\ fl'[h].task = fl[h].task
                                   /\ fl'[h].outcome = fl[h].outcome
                                   /\ fl'[h].bytes = fl[h].bytes
      PROVE  ResultInv'
  BY <1>1 DEF ResultInv
<1>2. CASE UNCHANGED fl
  BY <1>1, <1>2
<1>3. ASSUME NEW q \in Requests, Join(q) PROVE ResultInv'
  <2>1. \E f \in Flights : fl' = [fl EXCEPT ![f].waiters = @ + 1]
    BY <1>3 DEF Join, Joinable, Miss, IInv, Typed, RequestInv
  <2> QED
    BY <1>0, <1>1, <2>1 DEF FlightRec
<1>4. ASSUME NEW q \in Requests, NEW f \in Flights, Own(q, f) PROVE ResultInv'
  <2>1. \A h \in Flights :
           \/ fl'[h] = fl[h]
           \/ fl'[h] = [fl[h] EXCEPT !.retired = TRUE]
           \/ fl'[h] = [NoFlight EXCEPT !.project = req[q].project, !.gen = req[q].gen,
                                        !.task = "queued", !.waiters = 1]
    BY <1>4, Zenon DEF Own
  <2>2. \A h \in Flights : \/ fl'[h] = fl[h]
                           \/ fl'[h].task = "queued"
                           \/ /\ fl'[h].task = fl[h].task
                              /\ fl'[h].outcome = fl[h].outcome
                              /\ fl'[h].bytes = fl[h].bytes
    <3> SUFFICES ASSUME NEW h \in Flights, fl'[h] # fl[h], fl'[h].task # "queued"
                 PROVE  /\ fl'[h].task = fl[h].task
                        /\ fl'[h].outcome = fl[h].outcome
                        /\ fl'[h].bytes = fl[h].bytes
      OBVIOUS
    <3>1. fl'[h] = [fl[h] EXCEPT !.retired = TRUE]
      BY <2>1 DEF NoFlight
    <3>2. fl[h] \in FlightRec
      BY <1>0
    <3> QED
      BY <3>1, <3>2 DEF FlightRec
  <2> QED
    BY <1>1, <2>2
<1>5. ASSUME NEW q \in Requests, Leave(q) PROVE ResultInv'
  <2>1. PICK f \in Flights : f = req[q].flight
    BY <1>5 DEF Leave, IInv, Typed, RequestInv, ReqRec
  <2>2. \E a, b, c : fl' = [fl EXCEPT ![f].waiters = a, ![f].abandoned = b, ![f].retired = c]
    BY <1>5, <2>1, Zenon DEF Leave
  <2> QED
    BY <1>0, <1>1, <2>2 DEF FlightRec
<1>6. ASSUME NEW f \in Flights, fl' = [fl EXCEPT ![f].stop = TRUE] PROVE ResultInv'
  BY <1>0, <1>1, <1>6 DEF FlightRec
<1>7. ASSUME NEW q \in Requests, CancelAbandoned(q) PROVE ResultInv'
  <2>1. \E f \in Flights : fl' = [fl EXCEPT ![f].stop = TRUE]
    BY <1>7 DEF CancelAbandoned, IInv, Typed, RequestInv, ReqRec
  <2> QED
    BY <1>6, <2>1
<1>8. ASSUME NEW q \in Requests, Exit(q) PROVE ResultInv'
  BY <1>0, <1>1, <1>8 DEF Exit, NoFlight
<1>9. ASSUME NEW f \in Flights, Fail(f) PROVE ResultInv'
  <2>1. fl' = [fl EXCEPT ![f].task = "completing", ![f].outcome = "error"]
    BY <1>9 DEF Fail
  <2>2. fl'[f].outcome = "error" /\ \A h \in Flights : h # f => fl'[h] = fl[h]
    BY <1>0, <2>1 DEF FlightRec
  <2> QED
    BY <1>1, <2>2
<1>10. ASSUME NEW f \in Flights, Compute(f) PROVE ResultInv'
  <2>1. \E b : fl' = [fl EXCEPT ![f].task = "computing", ![f].before = b]
    BY <1>10 DEF Compute
  <2>2. fl'[f].task = "computing" /\ \A h \in Flights : h # f => fl'[h] = fl[h]
    BY <1>0, <2>1 DEF FlightRec
  <2> QED
    BY <1>1, <2>2
<1>11. ASSUME NEW f \in Flights, NEW n \in Sizes, Computed(f, n) PROVE ResultInv'
  <2>1. \E b : fl' = [fl EXCEPT ![f].task = "completing", ![f].outcome = "ok", ![f].bytes = n,
                                ![f].stable = b]
    BY <1>11, Zenon DEF Computed
  <2>2. fl'[f].bytes = n /\ \A h \in Flights : h # f => fl'[h] = fl[h]
    BY <1>0, <2>1 DEF FlightRec
  <2> QED
    BY <1>1, <2>2
<1>12. ASSUME NEW f \in Flights, Complete(f) PROVE ResultInv'
  <2>1. fl'[f].task = "notifying" /\ \A h \in Flights : h # f => fl'[h] = fl[h]
    BY <1>12, CompleteEffect DEF IInv, OthersFly
  <2> QED
    BY <1>1, <2>1
<1>13. ASSUME NEW f \in Flights, Notify(f) PROVE ResultInv'
  <2>1. \/ fl' = [fl EXCEPT ![f] = NoFlight]
        \/ fl' = [fl EXCEPT ![f] = [@ EXCEPT !.task = "done"]]
    BY <1>13 DEF Notify
  <2>2. fl'[f].task # "completing" /\ \A h \in Flights : h # f => fl'[h] = fl[h]
    BY <1>0, <2>1 DEF FlightRec, NoFlight
  <2> QED
    BY <1>1, <2>2
<1>14. CASE \/ \E p \in Projects : Commit(p)
            \/ \E q \in Requests, p \in Projects : Get(q, p) \/ Peek(q, p)
            \/ \E q \in Requests : \/ Probe(q) \/ Hit(q) \/ Arm(q) \/ Check(q) \/ Wake(q)
                                   \/ Linger(q) \/ AbortProbe(q) \/ Abort(q) \/ CancelWaiter(q)
            \/ UNCHANGED vars
  <2>1. UNCHANGED fl
    BY <1>14, Zenon DEF Commit, Get, Peek, Probe, Hit, Arm, Check, Wake, Linger, AbortProbe, Abort,
       CancelWaiter, vars
  <2> QED
    BY <1>2, <2>1
<1>15. ASSUME NEW f \in Flights, StopFlight(f) PROVE ResultInv'
  BY <1>6, <1>15 DEF StopFlight
<1> QED
  BY <1>3, <1>4, <1>5, <1>7, <1>8, <1>9, <1>10, <1>11, <1>12, <1>13, <1>14, <1>15, Zenon
  DEF Next, RequestStep, FlightStep

LEMMA FlagStep ==
    ASSUME FlagInv, [Next]_vars
    PROVE  FlagInv'
<1>1. ASSUME NEW q \in Requests, EndCall(q) PROVE FlagInv'
  BY <1>1 DEF EndCall, FlagInv
<1>2. ASSUME NEW q \in Requests, Arm(q) PROVE FlagInv'
  BY <1>2 DEF Arm, FlagInv
<1>3. ASSUME NEW q \in Requests, CancelWaiter(q) PROVE FlagInv'
  BY <1>3 DEF CancelWaiter, FlagInv
<1>4. ASSUME NEW f \in Flights, Notify(f) PROVE FlagInv'
  <2>1. \A q \in Requests : (woken[q] \/ req[q].flight = f) \in BOOLEAN
    BY Zenon
  <2>2. woken' = [q \in Requests |-> woken[q] \/ req[q].flight = f] /\ stopped' = stopped
    BY <1>4, Zenon DEF Notify
  <2> QED
    BY <2>1, <2>2, Zenon DEF FlagInv
<1>5. ASSUME UNCHANGED <<woken, stopped>> PROVE FlagInv'
  BY <1>5 DEF FlagInv
<1>6. CASE \/ \E p \in Projects : Commit(p)
           \/ \E q \in Requests, p \in Projects : Get(q, p) \/ Peek(q, p)
           \/ \E q \in Requests : \/ Probe(q) \/ Hit(q) \/ Join(q) \/ (\E f \in Flights : Own(q, f))
                                  \/ Check(q) \/ Wake(q) \/ Leave(q)
                                  \/ CancelAbandoned(q) \/ AbortProbe(q) \/ Abort(q)
           \/ \E f \in Flights : \/ Compute(f) \/ (\E n \in Sizes : Computed(f, n)) \/ Fail(f)
                                 \/ Complete(f) \/ StopFlight(f)
           \/ UNCHANGED vars
  <2>1. UNCHANGED <<woken, stopped>>
    BY <1>6, Zenon DEF Commit, Get, Peek, Probe, Hit, Join, Own, Check, Wake, Leave, CancelAbandoned,
       AbortProbe, Abort, Compute, Computed, Fail, Complete, StopFlight, vars, reqVars
  <2> QED
    BY <1>5, <2>1
<1>7. ASSUME NEW q \in Requests, Exit(q) \/ Linger(q) PROVE FlagInv'
  BY <1>1, <1>7 DEF Exit, Linger
<1> QED
  BY <1>2, <1>3, <1>4, <1>6, <1>7, Zenon DEF Next, RequestStep, FlightStep

\* Only slot and complete touch the entries and their payloads.
LEMMA StoreStep ==
    ASSUME IInv, PayloadInv, [Next]_vars
    PROVE  OrderInv' /\ StoreInv'
<1>0. Typed /\ OrderInv /\ StoreInv
  BY DEF IInv, PayloadInv
<1>1. ASSUME UNCHANGED <<lru, ready, bytes>> PROVE OrderInv' /\ StoreInv'
  BY <1>0, <1>1 DEF OrderInv, StoreInv
<1>2. ASSUME NEW p \in Projects, Slot(p) PROVE OrderInv' /\ StoreInv'
  BY <1>0, <1>2, SlotOrder, SlotStore
<1>3. ASSUME NEW q \in Requests, \E p \in Projects : Get(q, p) \/ Peek(q, p)
      PROVE  OrderInv' /\ StoreInv'
  BY <1>2, <1>3 DEF Get, Peek
<1>4. ASSUME NEW q \in Requests, Probe(q) PROVE OrderInv' /\ StoreInv'
  <2>1. req[q].project \in Projects /\ Slot(req[q].project)
    BY <1>4 DEF Probe, IInv, RequestInv
  <2> QED
    BY <1>2, <2>1
<1>5. ASSUME NEW f \in Flights, Complete(f) PROVE OrderInv' /\ StoreInv'
  <2>1. OrderInv'
    BY <1>0, <1>5 DEF Complete, OrderInv
  <2> QED
    BY <1>5, <2>1, CompleteStore
<1>6. CASE \/ \E p \in Projects : Commit(p)
           \/ \E q \in Requests : \/ Hit(q) \/ Join(q) \/ (\E f \in Flights : Own(q, f)) \/ Arm(q)
                                  \/ Check(q) \/ Wake(q) \/ Leave(q) \/ CancelAbandoned(q) \/ Exit(q)
                                  \/ Linger(q) \/ AbortProbe(q) \/ Abort(q) \/ CancelWaiter(q)
           \/ \E f \in Flights : \/ Compute(f) \/ (\E n \in Sizes : Computed(f, n)) \/ Fail(f)
                                 \/ Notify(f) \/ StopFlight(f)
           \/ UNCHANGED vars
  <2>1. UNCHANGED <<lru, ready, bytes>>
    BY <1>6, Zenon DEF Commit, Hit, Join, Own, Arm, Check, Wake, Leave, CancelAbandoned, Exit,
       Linger, AbortProbe, Abort, CancelWaiter, Compute, Computed, Fail, Notify, StopFlight, vars,
       cacheVars
  <2> QED
    BY <1>1, <2>1
<1> QED
  BY <1>3, <1>4, <1>5, <1>6, Zenon DEF Next, RequestStep, FlightStep

LEMMA InitPayload == Init => PayloadInv
<1> SUFFICES ASSUME Init PROVE PayloadInv
  OBVIOUS
<1>1. ready = [p \in Projects |-> None] /\ ready \in Rankings
  BY DEF Init, Rankings
<1>2. Units(ready, Projects) = {}
  <2>1. \A v \in Projects : Weight(ready, v) = 0
    BY <1>1 DEF Weight
  <2> QED
    BY <2>1, UnitsEmpty
<1>3. StoreInv
  <2>1. bytes = 0 /\ \A p \in Projects : ready[p] = None
    BY <1>1 DEF Init
  <2>2. IsFiniteSet(Units(ready, Projects)) /\ Cardinality(Units(ready, Projects)) = 0
    BY <1>2, FS_EmptySet
  <2>3. 0 <= MaxPayload
    BY CacheAssumption
  <2> QED
    BY <1>1, <2>1, <2>2, <2>3 DEF StoreInv
<1>4. OrderInv /\ FlagInv
  BY CacheAssumption DEF Init, OrderInv, FlagInv
<1>5. ResultInv
  BY DEF Init, ResultInv, NoFlight
<1> QED
  BY <1>3, <1>4, <1>5 DEF PayloadInv

-----------------------------------------------------------------------------
(* The age of the stored rankings.                                         *)

\* A stored ranking is of a generation the project has had.  The result of a
\* flight is stable only while it waits to be completed, and while that flight
\* is the current one nothing newer than it is stored.
AgeInv ==
    /\ \A p \in Projects : ready[p] # None => ready[p].gen <= gen[p]
    /\ \A f \in Flights : fl[f].stable =>
          /\ fl[f].task = "completing" /\ fl[f].project \in Projects
          /\ fl[f].before <= gen[fl[f].project]
          /\ current[fl[f].project] = f /\ ready[fl[f].project] # None =>
                ready[fl[f].project].gen <= fl[f].before

\* What most steps do: no ranking is stored, and no flight becomes stable.
Ageless ==
    /\ \A p \in Projects : ready'[p] = ready[p] \/ ready'[p] = None
    /\ \A p \in Projects : gen'[p] = gen[p] \/ gen'[p] = gen[p] + 1
    /\ \A f \in Flights : fl'[f].stable =>
          /\ fl[f].stable /\ fl'[f].task = fl[f].task
          /\ fl'[f].project = fl[f].project /\ fl'[f].before = fl[f].before
          /\ \A p \in Projects : current'[p] = f => current[p] = f

LEMMA AgelessStep ==
    ASSUME IInv, PayloadInv, AgeInv, Ageless
    PROVE  /\ AgeInv'
           /\ \A p \in Projects :
                 ready[p] # None /\ ready'[p] # None => ready'[p].gen >= ready[p].gen
<1>a. \A p \in Projects : gen[p] \in Nat
  BY CacheAssumption DEF IInv, Typed, Gens
<1>b. \A p \in Projects : gen'[p] \in Nat /\ gen'[p] >= gen[p]
  BY <1>a DEF Ageless
<1>c. \A p \in Projects : ready[p] # None => ready[p].gen \in Nat
  BY CacheAssumption DEF PayloadInv, StoreInv, Rankings, Ranked, Gens
<1>d. \A f \in Flights : fl[f].before \in Nat
  BY CacheAssumption DEF IInv, Typed, Gens, FlightRec
<1>1. /\ \A p \in Projects : gen[p] \in Nat /\ gen'[p] \in Nat /\ gen'[p] >= gen[p]
      /\ \A p \in Projects : ready[p] # None => ready[p].gen \in Nat
      /\ \A f \in Flights : fl[f].before \in Nat
  BY <1>a, <1>b, <1>c, <1>d
<1>2. \A p \in Projects : ready'[p] # None => ready'[p] = ready[p]
  BY DEF Ageless
<1>3. \A p \in Projects : ready'[p] # None => ready'[p].gen <= gen'[p]
  BY <1>1, <1>2 DEF AgeInv
<1>4. ASSUME NEW f \in Flights, fl'[f].stable
      PROVE  /\ fl'[f].task = "completing" /\ fl'[f].project \in Projects
             /\ fl'[f].before <= gen'[fl'[f].project]
             /\ current'[fl'[f].project] = f /\ ready'[fl'[f].project] # None =>
                   ready'[fl'[f].project].gen <= fl'[f].before
  <2>1. /\ fl[f].stable /\ fl'[f].task = fl[f].task
        /\ fl'[f].project = fl[f].project /\ fl'[f].before = fl[f].before
        /\ \A p \in Projects : current'[p] = f => current[p] = f
    BY <1>4 DEF Ageless
  <2> QED
    BY <1>1, <1>2, <2>1 DEF AgeInv
<1> QED
  BY <1>1, <1>2, <1>3, <1>4 DEF AgeInv

\* A ranking becomes stable when its generation is still the project's, which no
\* stored ranking is newer than.
LEMMA ComputedAge ==
    ASSUME IInv, PayloadInv, AgeInv, NEW f \in Flights, NEW n \in Sizes, Computed(f, n)
    PROVE  /\ AgeInv'
           /\ UNCHANGED ready
<1>1. PICK p \in Projects : p = fl[f].project
  BY DEF IInv, FlightInv, Computed
<1>2. /\ UNCHANGED <<gen, ready, current>>
      /\ \A h \in Flights : h # f => fl'[h] = fl[h]
      /\ fl'[f].task = "completing" /\ fl'[f].project = p /\ fl'[f].before = fl[f].before
      /\ fl'[f].stable => fl[f].before = gen[p]
  <2>1. PICK b : /\ b = (fl[f].before = gen[p] /\ fl[f].before = fl[f].gen)
                 /\ fl' = [fl EXCEPT ![f].task = "completing", ![f].outcome = "ok",
                                     ![f].bytes = n, ![f].stable = b]
    BY <1>1, Zenon DEF Computed
  <2>2. fl \in [Flights -> FlightRec] /\ UNCHANGED <<gen, ready, current>>
    BY DEF IInv, Typed, Computed, cacheVars
  <2>3. /\ \A h \in Flights : h # f => fl'[h] = fl[h]
        /\ fl'[f].task = "completing" /\ fl'[f].project = fl[f].project
        /\ fl'[f].before = fl[f].before /\ fl'[f].stable = b
    BY <2>1, <2>2 DEF FlightRec
  <2> QED
    BY <1>1, <2>1, <2>2, <2>3
<1>3. gen[p] \in Nat
  BY CacheAssumption DEF IInv, Typed, Gens
<1> QED
  BY <1>2, <1>3 DEF AgeInv

\* complete() stores the result of the current flight only.
LEMMA CompleteAge ==
    ASSUME IInv, PayloadInv, AgeInv, NEW f \in Flights, Complete(f)
    PROVE  /\ AgeInv'
           /\ \A p \in Projects :
                 ready[p] # None /\ ready'[p] # None => ready'[p].gen >= ready[p].gen
<1>1. PICK p \in Projects : p = fl[f].project
  BY DEF IInv, FlightInv, Complete
<1>2. /\ gen' = gen
      /\ \A h \in Flights : h # f => fl'[h] = fl[h]
      /\ ~fl'[f].stable
      /\ current' = IF current[p] = f THEN [current EXCEPT ![p] = None] ELSE current
  <2>1. /\ gen' = gen /\ fl \in [Flights -> FlightRec]
        /\ fl' = [fl EXCEPT ![f].task = "notifying", ![f].retired = FALSE, ![f].before = 0,
                            ![f].bytes = 0, ![f].stable = FALSE]
        /\ current' = IF current[p] = f THEN [current EXCEPT ![p] = None] ELSE current
    BY <1>1 DEF Complete, IInv, Typed
  <2>2. ~fl'[f].stable /\ \A h \in Flights : h # f => fl'[h] = fl[h]
    BY <2>1 DEF FlightRec
  <2> QED
    BY <2>1, <2>2
<1>3. CASE ~Publishable(f)
  <2>1. ready' = ready
    BY <1>3 DEF Complete
  <2>2. \A h \in Flights : h # None
    BY CacheAssumption
  <2>3. Ageless
    BY <1>2, <2>1, <2>2 DEF Ageless, IInv, Typed
  <2> QED
    BY <2>3, AgelessStep
<1>4. CASE Publishable(f)
  <2>1. PICK g : g = fl[f].before
    OBVIOUS
  <2>2. /\ current[p] = f /\ fl[f].stable
    BY <1>1, <1>4 DEF Publishable
  <2>3. \E k \in 0..Len(lru) : ready' =
           [v \in Projects |-> IF v = p THEN [gen |-> g, bytes |-> fl[f].bytes]
                               ELSE IF v \in Oldest(p, k) THEN None ELSE ready[v]]
    BY <1>1, <1>4, <2>1, Zenon DEF Complete
  <2>4. /\ ready'[p].gen = g
        /\ \A v \in Projects : v # p => ready'[v] = None \/ ready'[v] = ready[v]
    BY <2>3
  <2>5. /\ \A v \in Projects : gen[v] \in Nat
        /\ \A v \in Projects : ready[v] # None => ready[v].gen \in Nat
        /\ g \in Nat
    BY <2>1, CacheAssumption
    DEF IInv, Typed, PayloadInv, StoreInv, Rankings, Ranked, Gens, FlightRec
  <2>6. g <= gen[p] /\ (ready[p] # None => g >= ready[p].gen)
    BY <1>1, <2>1, <2>2, <2>5 DEF AgeInv
  <2>7. \A v \in Projects : ready'[v] # None => ready'[v].gen <= gen'[v]
    BY <1>2, <2>4, <2>6 DEF AgeInv
  <2>8. \A v \in Projects : ready[v] # None /\ ready'[v] # None => ready'[v].gen >= ready[v].gen
    BY <2>4, <2>5, <2>6
  <2>9. ASSUME NEW h \in Flights, fl'[h].stable
        PROVE  /\ fl'[h].task = "completing" /\ fl'[h].project \in Projects
               /\ fl'[h].before <= gen'[fl'[h].project]
               /\ current'[fl'[h].project] = h /\ ready'[fl'[h].project] # None =>
                     ready'[fl'[h].project].gen <= fl'[h].before
    <3>1. h # f /\ fl'[h] = fl[h] /\ fl[h].stable /\ h # None
      BY <1>2, <2>9, CacheAssumption
    <3>2. current'[p] = None /\ \A v \in Projects : v # p => current'[v] = current[v]
      BY <1>2, <2>2 DEF IInv, Typed
    <3> QED
      BY <1>2, <2>4, <3>1, <3>2 DEF AgeInv
  <2> QED
    BY <2>7, <2>8, <2>9 DEF AgeInv
<1> QED
  BY <1>3, <1>4

\* Every other step stores nothing.
LEMMA AgelessSteps ==
    ASSUME IInv, PayloadInv, AgeInv, [Next]_vars,
           \A f \in Flights : ~Complete(f) /\ \A n \in Sizes : ~Computed(f, n)
    PROVE  Ageless
<1>0. /\ fl \in [Flights -> FlightRec] /\ gen \in [Projects -> Gens]
      /\ current \in [Projects -> Flights \cup {None}]
      /\ ready \in Rankings
  BY DEF IInv, Typed, PayloadInv, StoreInv
<1>1. ASSUME /\ UNCHANGED current
             /\ \A p \in Projects : ready'[p] = ready[p] \/ ready'[p] = None
             /\ \A p \in Projects : gen'[p] = gen[p] \/ gen'[p] = gen[p] + 1
             /\ \A f \in Flights : fl'[f].stable =>
                   /\ fl[f].stable /\ fl'[f].task = fl[f].task
                   /\ fl'[f].project = fl[f].project /\ fl'[f].before = fl[f].before
      PROVE  Ageless
  BY <1>1 DEF Ageless
<1>2. ASSUME NEW p \in Projects, Slot(p)
      PROVE  \A v \in Projects : ready'[v] = ready[v] \/ ready'[v] = None
  <2>1. \/ ready' = ready
        \/ \E e : ready' = [ready EXCEPT ![e] = None]
    BY <1>2, Zenon DEF Slot
  <2> QED
    BY <1>0, <2>1 DEF Rankings
<1>3. ASSUME NEW p \in Projects, Commit(p) PROVE Ageless
  <2>1. \A v \in Projects : gen'[v] = gen[v] \/ gen'[v] = gen[v] + 1
    BY <1>0, <1>3 DEF Commit
  <2>2. UNCHANGED <<ready, current, fl>>
    BY <1>3 DEF Commit, cacheVars
  <2> QED
    BY <1>1, <2>1, <2>2
<1>4. ASSUME UNCHANGED <<gen, current, fl>>, NEW p \in Projects, Slot(p) PROVE Ageless
  <2>1. \A v \in Projects : ready'[v] = ready[v] \/ ready'[v] = None
    BY <1>2, <1>4
  <2> QED
    BY <1>1, <1>4, <2>1
<1>5. ASSUME NEW q \in Requests, \E p \in Projects : Get(q, p) \/ Peek(q, p) PROVE Ageless
  BY <1>4, <1>5 DEF Get, Peek
<1>6. ASSUME NEW q \in Requests, Probe(q) PROVE Ageless
  <2>1. req[q].project \in Projects /\ Slot(req[q].project) /\ UNCHANGED <<gen, current, fl>>
    BY <1>6 DEF Probe, IInv, RequestInv
  <2> QED
    BY <1>4, <2>1
<1>7. ASSUME UNCHANGED <<gen, ready, current>>,
             \A f \in Flights : \/ fl'[f] = fl[f] \/ ~fl'[f].stable
                                \/ /\ fl'[f].stable = fl[f].stable /\ fl'[f].task = fl[f].task
                                   /\ fl'[f].project = fl[f].project /\ fl'[f].before = fl[f].before
      PROVE  Ageless
  BY <1>1, <1>7
<1>8. CASE \/ \E q \in Requests : \/ Hit(q) \/ Arm(q) \/ Check(q) \/ Wake(q) \/ Linger(q)
                                  \/ AbortProbe(q) \/ Abort(q) \/ CancelWaiter(q)
           \/ UNCHANGED vars
  <2>1. UNCHANGED <<gen, ready, current, fl>>
    BY <1>8, Zenon DEF Hit, Arm, Check, Wake, Linger, AbortProbe, Abort, CancelWaiter, vars, cacheVars
  <2> QED
    BY <1>7, <2>1
<1>9. ASSUME NEW q \in Requests, Join(q) PROVE Ageless
  <2>1. \E f \in Flights : fl' = [fl EXCEPT ![f].waiters = @ + 1]
    BY <1>9 DEF Join, Joinable, Miss, IInv, Typed, RequestInv
  <2>2. UNCHANGED <<gen, ready, current>>
    BY <1>9 DEF Join, cacheVars
  <2> QED
    BY <1>0, <1>7, <2>1, <2>2 DEF FlightRec
<1>10. ASSUME NEW q \in Requests, NEW f \in Flights, Own(q, f) PROVE Ageless
  <2>1. PICK p : p = req[q].project
    OBVIOUS
  <2>2. /\ fl'[f] = [NoFlight EXCEPT !.project = p, !.gen = req[q].gen, !.task = "queued",
                                     !.waiters = 1]
        /\ \A h \in Flights : h # f => fl'[h] = fl[h] \/ fl'[h] = [fl[h] EXCEPT !.retired = TRUE]
    BY <1>10, <2>1, Zenon DEF Own
  <2>3. current' = [current EXCEPT ![p] = f] /\ UNCHANGED <<gen, ready>>
    BY <1>10, <2>1 DEF Own
  <2>4. ~fl'[f].stable
    BY <2>2 DEF NoFlight
  <2>5. \A h \in Flights : h # f =>
           /\ fl'[h].stable = fl[h].stable /\ fl'[h].task = fl[h].task
           /\ fl'[h].project = fl[h].project /\ fl'[h].before = fl[h].before
    <3> SUFFICES ASSUME NEW h \in Flights, h # f
                 PROVE  /\ fl'[h].stable = fl[h].stable /\ fl'[h].task = fl[h].task
                        /\ fl'[h].project = fl[h].project /\ fl'[h].before = fl[h].before
      OBVIOUS
    <3>1. fl[h] \in FlightRec
      BY <1>0
    <3> QED
      BY <2>2, <3>1 DEF FlightRec
  <2>6. \A h \in Flights : h # f => \A v \in Projects : current'[v] = h => current[v] = h
    BY <1>0, <2>3
  <2> QED
    BY <2>3, <2>4, <2>5, <2>6 DEF Ageless
<1>11. ASSUME NEW q \in Requests, Leave(q) PROVE Ageless
  <2>1. PICK f \in Flights : f = req[q].flight
    BY <1>11 DEF Leave, IInv, Typed, RequestInv, ReqRec
  <2>2. \E a, b, c : fl' = [fl EXCEPT ![f].waiters = a, ![f].abandoned = b, ![f].retired = c]
    BY <1>11, <2>1, Zenon DEF Leave
  <2>3. \A h \in Flights :
           /\ fl'[h].stable = fl[h].stable /\ fl'[h].task = fl[h].task
           /\ fl'[h].project = fl[h].project /\ fl'[h].before = fl[h].before
    BY <1>0, <2>2 DEF FlightRec
  <2>4. UNCHANGED <<gen, ready>>
    BY <1>11 DEF Leave
  <2>5. current' = current \/ \E p : current' = [current EXCEPT ![p] = None]
    BY <1>11, Zenon DEF Leave
  <2>6. \A h \in Flights : \A v \in Projects : current'[v] = h => current[v] = h
    BY <1>0, <2>5, CacheAssumption
  <2> QED
    BY <2>3, <2>4, <2>6 DEF Ageless
<1>12. ASSUME NEW f \in Flights, fl' = [fl EXCEPT ![f].stop = TRUE], UNCHANGED <<gen, ready, current>>
       PROVE  Ageless
  BY <1>0, <1>7, <1>12 DEF FlightRec
<1>13. ASSUME NEW q \in Requests, CancelAbandoned(q) PROVE Ageless
  <2>1. \E f \in Flights : fl' = [fl EXCEPT ![f].stop = TRUE]
    BY <1>13 DEF CancelAbandoned, IInv, Typed, RequestInv, ReqRec
  <2>2. UNCHANGED <<gen, ready, current>>
    BY <1>13 DEF CancelAbandoned, cacheVars
  <2> QED
    BY <1>12, <2>1, <2>2
<1>14. ASSUME NEW q \in Requests, Exit(q) PROVE Ageless
  BY <1>0, <1>7, <1>14 DEF Exit, NoFlight, cacheVars
<1>15. ASSUME NEW f \in Flights, Fail(f) \/ Compute(f) \/ Notify(f) \/ StopFlight(f),
              ~fl[f].stable \/ StopFlight(f)
       PROVE  Ageless
  <2>1. UNCHANGED <<gen, ready, current>>
    BY <1>15 DEF Fail, Compute, Notify, StopFlight, cacheVars
  <2>2. CASE StopFlight(f)
    BY <1>12, <2>1, <2>2 DEF StopFlight
  <2>3. CASE ~fl[f].stable /\ (Fail(f) \/ Compute(f) \/ Notify(f))
    <3>1. \/ \E b : fl' = [fl EXCEPT ![f].task = "computing", ![f].before = b]
          \/ fl' = [fl EXCEPT ![f].task = "completing", ![f].outcome = "error"]
          \/ fl' = [fl EXCEPT ![f] = NoFlight]
          \/ fl' = [fl EXCEPT ![f] = [@ EXCEPT !.task = "done"]]
      BY <2>3 DEF Fail, Compute, Notify
    <3>2. ~fl'[f].stable /\ \A h \in Flights : h # f => fl'[h] = fl[h]
      BY <1>0, <2>3, <3>1 DEF FlightRec, NoFlight
    <3> QED
      BY <1>7, <2>1, <3>2
  <2> QED
    BY <1>15, <2>2, <2>3
<1>16. ASSUME NEW f \in Flights, FlightStep(f) \/ StopFlight(f) PROVE Ageless
  <2>1. Fail(f) \/ Compute(f) \/ Notify(f) => ~fl[f].stable
    BY DEF AgeInv, Fail, Compute, Notify
  <2> QED
    BY <1>15, <1>16, <2>1 DEF FlightStep
<1> QED
  BY <1>3, <1>5, <1>6, <1>8, <1>9, <1>10, <1>11, <1>13, <1>14, <1>16, Zenon
  DEF Next, RequestStep

-----------------------------------------------------------------------------
(* The theorems.                                                           *)

LEMMA NextIInv == IInv /\ [Next]_vars => IInv'
<1> SUFFICES ASSUME IInv, [Next]_vars PROVE IInv'
  OBVIOUS
<1>1. CASE UNCHANGED <<lru, current, retired, fl, pc, req>> /\ gen' \in [Projects -> Gens]
  <2>1. /\ \A f \in Flights : Waiters(f)' = Waiters(f)
        /\ Retirees' = Retirees
        /\ \A f \in Flights : HasResult(f)' = HasResult(f)
    BY <1>1 DEF Waiters, Retirees, HasResult
  <2>2. Typed' /\ RequestInv' /\ HolderInv' /\ FlightInv' /\ HeldEntryStays'
    BY <1>1, <2>1 DEF IInv, Typed, RequestInv, HolderInv, FlightInv, HeldEntryStays
  <2>3. CurrentInv'
    <3>1. \A p \in Projects : current[p] # None => current[p] \in Flights
      BY DEF IInv, Typed
    <3> QED
      BY <1>1, <2>1, <3>1 DEF IInv, CurrentInv
  <2>4. CountInv' /\ RetiredInv'
    BY <1>1, <2>1 DEF IInv, CountInv, RetiredInv
  <2> QED
    BY <2>2, <2>3, <2>4 DEF IInv
<1>2. CASE UNCHANGED vars
  BY <1>1, <1>2 DEF vars, cacheVars, reqVars, IInv, Typed
<1>3. ASSUME NEW p \in Projects, Commit(p) PROVE IInv'
  <2>1. gen' \in [Projects -> Gens]
    BY <1>3, CacheAssumption DEF IInv, Typed, Commit, Gens
  <2> QED
    BY <1>1, <1>3, <2>1 DEF Commit, cacheVars, reqVars
<1>4. ASSUME NEW q \in Requests, CancelWaiter(q) PROVE IInv'
  BY <1>1, <1>4 DEF CancelWaiter, cacheVars, IInv, Typed
<1>5. ASSUME NEW q \in Requests,
             \/ \E p \in Projects : Get(q, p) \/ Peek(q, p)
             \/ Probe(q) \/ AbortProbe(q) \/ Hit(q) \/ Arm(q) \/ Check(q) \/ Wake(q) \/ Abort(q)
             \/ Linger(q)
      PROVE  IInv'
  BY <1>5, QuietSteps, QuietIInv
<1>6. ASSUME NEW q \in Requests, RequestStep(q) PROVE IInv'
  BY <1>5, <1>6, JoinIInv, OwnIInv, LeaveIInv, CancelAbandonedIInv, ExitIInv DEF RequestStep
<1>7. ASSUME NEW f \in Flights, FlightStep(f) \/ StopFlight(f) PROVE IInv'
  BY <1>7, CalmSteps, CompleteIInv, NotifyIInv DEF FlightStep
<1> QED
  BY <1>2, <1>3, <1>4, <1>5, <1>6, <1>7 DEF Next

\* The cache's inductive invariant.
THEOREM Inductive == Spec => []IInv
  BY InitIInv, NextIInv, PTL DEF Spec

\* However requests join, leave, are dropped and are replaced, a flight's
\* waiter count (get, Drop for WaiterGuard) is the number of its waiters, and
\* the flight that can be joined is neither abandoned nor finished.
THEOREM WaitersAreCounted == Spec => []WaitersCounted
<1>1. IInv => WaitersCounted
  <2> SUFFICES ASSUME IInv, NEW f \in Flights
               PROVE  /\ fl[f].waiters = Cardinality(Waiters(f))
                      /\ fl[f].abandoned => Waiters(f) = {}
                      /\ \A p \in Projects : current[p] = f =>
                            /\ fl[f].project = p /\ p \in ToSet(lru)
                            /\ ~fl[f].abandoned /\ ~fl[f].retired
                            /\ ~HasResult(f) /\ Waiters(f) # {}
    BY DEF WaitersCounted, Waiters
  <2>1. fl[f].waiters = Cardinality(Waiters(f)) /\ (fl[f].abandoned => Waiters(f) = {})
    BY DEF IInv, CountInv
  <2>2. f # None
    BY CacheAssumption
  <2> QED
    BY <2>1, <2>2 DEF IInv, CurrentInv, HasResult
<1> QED
  BY <1>1, Inductive, PTL

\* CacheState.retired is the number of flights that were replaced or abandoned
\* and are not complete.
THEOREM RetiredIsCounted == Spec => []RetiredAccounting
<1>1. IInv => RetiredAccounting
  BY DEF IInv, RetiredInv, Retirees, RetiredAccounting
<1> QED
  BY <1>1, Inductive, PTL

\* No eviction takes the entry of a get() between its slot and its lookup.
THEOREM EntryStays == Spec => []HeldEntryStays
<1>1. IInv => HeldEntryStays
  BY DEF IInv
<1> QED
  BY <1>1, Inductive, PTL

\* The entries and their payloads, on top of the invariant above.
THEOREM PayloadInductive == Spec => []PayloadInv
<1>1. IInv /\ PayloadInv /\ [Next]_vars => PayloadInv'
  BY StoreStep, ResultStep, FlagStep DEF PayloadInv
<1> QED
  BY <1>1, InitPayload, Inductive, PTL DEF Spec

\* CacheState.bytes is exactly what is stored and never above MAX_PAYLOAD, and
\* only a project that has an entry has a ranking (slot, complete).
THEOREM PayloadCounted == Spec => []PayloadAccounting
<1>1. PayloadInv => PayloadAccounting
  <2> SUFFICES ASSUME StoreInv PROVE PayloadAccounting
    BY DEF PayloadInv
  <2>1. BytesOf(Projects) = Cardinality(Units(ready, Projects))
    BY DEF BytesOf, Units, Weight, SizeOf
  <2> QED
    BY <2>1 DEF StoreInv, PayloadAccounting
<1> QED
  BY <1>1, PayloadInductive, PTL

\* A ranking that is published is never older than the one it replaces: not the
\* result of a flight that a request for a newer generation retired, and not
\* that of a request which probed before the last commit (complete).
THEOREM RankingsOnlyRenewed == Spec => RankingNeverOlder
<1> DEFINE Renewed == \A p \in Projects :
              ready[p] # None /\ ready'[p] # None => ready'[p].gen >= ready[p].gen
<1>1. Init => AgeInv
  BY DEF Init, AgeInv, NoFlight
<1>2. IInv /\ PayloadInv /\ AgeInv /\ [Next]_vars => AgeInv' /\ [Renewed]_vars
  <2> SUFFICES ASSUME IInv, PayloadInv, AgeInv, [Next]_vars PROVE AgeInv' /\ Renewed
    OBVIOUS
  <2>1. ASSUME NEW f \in Flights, Complete(f) PROVE AgeInv' /\ Renewed
    BY <2>1, CompleteAge
  <2>2. ASSUME NEW f \in Flights, NEW n \in Sizes, Computed(f, n) PROVE AgeInv' /\ Renewed
    <3>1. AgeInv' /\ UNCHANGED ready
      BY <2>2, ComputedAge
    <3>2. \A p \in Projects : ready[p] # None => ready[p].gen \in Nat
      BY CacheAssumption DEF PayloadInv, StoreInv, Rankings, Ranked, Gens
    <3> QED
      BY <3>1, <3>2
  <2>3. CASE \A f \in Flights : ~Complete(f) /\ \A n \in Sizes : ~Computed(f, n)
    BY <2>3, AgelessSteps, AgelessStep
  <2> QED
    BY <2>1, <2>2, <2>3
<1> QED
  BY <1>1, <1>2, Inductive, PayloadInductive, PTL DEF Spec, RankingNeverOlder

\* Type correctness; above all, the map has at most MAX_PROJECTS entries and no
\* project has two.
THEOREM TypeCorrect == Spec => []TypeOK
<1>1. IInv /\ PayloadInv => TypeOK
  <2> SUFFICES ASSUME IInv, PayloadInv PROVE TypeOK
    OBVIOUS
  <2>1. lru \in Seq(Projects) /\ Len(lru) \in Nat
    BY DEF IInv, Typed
  <2>2. ToSet(lru) \subseteq Projects
    BY <2>1 DEF ToSet
  <2>3. Len(lru) = Cardinality(ToSet(lru))
    <3>1. PICK S : S = ToSet(lru)
      OBVIOUS
    <3>2. lru \in Bijection(1..Len(lru), S)
      <4>1. lru \in [1..Len(lru) -> S]
        BY <2>1, <3>1 DEF ToSet
      <4>2. \A x \in S : \E i \in 1..Len(lru) : lru[i] = x
        BY <2>1, <3>1 DEF ToSet
      <4>3. lru \in Surjection(1..Len(lru), S)
        BY <4>1, <4>2 DEF Surjection
      <4>4. \A i, j \in 1..Len(lru) : lru[i] = lru[j] => i = j
        BY DEF PayloadInv, OrderInv
      <4>5. lru \in Injection(1..Len(lru), S)
        BY <4>1, <4>4 DEF Injection, IsInjective
      <4> QED
        BY <4>3, <4>5 DEF Bijection
    <3>3. ExistsBijection(1..Len(lru), S)
      BY <3>2 DEF ExistsBijection
    <3> QED
      BY <2>1, <3>1, <3>3, FS_CountingElements
  <2>4. Len(lru) <= MaxProjects
    BY DEF PayloadInv, OrderInv
  <2>5. ready \in [Projects -> [gen : Gens, bytes : Sizes] \cup {None}] /\ bytes \in Nat
    BY FS_CardinalityType DEF PayloadInv, StoreInv, Rankings, Ranked
  <2> QED
    BY <2>2, <2>3, <2>4, <2>5 DEF IInv, Typed, PayloadInv, FlagInv, TypeOK
<1> QED
  BY <1>1, Inductive, PayloadInductive, PTL
=============================================================================
