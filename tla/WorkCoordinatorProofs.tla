----------------------- MODULE WorkCoordinatorProofs -----------------------
(***************************************************************************)
(* Proofs about WorkCoordinator, for any number of calls, controls,        *)
(* projects and classes and any limits that WorkLimits::validate accepts.  *)
(***************************************************************************)
EXTENDS WorkCoordinator, FiniteSetTheorems, TLAPS

\* The accounting invariant with what it needs to be inductive.
IInv == TypeOK /\ OwnershipInv /\ AccountingExact /\ LimitsRespected

\* State.projects maps project paths to counters.
ProjectsOK ==
    /\ DOMAIN projects \in SUBSET Projects
    /\ projects \in [DOMAIN projects -> CountsRec]

\* A project without a record counts as zero, so Counts is always a record of
\* counters.
LEMMA CountsType ==
    ASSUME ProjectsOK, NEW p
    PROVE  Counts(p) \in CountsRec
BY DEF ProjectsOK, Counts, NoCounts, CountsRec

\* entry(p).or_default() changes one project's counters.
LEMMA PutCountsEffect ==
    ASSUME ProjectsOK, NEW p \in Projects, NEW n \in CountsRec,
           projects' = PutCounts(p, n)
    PROVE  /\ ProjectsOK'
           /\ Counts(p)' = n
           /\ \A q \in Projects \ {p} : Counts(q)' = Counts(q)
           /\ DOMAIN projects' = DOMAIN projects \cup {p}
           /\ projects'[p] = n
           /\ \A q \in DOMAIN projects \ {p} : projects'[q] = projects[q]
BY DEF ProjectsOK, PutCounts, Counts

\* prune_project changes one project's counters too, and drops the record
\* exactly when they are all zero.
LEMMA PruneProjectEffect ==
    ASSUME ProjectsOK, NEW p \in Projects, NEW n \in CountsRec,
           projects' = PruneProject(p, n)
    PROVE  /\ ProjectsOK'
           /\ Counts(p)' = n
           /\ \A q \in Projects \ {p} : Counts(q)' = Counts(q)
           /\ \A q \in DOMAIN projects' : 
                \/ q = p /\ projects'[q] = n /\ n # NoCounts
                \/ q # p /\ q \in DOMAIN projects /\ projects'[q] = projects[q]
<1>1. CASE n = NoCounts
  <2>1. projects' = [q \in DOMAIN projects \ {p} |-> projects[q]]
    BY <1>1 DEF PruneProject
  <2> QED BY <1>1, <2>1 DEF ProjectsOK, Counts
<1>2. CASE n # NoCounts
  <2>1. projects' = PutCounts(p, n)
    BY <1>2 DEF PruneProject
  <2> QED BY <1>2, <2>1, PutCountsEffect DEF ProjectsOK
<1> QED BY <1>1, <1>2

\* What VecDeque::remove leaves in a queue without duplicates.
LEMMA RemoveAtEffect ==
    ASSUME queued \in Seq(Calls), NEW i \in 1..Len(queued), queued' = RemoveAt(i),
           \A a, b \in 1..Len(queued) : queued[a] = queued[b] => a = b
    PROVE  /\ queued' \in Seq(Calls)
           /\ \A a, b \in 1..Len(queued') : queued'[a] = queued'[b] => a = b
           /\ Queued' = Queued \ {queued[i]}
<1>1. /\ Len(queued) \in Nat /\ Len(queued) - 1 \in Nat
      /\ \A a \in 1..Len(queued) : queued[a] \in Calls
  OBVIOUS
<1>2. /\ queued' \in [1..(Len(queued) - 1) -> Calls]
      /\ \A a \in 1..(Len(queued) - 1) :
            queued'[a] = IF a < i THEN queued[a] ELSE queued[a + 1]
  BY <1>1 DEF RemoveAt
<1>3. queued' \in Seq(Calls) /\ Len(queued') = Len(queued) - 1
  BY <1>1, <1>2
<1>4. \A a, b \in 1..Len(queued') : queued'[a] = queued'[b] => a = b
  BY <1>1, <1>2, <1>3
<1>5. ASSUME NEW x \in Queued' PROVE x \in Queued \ {queued[i]}
  BY <1>1, <1>2, <1>3, <1>5 DEF Queued
<1>6. ASSUME NEW x \in Queued \ {queued[i]} PROVE x \in Queued'
  <2>1. PICK a \in 1..Len(queued) : queued[a] = x /\ a # i
    BY <1>6 DEF Queued
  <2>2. CASE a < i
    BY <1>1, <1>2, <1>3, <2>1, <2>2 DEF Queued
  <2>3. CASE a > i
    <3>1. a - 1 \in 1..Len(queued') /\ queued'[a - 1] = x
      BY <1>1, <1>2, <1>3, <2>1, <2>3
    <3> QED BY <3>1 DEF Queued
  <2> QED BY <1>1, <2>1, <2>2, <2>3
<1> QED BY <1>3, <1>4, <1>5, <1>6

\* push_back of a call that is not queued.
LEMMA AppendEffect ==
    ASSUME queued \in Seq(Calls), NEW c \in Calls, c \notin Queued,
           queued' = Append(queued, c),
           \A a, b \in 1..Len(queued) : queued[a] = queued[b] => a = b
    PROVE  /\ queued' \in Seq(Calls)
           /\ \A a, b \in 1..Len(queued') : queued'[a] = queued'[b] => a = b
           /\ Queued' = Queued \cup {c}
<1>1. /\ queued' \in Seq(Calls)
      /\ Len(queued) \in Nat
      /\ Len(queued') = Len(queued) + 1
      /\ queued'[Len(queued) + 1] = c
      /\ \A a \in 1..Len(queued) : queued'[a] = queued[a]
  OBVIOUS
<1>2. \A a, b \in 1..Len(queued') : queued'[a] = queued'[b] => a = b
  BY <1>1 DEF Queued
<1>3. Queued' = Queued \cup {c}
  BY <1>1 DEF Queued
<1> QED BY <1>1, <1>2, <1>3
-----------------------------------------------------------------------------
\* Everything the coordinator counts is finite.
LEMMA FiniteSets_ ==
    ASSUME TypeOK
    PROVE  /\ Queued \in SUBSET Calls
           /\ \A S \in SUBSET Calls : IsFiniteSet(S) /\ Cardinality(S) \in Nat
           /\ \A S \in SUBSET Controls : IsFiniteSet(S) /\ Cardinality(S) \in Nat
<1>1. Queued \in SUBSET Calls
  BY DEF TypeOK, Queued
<1>2. \A S \in SUBSET Calls : IsFiniteSet(S) /\ Cardinality(S) \in Nat
  BY LimitsAssumption, FS_Subset, FS_CardinalityType
<1>3. \A S \in SUBSET Controls : IsFiniteSet(S) /\ Cardinality(S) \in Nat
  BY LimitsAssumption, FS_Subset, FS_CardinalityType
<1> QED BY <1>1, <1>2, <1>3

\* Putting one call into a set of calls, or taking one out, changes the count
\* of its own project and lane by one and no other count.
LEMMA InProjectAdd ==
    ASSUME NEW S \in SUBSET Calls, NEW c \in Calls, c \notin S,
           \A T \in SUBSET Calls : IsFiniteSet(T) /\ Cardinality(T) \in Nat,
           NEW p, NEW l
    PROVE  Cardinality(InProject(S \cup {c}, p, l)) =
             IF work[c].project = p /\ work[c].class = l
             THEN Cardinality(InProject(S, p, l)) + 1
             ELSE Cardinality(InProject(S, p, l))
<1>1. IsFiniteSet(InProject(S, p, l)) /\ c \notin InProject(S, p, l)
  BY DEF InProject
<1>2. CASE work[c].project = p /\ work[c].class = l
  <2>1. InProject(S \cup {c}, p, l) = InProject(S, p, l) \cup {c}
    BY <1>2 DEF InProject
  <2>2. Cardinality(InProject(S, p, l) \cup {c}) = Cardinality(InProject(S, p, l)) + 1
    BY <1>1, FS_AddElement
  <2> QED BY <1>2, <2>1, <2>2
<1>3. CASE ~(work[c].project = p /\ work[c].class = l)
  <2>1. InProject(S \cup {c}, p, l) = InProject(S, p, l)
    BY <1>3 DEF InProject
  <2> QED BY <1>3, <2>1
<1> QED BY <1>2, <1>3

\* Taking a call out of a set of calls lowers its project's count by one.
LEMMA InProjectRemove ==
    ASSUME NEW S \in SUBSET Calls, NEW c \in S,
           \A T \in SUBSET Calls : IsFiniteSet(T) /\ Cardinality(T) \in Nat,
           NEW p, NEW l
    PROVE  Cardinality(InProject(S \ {c}, p, l)) =
             IF work[c].project = p /\ work[c].class = l
             THEN Cardinality(InProject(S, p, l)) - 1
             ELSE Cardinality(InProject(S, p, l))
<1>1. IsFiniteSet(InProject(S, p, l))
  BY DEF InProject
<1>2. CASE work[c].project = p /\ work[c].class = l
  <2>1. InProject(S \ {c}, p, l) = InProject(S, p, l) \ {c} /\ c \in InProject(S, p, l)
    BY <1>2 DEF InProject
  <2>2. Cardinality(InProject(S, p, l) \ {c}) = Cardinality(InProject(S, p, l)) - 1
    BY <1>1, <2>1, FS_RemoveElement
  <2> QED BY <1>2, <2>1, <2>2
<1>3. CASE ~(work[c].project = p /\ work[c].class = l)
  <2>1. InProject(S \ {c}, p, l) = InProject(S, p, l)
    BY <1>3 DEF InProject
  <2> QED BY <1>3, <2>1
<1> QED BY <1>2, <1>3

\* A call in a set of calls is counted at least once.
LEMMA InProjectPositive ==
    ASSUME NEW S \in SUBSET Calls, NEW c \in S,
           \A T \in SUBSET Calls : IsFiniteSet(T) /\ Cardinality(T) \in Nat
    PROVE  Cardinality(InProject(S, work[c].project, work[c].class)) >= 1
<1>1. /\ IsFiniteSet(InProject(S, work[c].project, work[c].class))
      /\ Cardinality(InProject(S, work[c].project, work[c].class)) \in Nat
      /\ c \in InProject(S, work[c].project, work[c].class)
  BY DEF InProject
<1> QED BY <1>1, FS_EmptySet

\* The same for a whole lane.
LEMMA InLaneAdd ==
    ASSUME NEW S \in SUBSET Calls, NEW c \in Calls, c \notin S,
           \A T \in SUBSET Calls : IsFiniteSet(T) /\ Cardinality(T) \in Nat,
           NEW l
    PROVE  Cardinality(InLane(S \cup {c}, l)) =
             IF work[c].class = l THEN Cardinality(InLane(S, l)) + 1
                                  ELSE Cardinality(InLane(S, l))
<1>1. IsFiniteSet(InLane(S, l)) /\ c \notin InLane(S, l)
  BY DEF InLane
<1>2. CASE work[c].class = l
  <2>1. InLane(S \cup {c}, l) = InLane(S, l) \cup {c}
    BY <1>2 DEF InLane
  <2>2. Cardinality(InLane(S, l) \cup {c}) = Cardinality(InLane(S, l)) + 1
    BY <1>1, FS_AddElement
  <2> QED BY <1>2, <2>1, <2>2
<1>3. CASE work[c].class # l
  <2>1. InLane(S \cup {c}, l) = InLane(S, l)
    BY <1>3 DEF InLane
  <2> QED BY <1>3, <2>1
<1> QED BY <1>2, <1>3

\* A lane counts no more calls in a smaller set.
LEMMA InLaneSubset ==
    ASSUME NEW S \in SUBSET Calls, NEW T \in SUBSET S, NEW l,
           \A U \in SUBSET Calls : IsFiniteSet(U) /\ Cardinality(U) \in Nat
    PROVE  Cardinality(InLane(T, l)) <= Cardinality(InLane(S, l))
<1>1. IsFiniteSet(InLane(S, l)) /\ InLane(T, l) \in SUBSET InLane(S, l)
  BY DEF InLane
<1> QED BY <1>1, FS_Subset

\* A step that moves no lease, entry or counter keeps the accounting; it may
\* change what the idle calls work on.
LEMMA Frame ==
    ASSUME UNCHANGED stateVars, AccountingExact, LimitsRespected,
           \A c \in Queued \cup running : work'[c] = work[c]
    PROVE  AccountingExact' /\ LimitsRespected'
<1>1. Queued' = Queued
  BY DEF stateVars, Queued
<1>2. ASSUME NEW S \in SUBSET (Queued \cup running), NEW p, NEW l
      PROVE  InProject(S, p, l)' = InProject(S, p, l) /\ InLane(S, l)' = InLane(S, l)
  BY <1>2 DEF InProject, InLane
<1>3. /\ \A p, l : InProject(Queued, p, l)' = InProject(Queued, p, l)
      /\ \A p, l : InProject(running, p, l)' = InProject(running, p, l)
      /\ \A l : InLane(Queued, l)' = InLane(Queued, l)
      /\ \A l : InLane(running, l)' = InLane(running, l)
  BY <1>1 DEF InProject, InLane, stateVars
<1>4. \A p : Counts(p)' = Counts(p)
  BY DEF Counts, stateVars
<1>5. AccountingExact'
  BY <1>3, <1>4 DEF AccountingExact, stateVars
<1>6. LimitsRespected'
  BY <1>3 DEF LimitsRespected, stateVars
<1> QED BY <1>5, <1>6
-----------------------------------------------------------------------------
\* acquire_execution's push_back: one more queued call, counted once.
LEMMA EnqueueStep ==
    ASSUME IInv, NEW c \in Calls, Enqueue(c)
    PROVE  IInv'
<1>1. PICK p \in Projects, l \in Classes : p = work[c].project /\ l = work[c].class
  BY DEF IInv, TypeOK, Enqueue, Work
<1>2. c \notin Queued /\ c \notin running
  BY DEF IInv, OwnershipInv, Enqueue
<1>3. ProjectsOK /\ Counts(p) \in CountsRec
  BY CountsType DEF IInv, TypeOK, ProjectsOK
<1>4. PICK n : n = [Counts(p) EXCEPT !.queued[l] = @ + 1]
  OBVIOUS
<1>5. /\ n \in CountsRec
      /\ n.requests = Counts(p).requests
      /\ n.running = Counts(p).running
      /\ n.queued = [Counts(p).queued EXCEPT ![l] = @ + 1]
      /\ n # NoCounts
  BY <1>3, <1>4 DEF CountsRec, NoCounts
<1>6. projects' = PutCounts(p, n)
  BY <1>1, <1>4 DEF Enqueue
<1>7. /\ ProjectsOK'
      /\ Counts(p)' = n
      /\ \A q \in Projects \ {p} : Counts(q)' = Counts(q)
      /\ DOMAIN projects' = DOMAIN projects \cup {p}
      /\ projects'[p] = n
      /\ \A q \in DOMAIN projects \ {p} : projects'[q] = projects[q]
  BY <1>3, <1>5, <1>6, PutCountsEffect
<1>8. /\ queued' \in Seq(Calls)
      /\ \A a, b \in 1..Len(queued') : queued'[a] = queued'[b] => a = b
      /\ Queued' = Queued \cup {c}
  BY <1>2, AppendEffect DEF IInv, TypeOK, OwnershipInv, Enqueue
<1>9. TypeOK'
  BY <1>7, <1>8 DEF IInv, TypeOK, ProjectsOK, Enqueue, Goto, PcValues, Acquiring, ctlVars,
                    Ctl!CtlTypeOK
<1>10. OwnershipInv'
  BY <1>2, <1>8 DEF IInv, TypeOK, OwnershipInv, Enqueue, Goto
<1>11. /\ Queued \in SUBSET Calls
       /\ \A S \in SUBSET Calls : IsFiniteSet(S) /\ Cardinality(S) \in Nat
  BY FiniteSets_ DEF IInv
<1>12. ASSUME NEW q, NEW m
       PROVE  /\ Cardinality(InProject(Queued, q, m))' =
                   IF p = q /\ l = m THEN Cardinality(InProject(Queued, q, m)) + 1
                                     ELSE Cardinality(InProject(Queued, q, m))
              /\ InProject(running, q, m)' = InProject(running, q, m)
              /\ Cardinality(InLane(Queued, m))' =
                   IF l = m THEN Cardinality(InLane(Queued, m)) + 1
                            ELSE Cardinality(InLane(Queued, m))
              /\ InLane(running, m)' = InLane(running, m)
  <2>1. work' = work /\ running' = running
    BY DEF Enqueue
  <2>2. /\ InProject(Queued, q, m)' = InProject(Queued \cup {c}, q, m)
        /\ InLane(Queued, m)' = InLane(Queued \cup {c}, m)
        /\ InProject(running, q, m)' = InProject(running, q, m)
        /\ InLane(running, m)' = InLane(running, m)
    BY <1>8, <2>1 DEF InProject, InLane
  <2> QED BY <1>1, <1>2, <1>11, <2>2, InProjectAdd, InLaneAdd
<1>13. AccountingExact'
  <2>1. UNCHANGED <<requests, attached>>
    BY DEF Enqueue
  <2>2. ASSUME NEW q \in Projects
        PROVE  /\ Counts(q)'.requests = Counts(q).requests
               /\ \A m \in Classes :
                    /\ Counts(q)'.running[m] = Counts(q).running[m]
                    /\ Counts(q)'.queued[m] =
                         IF p = q /\ l = m THEN Counts(q).queued[m] + 1
                                           ELSE Counts(q).queued[m]
               /\ q \in DOMAIN projects' => projects'[q] # NoCounts
    <3>1. CASE q = p
      BY <1>3, <1>5, <1>7, <3>1 DEF CountsRec
    <3>2. CASE q # p
      BY <1>7, <3>2 DEF IInv, AccountingExact
    <3> QED BY <3>1, <3>2
  <2> QED BY <1>12, <2>1, <2>2 DEF IInv, AccountingExact
<1>14. LimitsRespected'
  <2>1. Cardinality(InProject(Queued, p, l)) + 1 <= Lane[l].queuedPerProject
    <3>1. Cardinality(InProject(Queued, p, l)) \in Nat
      BY <1>11 DEF InProject
    <3>2. ~(Counts(p).queued[l] >= Lane[l].queuedPerProject)
      BY <1>1 DEF Enqueue, QueueFull
    <3>3. Counts(p).queued[l] = Cardinality(InProject(Queued, p, l))
      BY DEF IInv, AccountingExact
    <3> QED BY <3>1, <3>2, <3>3, LimitsAssumption
  <2>2. Cardinality(InLane(Queued, l)) + 1 <= Lane[l].queued
    <3>1. InLane(Queued, l) \in SUBSET Calls
      BY <1>11 DEF InLane
    <3> QED BY <1>1, <1>11, <3>1, LimitsAssumption DEF Enqueue, QueueFull
  <2>3. UNCHANGED <<requests, attached>>
    BY DEF Enqueue
  <2> QED BY <1>12, <2>1, <2>2, <2>3 DEF IInv, LimitsRespected
<1> QED BY <1>9, <1>10, <1>13, <1>14 DEF IInv

\* An admission moves one entry from the queue to the running executions, in
\* its project's counters as in the sets, and only while both bounds allow it.
LEMMA AdmitStep ==
    ASSUME IInv, NEW c \in Calls, Admit(c)
    PROVE  IInv'
<1>1. PICK p \in Projects, l \in Classes : p = work[c].project /\ l = work[c].class
  BY DEF IInv, TypeOK, Admit, Work
<1>2. c \in Queued /\ c \notin running
  BY DEF IInv, OwnershipInv, Admit
<1>3. ProjectsOK /\ Counts(p) \in CountsRec
  BY CountsType DEF IInv, TypeOK, ProjectsOK
<1>4. /\ Queued \in SUBSET Calls /\ running \in SUBSET Calls
      /\ \A S \in SUBSET Calls : IsFiniteSet(S) /\ Cardinality(S) \in Nat
  BY FiniteSets_ DEF IInv, TypeOK
<1>5. /\ Counts(p).queued[l] = Cardinality(InProject(Queued, p, l))
      /\ Counts(p).running[l] = Cardinality(InProject(running, p, l))
      /\ Counts(p).queued[l] >= 1
  <2>1. Cardinality(InProject(Queued, p, l)) >= 1
    BY <1>1, <1>2, <1>4, InProjectPositive
  <2> QED BY <2>1 DEF IInv, AccountingExact
<1>6. PICK n : n = [Counts(p) EXCEPT !.queued[l] = @ - 1, !.running[l] = @ + 1]
  OBVIOUS
<1>7. /\ n \in CountsRec
      /\ n.requests = Counts(p).requests
      /\ n.queued = [Counts(p).queued EXCEPT ![l] = @ - 1]
      /\ n.running = [Counts(p).running EXCEPT ![l] = @ + 1]
      /\ n # NoCounts
  <2>1. /\ n.requests = Counts(p).requests
        /\ n.queued = [Counts(p).queued EXCEPT ![l] = @ - 1]
        /\ n.running = [Counts(p).running EXCEPT ![l] = @ + 1]
        /\ n = [requests |-> n.requests, queued |-> n.queued, running |-> n.running]
    BY <1>3, <1>6 DEF CountsRec
  <2>2. /\ n.requests \in Nat
        /\ n.queued \in [Classes -> Nat]
        /\ n.running \in [Classes -> Nat]
        /\ n.running[l] # 0
    BY <1>3, <1>5, <2>1 DEF CountsRec
  <2>3. n \in CountsRec
    BY <2>1, <2>2 DEF CountsRec
  <2>4. n # NoCounts
    BY <2>2 DEF NoCounts
  <2> QED BY <2>1, <2>3, <2>4
<1>8. projects' = PutCounts(p, n)
  BY <1>1, <1>6 DEF Admit
<1>9. /\ ProjectsOK'
      /\ Counts(p)' = n
      /\ \A q \in Projects \ {p} : Counts(q)' = Counts(q)
      /\ DOMAIN projects' = DOMAIN projects \cup {p}
      /\ projects'[p] = n
      /\ \A q \in DOMAIN projects \ {p} : projects'[q] = projects[q]
  BY <1>3, <1>7, <1>8, PutCountsEffect
<1>10. /\ queued' \in Seq(Calls)
       /\ \A a, b \in 1..Len(queued') : queued'[a] = queued'[b] => a = b
       /\ Queued' = Queued \ {c}
  BY RemoveAtEffect DEF IInv, TypeOK, OwnershipInv, Admit
<1>11. /\ work' = work /\ running' = running \cup {c}
       /\ UNCHANGED <<requests, attached>>
  BY DEF Admit
<1>12. TypeOK'
  BY <1>1, <1>4, <1>9, <1>10, <1>11
  DEF IInv, TypeOK, ProjectsOK, Admit, Goto, NotifyWaiters, PcValues, Acquiring, Phases,
      ctlVars, Ctl!CtlTypeOK
<1>13. OwnershipInv'
  BY <1>2, <1>10, <1>11 DEF IInv, TypeOK, OwnershipInv, Admit, Goto
<1>14. ASSUME NEW q, NEW m
       PROVE  /\ Cardinality(InProject(Queued, q, m))' =
                   IF p = q /\ l = m THEN Cardinality(InProject(Queued, q, m)) - 1
                                     ELSE Cardinality(InProject(Queued, q, m))
              /\ Cardinality(InProject(running, q, m))' =
                   IF p = q /\ l = m THEN Cardinality(InProject(running, q, m)) + 1
                                     ELSE Cardinality(InProject(running, q, m))
              /\ Cardinality(InLane(Queued, m))' <= Cardinality(InLane(Queued, m))
              /\ Cardinality(InLane(running, m))' =
                   IF l = m THEN Cardinality(InLane(running, m)) + 1
                            ELSE Cardinality(InLane(running, m))
  <2>1. /\ InProject(Queued, q, m)' = InProject(Queued \ {c}, q, m)
        /\ InLane(Queued, m)' = InLane(Queued \ {c}, m)
        /\ InProject(running, q, m)' = InProject(running \cup {c}, q, m)
        /\ InLane(running, m)' = InLane(running \cup {c}, m)
    BY <1>10, <1>11 DEF InProject, InLane
  <2>2. Cardinality(InLane(Queued \ {c}, m)) <= Cardinality(InLane(Queued, m))
    BY <1>4, InLaneSubset
  <2>3. Cardinality(InProject(Queued \ {c}, q, m)) =
            IF p = q /\ l = m THEN Cardinality(InProject(Queued, q, m)) - 1
                              ELSE Cardinality(InProject(Queued, q, m))
    BY <1>1, <1>2, <1>4, InProjectRemove
  <2>4. Cardinality(InProject(running \cup {c}, q, m)) =
            IF p = q /\ l = m THEN Cardinality(InProject(running, q, m)) + 1
                              ELSE Cardinality(InProject(running, q, m))
    BY <1>1, <1>2, <1>4, InProjectAdd
  <2>5. Cardinality(InLane(running \cup {c}, m)) =
            IF l = m THEN Cardinality(InLane(running, m)) + 1
                     ELSE Cardinality(InLane(running, m))
    BY <1>1, <1>2, <1>4, InLaneAdd
  <2> QED BY <2>1, <2>2, <2>3, <2>4, <2>5
<1>15. AccountingExact'
  <2>1. ASSUME NEW q \in Projects
        PROVE  /\ Counts(q)'.requests = Counts(q).requests
               /\ \A m \in Classes :
                    /\ Counts(q)'.running[m] =
                         IF p = q /\ l = m THEN Counts(q).running[m] + 1
                                           ELSE Counts(q).running[m]
                    /\ Counts(q)'.queued[m] =
                         IF p = q /\ l = m THEN Counts(q).queued[m] - 1
                                           ELSE Counts(q).queued[m]
               /\ q \in DOMAIN projects' => projects'[q] # NoCounts
    <3>1. CASE q = p
      BY <1>3, <1>7, <1>9, <3>1 DEF CountsRec
    <3>2. CASE q # p
      BY <1>9, <3>2 DEF IInv, AccountingExact
    <3> QED BY <3>1, <3>2
  <2>2. ASSUME NEW q \in Projects, NEW m \in Classes
        PROVE  /\ Counts(q)'.queued[m] = Cardinality(InProject(Queued, q, m))'
               /\ Counts(q)'.running[m] = Cardinality(InProject(running, q, m))'
    <3>1. /\ Counts(q).queued[m] = Cardinality(InProject(Queued, q, m))
          /\ Counts(q).running[m] = Cardinality(InProject(running, q, m))
      BY DEF IInv, AccountingExact
    <3> QED BY <1>14, <2>1, <3>1
  <2>3. ASSUME NEW q \in Projects
        PROVE  Counts(q)'.requests = Cardinality({k \in requests' : attached'[k] = q})
    BY <1>11, <2>1 DEF IInv, AccountingExact
  <2> QED BY <2>1, <2>2, <2>3 DEF AccountingExact
<1>16. LimitsRespected'
  <2>1. /\ Cardinality(InLane(running, l)) < Lane[l].running
        /\ Counts(p).running[l] < Lane[l].runningPerProject
    BY <1>1 DEF Admit, Eligible, First, OtherProject, EligiblePositions, Fits
  <2>2. ASSUME NEW q, NEW m
        PROVE  /\ Cardinality(InLane(running, m)) \in Nat
               /\ Cardinality(InLane(Queued, m)) \in Nat
               /\ Cardinality(InLane(Queued, m))' \in Nat
               /\ Cardinality(InProject(running, q, m)) \in Nat
               /\ Cardinality(InProject(Queued, q, m)) \in Nat
    <3>1. /\ InLane(running, m) \in SUBSET Calls
          /\ InLane(Queued, m) \in SUBSET Calls
          /\ InLane(Queued, m)' \in SUBSET Calls
          /\ InProject(running, q, m) \in SUBSET Calls
          /\ InProject(Queued, q, m) \in SUBSET Calls
      BY <1>4, <1>10 DEF InLane, InProject
    <3> QED BY <1>4, <3>1
  <2>3. ASSUME NEW m \in Classes
        PROVE  /\ Cardinality(InLane(running, m))' <= Lane[m].running
               /\ Cardinality(InLane(Queued, m))' <= Lane[m].queued
    BY <1>14, <2>1, <2>2, LimitsAssumption DEF IInv, LimitsRespected
  <2>4. ASSUME NEW q \in Projects, NEW m \in Classes
        PROVE  /\ Cardinality(InProject(running, q, m))' <= Lane[m].runningPerProject
               /\ Cardinality(InProject(Queued, q, m))' <= Lane[m].queuedPerProject
    <3>1. /\ Cardinality(InProject(running, q, m)) <= Lane[m].runningPerProject
          /\ Cardinality(InProject(Queued, q, m)) <= Lane[m].queuedPerProject
      BY DEF IInv, LimitsRespected
    <3>2. Lane[m].runningPerProject \in Nat /\ Lane[m].queuedPerProject \in Nat
      BY LimitsAssumption
    <3>3. CASE p = q /\ l = m
      BY <1>5, <1>14, <2>1, <2>2, <3>1, <3>2, <3>3
    <3>4. CASE ~(p = q /\ l = m)
      BY <1>14, <3>1, <3>4
    <3> QED BY <3>3, <3>4
  <2> QED BY <1>11, <2>3, <2>4 DEF IInv, LimitsRespected
<1> QED BY <1>12, <1>13, <1>15, <1>16 DEF IInv

\* Drop for PendingLease gives back exactly what its Enqueue took, and
\* nothing when the entry was admitted in between.
LEMMA DropPendingStep ==
    ASSUME IInv, NEW c \in Calls, DropPending(c)
    PROVE  IInv'
<1>1. CASE c \notin Queued
  <2>1. UNCHANGED stateVars /\ work' = work
    BY <1>1 DEF DropPending, stateVars
  <2>2. AccountingExact' /\ LimitsRespected'
    BY <2>1, Frame DEF IInv
  <2>3. Queued' = Queued
    BY <2>1 DEF stateVars, Queued
  <2>4. TypeOK'
    BY <2>1 DEF IInv, TypeOK, stateVars, DropPending, Goto, NotifyWaiters, PcValues,
                Acquiring, ctlVars, Ctl!CtlTypeOK
  <2>5. OwnershipInv'
    BY <1>1, <2>1, <2>3 DEF IInv, TypeOK, OwnershipInv, stateVars, DropPending, Goto
  <2> QED BY <2>2, <2>4, <2>5 DEF IInv
<1>2. CASE c \in Queued
  <2>1. PICK p \in Projects, l \in Classes : p = work[c].project /\ l = work[c].class
    BY DEF IInv, TypeOK, DropPending, Work
  <2>2. ProjectsOK /\ Counts(p) \in CountsRec
    BY CountsType DEF IInv, TypeOK, ProjectsOK
  <2>3. /\ Queued \in SUBSET Calls /\ running \in SUBSET Calls
        /\ \A S \in SUBSET Calls : IsFiniteSet(S) /\ Cardinality(S) \in Nat
    BY FiniteSets_ DEF IInv, TypeOK
  <2>4. Counts(p).queued[l] >= 1
    <3>1. Cardinality(InProject(Queued, p, l)) >= 1
      BY <1>2, <2>1, <2>3, InProjectPositive
    <3> QED BY <3>1 DEF IInv, AccountingExact
  <2>5. PICK n : n = [Counts(p) EXCEPT !.queued[l] = @ - 1]
    OBVIOUS
  <2>6. /\ n \in CountsRec
        /\ n.requests = Counts(p).requests
        /\ n.queued = [Counts(p).queued EXCEPT ![l] = @ - 1]
        /\ n.running = Counts(p).running
    BY <2>2, <2>4, <2>5 DEF CountsRec
  <2>7. projects' = PruneProject(p, n)
    BY <1>2, <2>1, <2>5 DEF DropPending
  <2>8. /\ ProjectsOK'
        /\ Counts(p)' = n
        /\ \A q \in Projects \ {p} : Counts(q)' = Counts(q)
        /\ \A q \in DOMAIN projects' :
             \/ q = p /\ projects'[q] = n /\ n # NoCounts
             \/ q # p /\ q \in DOMAIN projects /\ projects'[q] = projects[q]
    BY <2>2, <2>6, <2>7, PruneProjectEffect
  <2>9. /\ queued' \in Seq(Calls)
        /\ \A a, b \in 1..Len(queued') : queued'[a] = queued'[b] => a = b
        /\ Queued' = Queued \ {c}
    BY <1>2, RemoveAtEffect DEF IInv, TypeOK, OwnershipInv, DropPending
  <2>10. work' = work /\ running' = running /\ UNCHANGED <<requests, attached>>
    BY DEF DropPending
  <2>11. TypeOK'
    BY <2>8, <2>9, <2>10
    DEF IInv, TypeOK, ProjectsOK, DropPending, Goto, NotifyWaiters, PcValues, Acquiring,
        ctlVars, Ctl!CtlTypeOK
  <2>12. OwnershipInv'
    BY <1>2, <2>9, <2>10 DEF IInv, TypeOK, OwnershipInv, DropPending, Goto
  <2>13. ASSUME NEW q, NEW m
         PROVE  /\ Cardinality(InProject(Queued, q, m))' =
                     IF p = q /\ l = m THEN Cardinality(InProject(Queued, q, m)) - 1
                                       ELSE Cardinality(InProject(Queued, q, m))
                /\ InProject(running, q, m)' = InProject(running, q, m)
                /\ Cardinality(InLane(Queued, m))' <= Cardinality(InLane(Queued, m))
                /\ InLane(running, m)' = InLane(running, m)
    <3>1. /\ InProject(Queued, q, m)' = InProject(Queued \ {c}, q, m)
          /\ InLane(Queued, m)' = InLane(Queued \ {c}, m)
          /\ InProject(running, q, m)' = InProject(running, q, m)
          /\ InLane(running, m)' = InLane(running, m)
      BY <2>9, <2>10 DEF InProject, InLane
    <3>2. Cardinality(InLane(Queued \ {c}, m)) <= Cardinality(InLane(Queued, m))
      BY <2>3, InLaneSubset
    <3> QED BY <1>2, <2>1, <2>3, <3>1, <3>2, InProjectRemove
  <2>14. AccountingExact'
    <3>1. ASSUME NEW q \in Projects
          PROVE  /\ Counts(q)'.requests = Counts(q).requests
                 /\ \A m \in Classes :
                      /\ Counts(q)'.running[m] = Counts(q).running[m]
                      /\ Counts(q)'.queued[m] =
                           IF p = q /\ l = m THEN Counts(q).queued[m] - 1
                                             ELSE Counts(q).queued[m]
                 /\ q \in DOMAIN projects' => projects'[q] # NoCounts
      <4>1. CASE q = p
        BY <2>2, <2>6, <2>8, <4>1 DEF CountsRec
      <4>2. CASE q # p
        BY <2>8, <4>2 DEF IInv, AccountingExact
      <4> QED BY <4>1, <4>2
    <3> QED BY <2>10, <2>13, <3>1 DEF IInv, AccountingExact
  <2>15. LimitsRespected'
    <3>1. ASSUME NEW q, NEW m
          PROVE  /\ Cardinality(InLane(Queued, m)) \in Nat
                 /\ Cardinality(InLane(Queued, m))' \in Nat
                 /\ Cardinality(InProject(Queued, q, m)) \in Nat
      <4>1. /\ InLane(Queued, m) \in SUBSET Calls
            /\ InLane(Queued, m)' \in SUBSET Calls
            /\ InProject(Queued, q, m) \in SUBSET Calls
        BY <2>3, <2>9 DEF InLane, InProject
      <4> QED BY <2>3, <4>1
    <3>2. ASSUME NEW m \in Classes
          PROVE  Cardinality(InLane(Queued, m))' <= Lane[m].queued
      BY <2>13, <3>1, LimitsAssumption DEF IInv, LimitsRespected
    <3>3. ASSUME NEW q \in Projects, NEW m \in Classes
          PROVE  Cardinality(InProject(Queued, q, m))' <= Lane[m].queuedPerProject
      <4>1. /\ Cardinality(InProject(Queued, q, m)) <= Lane[m].queuedPerProject
            /\ Lane[m].queuedPerProject \in Nat
        BY LimitsAssumption DEF IInv, LimitsRespected
      <4> QED BY <2>13, <3>1, <4>1
    <3> QED BY <2>10, <2>13, <3>2, <3>3 DEF IInv, LimitsRespected
  <2> QED BY <2>11, <2>12, <2>14, <2>15 DEF IInv
<1> QED BY <1>1, <1>2

\* Drop for ExecutionLease gives back the slot its admission took.
LEMMA ReleaseStep ==
    ASSUME IInv, NEW c \in Calls, Release(c)
    PROVE  IInv'
<1>1. PICK p \in Projects, l \in Classes : p = work[c].project /\ l = work[c].class
  BY DEF IInv, TypeOK, Release, Work
<1>2. c \in running /\ c \notin Queued
  BY DEF IInv, OwnershipInv, Release
<1>3. ProjectsOK /\ Counts(p) \in CountsRec
  BY CountsType DEF IInv, TypeOK, ProjectsOK
<1>4. /\ Queued \in SUBSET Calls /\ running \in SUBSET Calls
      /\ \A S \in SUBSET Calls : IsFiniteSet(S) /\ Cardinality(S) \in Nat
  BY FiniteSets_ DEF IInv, TypeOK
<1>5. Counts(p).running[l] >= 1
  <2>1. Cardinality(InProject(running, p, l)) >= 1
    BY <1>1, <1>2, <1>4, InProjectPositive
  <2> QED BY <2>1 DEF IInv, AccountingExact
<1>6. PICK n : n = [Counts(p) EXCEPT !.running[l] = @ - 1]
  OBVIOUS
<1>7. /\ n \in CountsRec
      /\ n.requests = Counts(p).requests
      /\ n.queued = Counts(p).queued
      /\ n.running = [Counts(p).running EXCEPT ![l] = @ - 1]
  BY <1>3, <1>5, <1>6 DEF CountsRec
<1>8. projects' = PruneProject(p, n)
  BY <1>1, <1>6 DEF Release
<1>9. /\ ProjectsOK'
      /\ Counts(p)' = n
      /\ \A q \in Projects \ {p} : Counts(q)' = Counts(q)
      /\ \A q \in DOMAIN projects' :
           \/ q = p /\ projects'[q] = n /\ n # NoCounts
           \/ q # p /\ q \in DOMAIN projects /\ projects'[q] = projects[q]
  BY <1>3, <1>7, <1>8, PruneProjectEffect
<1>10. /\ running' = running \ {c} /\ UNCHANGED <<requests, attached, queued>>
       /\ Queued' = Queued
       /\ work' = [work EXCEPT ![c] = NoWork]
  BY DEF Release, EndCall, Queued
<1>11. TypeOK'
  BY <1>4, <1>9, <1>10
  DEF IInv, TypeOK, ProjectsOK, Release, EndCall, Goto, NotifyWaiters, PcValues, Acquiring,
      Phases, ctlVars, Ctl!CtlTypeOK
<1>12. OwnershipInv'
  BY <1>2, <1>10 DEF IInv, TypeOK, OwnershipInv, Release, EndCall, Goto
<1>13. ASSUME NEW q, NEW m
       PROVE  /\ Cardinality(InProject(running, q, m))' =
                   IF p = q /\ l = m THEN Cardinality(InProject(running, q, m)) - 1
                                     ELSE Cardinality(InProject(running, q, m))
              /\ InProject(Queued, q, m)' = InProject(Queued, q, m)
              /\ Cardinality(InLane(running, m))' <= Cardinality(InLane(running, m))
              /\ InLane(Queued, m)' = InLane(Queued, m)
  <2>1. \A d \in (running \ {c}) \cup Queued : work'[d] = work[d]
    BY <1>2, <1>4, <1>10 DEF IInv, TypeOK
  <2>2. /\ InProject(Queued, q, m)' = InProject(Queued, q, m)
        /\ InLane(Queued, m)' = InLane(Queued, m)
        /\ InProject(running, q, m)' = InProject(running \ {c}, q, m)
        /\ InLane(running, m)' = InLane(running \ {c}, m)
    BY <1>10, <2>1 DEF InProject, InLane
  <2>3. Cardinality(InLane(running \ {c}, m)) <= Cardinality(InLane(running, m))
    BY <1>4, InLaneSubset
  <2>4. Cardinality(InProject(running \ {c}, q, m)) =
            IF p = q /\ l = m THEN Cardinality(InProject(running, q, m)) - 1
                              ELSE Cardinality(InProject(running, q, m))
    BY <1>1, <1>2, <1>4, InProjectRemove
  <2> QED BY <2>2, <2>3, <2>4
<1>14. AccountingExact'
  <2>1. ASSUME NEW q \in Projects
        PROVE  /\ Counts(q)'.requests = Counts(q).requests
               /\ \A m \in Classes :
                    /\ Counts(q)'.queued[m] = Counts(q).queued[m]
                    /\ Counts(q)'.running[m] =
                         IF p = q /\ l = m THEN Counts(q).running[m] - 1
                                           ELSE Counts(q).running[m]
               /\ q \in DOMAIN projects' => projects'[q] # NoCounts
    <3>1. CASE q = p
      BY <1>3, <1>7, <1>9, <3>1 DEF CountsRec
    <3>2. CASE q # p
      BY <1>9, <3>2 DEF IInv, AccountingExact
    <3> QED BY <3>1, <3>2
  <2>2. ASSUME NEW q \in Projects, NEW m \in Classes
        PROVE  /\ Counts(q)'.queued[m] = Cardinality(InProject(Queued, q, m))'
               /\ Counts(q)'.running[m] = Cardinality(InProject(running, q, m))'
    <3>1. /\ Counts(q).queued[m] = Cardinality(InProject(Queued, q, m))
          /\ Counts(q).running[m] = Cardinality(InProject(running, q, m))
      BY DEF IInv, AccountingExact
    <3> QED BY <1>13, <2>1, <3>1
  <2>3. ASSUME NEW q \in Projects
        PROVE  Counts(q)'.requests = Cardinality({k \in requests' : attached'[k] = q})
    BY <1>10, <2>1 DEF IInv, AccountingExact
  <2> QED BY <2>1, <2>2, <2>3 DEF AccountingExact
<1>15. LimitsRespected'
  <2>1. ASSUME NEW q, NEW m
        PROVE  /\ Cardinality(InLane(running, m)) \in Nat
               /\ Cardinality(InLane(running, m))' \in Nat
               /\ Cardinality(InProject(running, q, m)) \in Nat
    <3>1. /\ InLane(running, m) \in SUBSET Calls
          /\ InLane(running, m)' \in SUBSET Calls
          /\ InProject(running, q, m) \in SUBSET Calls
      BY <1>4, <1>10 DEF InLane, InProject
    <3> QED BY <1>4, <3>1
  <2>2. ASSUME NEW m \in Classes
        PROVE  Cardinality(InLane(running, m))' <= Lane[m].running
    BY <1>13, <2>1, LimitsAssumption DEF IInv, LimitsRespected
  <2>3. ASSUME NEW q \in Projects, NEW m \in Classes
        PROVE  Cardinality(InProject(running, q, m))' <= Lane[m].runningPerProject
    <3>1. /\ Cardinality(InProject(running, q, m)) <= Lane[m].runningPerProject
          /\ Lane[m].runningPerProject \in Nat
      BY LimitsAssumption DEF IInv, LimitsRespected
    <3> QED BY <1>13, <2>1, <3>1
  <2> QED BY <1>10, <1>13, <2>2, <2>3 DEF IInv, LimitsRespected
<1> QED BY <1>11, <1>12, <1>14, <1>15 DEF IInv

\* The requests of one project.
Attached(p) == {k \in requests : attached[k] = p}

\* A step that moves only requests keeps what is counted about calls.
LEMMA CallsFrame ==
    ASSUME UNCHANGED <<queued, running, work>>
    PROVE  /\ Queued' = Queued
           /\ \A q, m : /\ InProject(Queued, q, m)' = InProject(Queued, q, m)
                        /\ InProject(running, q, m)' = InProject(running, q, m)
           /\ \A m : /\ InLane(Queued, m)' = InLane(Queued, m)
                     /\ InLane(running, m)' = InLane(running, m)
<1>1. Queued' = Queued
  BY DEF Queued
<1> QED BY <1>1 DEF InProject, InLane

\* try_request opens a request that belongs to no project yet.
LEMMA TryRequestStep ==
    ASSUME IInv, NEW k \in Controls, TryRequest(k)
    PROVE  IInv'
<1>1. /\ requests' = requests \cup {k} /\ k \notin requests
      /\ UNCHANGED <<attached, projects, queued, running, work, pc>>
  BY DEF TryRequest, callVars
<1>2. attached[k] = NoProject
  BY <1>1 DEF IInv, OwnershipInv
<1>3. \A p \in Projects : Attached(p)' = Attached(p)
  BY <1>1, <1>2, LimitsAssumption DEF Attached
<1>4. \A p : Counts(p)' = Counts(p)
  BY <1>1 DEF Counts
<1>5. TypeOK'
  BY DEF IInv, TypeOK, TryRequest, callVars, ctlVars, Ctl!CtlTypeOK
<1>6. OwnershipInv'
  <2>1. Queued' = Queued
    BY <1>1 DEF Queued
  <2> QED BY <1>1, <2>1 DEF IInv, OwnershipInv
<1>7. AccountingExact'
  BY <1>1, <1>3, <1>4, CallsFrame DEF IInv, AccountingExact, Attached
<1>8. LimitsRespected'
  <2>1. IsFiniteSet(requests) /\ Cardinality(requests) \in Nat
    BY FiniteSets_ DEF IInv, TypeOK
  <2>2. Cardinality(requests') = Cardinality(requests) + 1
    BY <1>1, <2>1, FS_AddElement
  <2>3. Cardinality(requests') <= RequestLimit
    BY <2>1, <2>2, LimitsAssumption DEF IInv, LimitsRespected, TryRequest
  <2> QED BY <1>1, <1>3, <2>3, CallsFrame DEF IInv, LimitsRespected, Attached
<1> QED BY <1>5, <1>6, <1>7, <1>8 DEF IInv

\* attach_project counts the request once, within the project's bound.
LEMMA AttachProjectStep ==
    ASSUME IInv, NEW k \in Controls, NEW p \in Projects, AttachProject(k, p)
    PROVE  IInv'
<1>1. /\ k \in requests /\ attached[k] = NoProject
      /\ attached' = [attached EXCEPT ![k] = p]
      /\ UNCHANGED <<requests, queued, running, work, pc>>
  BY DEF AttachProject, callVars
<1>2. ProjectsOK /\ Counts(p) \in CountsRec
  BY CountsType DEF IInv, TypeOK, ProjectsOK
<1>3. PICK n : n = [Counts(p) EXCEPT !.requests = @ + 1]
  OBVIOUS
<1>4. /\ n \in CountsRec
      /\ n.requests = Counts(p).requests + 1
      /\ n.queued = Counts(p).queued
      /\ n.running = Counts(p).running
      /\ n # NoCounts
  BY <1>2, <1>3 DEF CountsRec, NoCounts
<1>5. projects' = PutCounts(p, n)
  BY <1>3 DEF AttachProject
<1>6. /\ ProjectsOK'
      /\ Counts(p)' = n
      /\ \A q \in Projects \ {p} : Counts(q)' = Counts(q)
      /\ DOMAIN projects' = DOMAIN projects \cup {p}
      /\ projects'[p] = n
      /\ \A q \in DOMAIN projects \ {p} : projects'[q] = projects[q]
  BY <1>2, <1>4, <1>5, PutCountsEffect
<1>7. /\ Attached(p)' = Attached(p) \cup {k} /\ k \notin Attached(p)
      /\ \A q \in Projects \ {p} : Attached(q)' = Attached(q)
  BY <1>1, LimitsAssumption DEF IInv, TypeOK, Attached
<1>8. /\ Cardinality(Attached(p)) \in Nat
      /\ Cardinality(Attached(p)') = Cardinality(Attached(p)) + 1
  <2>1. Attached(p) \in SUBSET Controls
    BY DEF IInv, TypeOK, Attached
  <2>2. IsFiniteSet(Attached(p)) /\ Cardinality(Attached(p)) \in Nat
    BY <2>1, FiniteSets_ DEF IInv
  <2> QED BY <1>7, <2>2, FS_AddElement
<1>9. TypeOK'
  BY <1>1, <1>6 DEF IInv, TypeOK, ProjectsOK, AttachProject, callVars, ctlVars, Ctl!CtlTypeOK
<1>10. OwnershipInv'
  <2>1. Queued' = Queued
    BY <1>1 DEF Queued
  <2> QED BY <1>1, <2>1 DEF IInv, TypeOK, OwnershipInv
<1>11. \A q \in Projects : /\ Counts(q).requests = Cardinality(Attached(q))
                           /\ Cardinality(Attached(q)) <= RequestsPerProject
  BY DEF IInv, AccountingExact, LimitsRespected, Attached
<1>12. AccountingExact'
  <2>1. ASSUME NEW q \in Projects
        PROVE  /\ Counts(q)'.requests = Cardinality(Attached(q)')
               /\ Counts(q)'.queued = Counts(q).queued
               /\ Counts(q)'.running = Counts(q).running
               /\ q \in DOMAIN projects' => projects'[q] # NoCounts
    <3>1. CASE q = p
      BY <1>4, <1>6, <1>7, <1>8, <1>11, <3>1
    <3>2. CASE q # p
      BY <1>6, <1>7, <1>11, <3>2 DEF IInv, AccountingExact
    <3> QED BY <3>1, <3>2
  <2>2. ASSUME NEW q \in Projects, NEW m \in Classes
        PROVE  /\ Counts(q)'.queued[m] = Cardinality(InProject(Queued, q, m))'
               /\ Counts(q)'.running[m] = Cardinality(InProject(running, q, m))'
    <3>1. /\ Counts(q).queued[m] = Cardinality(InProject(Queued, q, m))
          /\ Counts(q).running[m] = Cardinality(InProject(running, q, m))
      BY DEF IInv, AccountingExact
    <3> QED BY <1>1, <2>1, <3>1, CallsFrame
  <2> QED BY <2>1, <2>2 DEF AccountingExact, Attached
<1>13. LimitsRespected'
  <2>1. Cardinality(Attached(p)) < RequestsPerProject
    BY <1>11 DEF AttachProject
  <2>2. \A q \in Projects : Cardinality(Attached(q)') <= RequestsPerProject
    <3>1. Cardinality(Attached(p)') <= RequestsPerProject
      BY <1>8, <2>1, LimitsAssumption
    <3>2. \A q \in Projects \ {p} : Cardinality(Attached(q)') <= RequestsPerProject
      BY <1>7, <1>11
    <3> QED BY <3>1, <3>2
  <2> QED BY <1>1, <2>2, CallsFrame DEF IInv, LimitsRespected, Attached
<1> QED BY <1>9, <1>10, <1>12, <1>13 DEF IInv

\* Drop for RequestLease gives back the request and, if it was attached, its
\* place in the project.
LEMMA DropRequestStep ==
    ASSUME IInv, NEW k \in Controls, DropRequest(k)
    PROVE  IInv'
<1>1. /\ k \in requests
      /\ requests' = requests \ {k}
      /\ attached' = [attached EXCEPT ![k] = NoProject]
      /\ UNCHANGED <<queued, running, work, pc>>
  BY DEF DropRequest, callVars
<1>2. /\ Queued' = Queued
      /\ IsFiniteSet(requests) /\ Cardinality(requests) \in Nat
      /\ Cardinality(requests') <= Cardinality(requests)
      /\ Cardinality(requests') \in Nat
  <2>1. IsFiniteSet(requests) /\ Cardinality(requests) \in Nat
    BY FiniteSets_ DEF IInv, TypeOK
  <2> QED BY <1>1, <2>1, FS_Subset, FS_CardinalityType DEF Queued
<1>3. OwnershipInv'
  BY <1>1, <1>2 DEF IInv, TypeOK, OwnershipInv
<1>4. Cardinality(requests') <= RequestLimit
  BY <1>2, LimitsAssumption DEF IInv, LimitsRespected
<1>5. \A q \in Projects : /\ Counts(q).requests = Cardinality(Attached(q))
                          /\ Cardinality(Attached(q)) <= RequestsPerProject
  BY DEF IInv, AccountingExact, LimitsRespected, Attached
<1>6. ASSUME ProjectsOK',
             \A q \in Projects :
               /\ Counts(q)'.requests = Cardinality(Attached(q)')
               /\ Cardinality(Attached(q)') <= RequestsPerProject
               /\ Counts(q)'.queued = Counts(q).queued
               /\ Counts(q)'.running = Counts(q).running
               /\ q \in DOMAIN projects' => projects'[q] # NoCounts
      PROVE  IInv'
  <2>1. TypeOK'
    BY <1>1, <1>6 DEF IInv, TypeOK, ProjectsOK, DropRequest, callVars, ctlVars, Ctl!CtlTypeOK
  <2>2. ASSUME NEW q \in Projects, NEW m \in Classes
        PROVE  /\ Counts(q)'.queued[m] = Cardinality(InProject(Queued, q, m))'
               /\ Counts(q)'.running[m] = Cardinality(InProject(running, q, m))'
    <3>1. /\ Counts(q).queued[m] = Cardinality(InProject(Queued, q, m))
          /\ Counts(q).running[m] = Cardinality(InProject(running, q, m))
      BY DEF IInv, AccountingExact
    <3> QED BY <1>1, <1>6, <3>1, CallsFrame
  <2>3. AccountingExact'
    BY <1>6, <2>2 DEF AccountingExact, Attached
  <2>4. LimitsRespected'
    <3>1. /\ \A q, m : /\ InProject(Queued, q, m)' = InProject(Queued, q, m)
                        /\ InProject(running, q, m)' = InProject(running, q, m)
          /\ \A m : /\ InLane(Queued, m)' = InLane(Queued, m)
                     /\ InLane(running, m)' = InLane(running, m)
      BY <1>1, CallsFrame
    <3>2. \A q \in Projects :
            Cardinality({j \in requests' : attached'[j] = q}) <= RequestsPerProject
      BY <1>6 DEF Attached
    <3>3. \A m \in Classes :
            /\ Cardinality(InLane(running, m))' <= Lane[m].running
            /\ Cardinality(InLane(Queued, m))' <= Lane[m].queued
      BY <3>1 DEF IInv, LimitsRespected
    <3>4. \A q \in Projects, m \in Classes :
            /\ Cardinality(InProject(running, q, m))' <= Lane[m].runningPerProject
            /\ Cardinality(InProject(Queued, q, m))' <= Lane[m].queuedPerProject
      BY <3>1 DEF IInv, LimitsRespected
    <3> QED BY <1>4, <3>2, <3>3, <3>4 DEF LimitsRespected
  <2> QED BY <1>3, <2>1, <2>3, <2>4 DEF IInv
<1>7. CASE attached[k] = NoProject
  <2>1. projects' = projects
    BY <1>7 DEF DropRequest
  <2>2. \A q : Counts(q)' = Counts(q)
    BY <2>1 DEF Counts
  <2>3. \A q \in Projects : Attached(q)' = Attached(q)
    BY <1>1, <1>7, LimitsAssumption DEF IInv, TypeOK, Attached
  <2>4. ProjectsOK'
    BY <2>1 DEF IInv, TypeOK, ProjectsOK
  <2>5. ASSUME NEW q \in Projects
        PROVE  /\ Counts(q)'.requests = Cardinality(Attached(q)')
               /\ Cardinality(Attached(q)') <= RequestsPerProject
               /\ Counts(q)'.queued = Counts(q).queued
               /\ Counts(q)'.running = Counts(q).running
               /\ q \in DOMAIN projects' => projects'[q] # NoCounts
    BY <1>5, <2>1, <2>2, <2>3 DEF IInv, AccountingExact
  <2> QED BY <1>6, <2>4, <2>5
<1>8. CASE attached[k] # NoProject
  <2>1. PICK p \in Projects : p = attached[k]
    BY <1>8 DEF IInv, TypeOK
  <2>2. ProjectsOK /\ Counts(p) \in CountsRec
    BY CountsType DEF IInv, TypeOK, ProjectsOK
  <2>3. /\ Attached(p)' = Attached(p) \ {k} /\ k \in Attached(p)
        /\ \A q \in Projects \ {p} : Attached(q)' = Attached(q)
    BY <1>1, <2>1, LimitsAssumption DEF IInv, TypeOK, Attached
  <2>4. /\ Cardinality(Attached(p)) \in Nat
        /\ Cardinality(Attached(p)) >= 1
        /\ Cardinality(Attached(p)') = Cardinality(Attached(p)) - 1
    <3>1. Attached(p) \in SUBSET Controls
      BY DEF IInv, TypeOK, Attached
    <3>2. IsFiniteSet(Attached(p)) /\ Cardinality(Attached(p)) \in Nat
      BY <3>1, FiniteSets_ DEF IInv
    <3> QED BY <2>3, <3>2, FS_RemoveElement, FS_EmptySet
  <2>5. PICK n : n = [Counts(p) EXCEPT !.requests = @ - 1]
    OBVIOUS
  <2>6. /\ n \in CountsRec
        /\ n.requests = Counts(p).requests - 1
        /\ n.queued = Counts(p).queued
        /\ n.running = Counts(p).running
    BY <1>5, <2>2, <2>4, <2>5 DEF CountsRec
  <2>7. projects' = PruneProject(p, n)
    BY <1>8, <2>1, <2>5 DEF DropRequest
  <2>8. /\ ProjectsOK'
        /\ Counts(p)' = n
        /\ \A q \in Projects \ {p} : Counts(q)' = Counts(q)
        /\ \A q \in DOMAIN projects' :
             \/ q = p /\ projects'[q] = n /\ n # NoCounts
             \/ q # p /\ q \in DOMAIN projects /\ projects'[q] = projects[q]
    BY <2>2, <2>6, <2>7, PruneProjectEffect
  <2>9. ASSUME NEW q \in Projects
        PROVE  /\ Counts(q)'.requests = Cardinality(Attached(q)')
               /\ Cardinality(Attached(q)') <= RequestsPerProject
               /\ Counts(q)'.queued = Counts(q).queued
               /\ Counts(q)'.running = Counts(q).running
               /\ q \in DOMAIN projects' => projects'[q] # NoCounts
    <3>1. CASE q = p
      <4>1. /\ n.requests = Cardinality(Attached(p)')
            /\ Cardinality(Attached(p)') <= RequestsPerProject
        BY <1>5, <2>4, <2>6, LimitsAssumption
      <4> QED BY <2>6, <2>8, <3>1, <4>1
    <3>2. CASE q # p
      BY <1>5, <2>3, <2>8, <3>2 DEF IInv, AccountingExact
    <3> QED BY <3>1, <3>2
  <2> QED BY <1>6, <2>8, <2>9
<1> QED BY <1>7, <1>8

\* The steps of a call that move no entry and no lease.
LEMMA QuietCallStep ==
    ASSUME IInv, NEW c \in Calls, UNCHANGED stateVars,
           \A d \in Calls \ {c} : pc'[d] = pc[d] /\ work'[d] = work[d],
           work'[c] = work[c] \/ c \notin Queued \cup running,
           TypeOK',
           \/ pc'[c] = pc[c]
           \/ pc[c] = "idle" /\ pc'[c] = "register"
           \/ pc[c] = "register" /\ pc'[c] = "enqueue"
           \/ pc[c] = "enqueue" /\ pc'[c] = "unregister"
           \/ pc[c] \in {"arm", "check", "look", "wait"} /\
              pc'[c] \in {"arm", "check", "look", "wait", "drop"}
           \/ pc[c] = "unregister" /\
              pc'[c] = IF c \in running THEN "hold" ELSE "idle"
    PROVE  IInv'
<1>1. Queued' = Queued
  BY DEF stateVars, Queued
<1>2. Queued \in SUBSET Calls /\ running \in SUBSET Calls
  BY FiniteSets_ DEF IInv, TypeOK
<1>3. \A d \in Queued \cup running : work'[d] = work[d]
  BY <1>2
<1>4. AccountingExact' /\ LimitsRespected'
  BY <1>3, Frame DEF IInv
<1>5. ASSUME NEW d \in Calls
      PROVE  /\ pc'[d] \in {"arm", "check", "look", "wait"} => d \in Queued
             /\ d \in Queued => pc'[d] \in {"arm", "check", "look", "wait", "drop"}
             /\ d \in running => pc'[d] \in {"drop", "unregister", "hold"}
             /\ pc'[d] = "hold" => d \in running
             /\ d \notin Queued \cap running
  <2>1. CASE d # c
    BY <2>1 DEF IInv, OwnershipInv
  <2>2. CASE d = c
    BY <2>2 DEF IInv, OwnershipInv
  <2> QED BY <2>1, <2>2
<1>6. OwnershipInv'
  BY <1>1, <1>5 DEF IInv, OwnershipInv, stateVars
<1> QED BY <1>4, <1>6 DEF IInv

\* Every other step leaves the coordinator's counters, entries and leases as
\* they are.
LEMMA OtherStep ==
    ASSUME IInv, [Next]_vars,
           ~ \E c \in Calls : Enqueue(c) \/ Admit(c) \/ DropPending(c) \/ Release(c),
           ~ \E k \in Controls : TryRequest(k) \/ DropRequest(k),
           ~ \E k \in Controls, p \in Projects : AttachProject(k, p)
    PROVE  IInv'
<1> USE DEF ctlVars, stateVars, callVars
<1>1. CASE UNCHANGED vars
  <2>1. TypeOK' /\ Queued' = Queued
    BY <1>1 DEF IInv, TypeOK, vars, Ctl!CtlTypeOK, Queued
  <2>2. AccountingExact' /\ LimitsRespected'
    BY <1>1, Frame DEF IInv, vars
  <2>3. OwnershipInv'
    BY <1>1, <2>1 DEF IInv, OwnershipInv, vars
  <2> QED BY <2>1, <2>2, <2>3 DEF IInv
<1>2. ASSUME UNCHANGED <<stateVars, pc, work>>, TypeOK' PROVE IInv'
  <2>1. Queued' = Queued
    BY <1>2 DEF Queued
  <2>2. AccountingExact' /\ LimitsRespected'
    BY <1>2, Frame DEF IInv
  <2>3. OwnershipInv'
    BY <1>2, <2>1 DEF IInv, OwnershipInv
  <2> QED BY <1>2, <2>2, <2>3 DEF IInv
<1>3. ASSUME NEW k \in Controls, Renew(k) PROVE IInv'
  BY <1>2, <1>3, LimitsAssumption DEF IInv, TypeOK, Renew, Ctl!NewControl, Ctl!CtlTypeOK, Ctl!Stages
<1>4. ASSUME NEW k \in Controls, NEW r \in Reasons, CancelControl(k, r) PROVE IInv'
  BY <1>2, <1>4 DEF IInv, TypeOK, CancelControl, Ctl!Cancel, Ctl!CtlTypeOK, Ctl!Stages
<1>5. ASSUME NEW k \in Controls, CancelStep(k) PROVE IInv'
  BY <1>2, <1>5 DEF IInv, TypeOK, CancelStep, Ctl!CancelProgress, Ctl!CloneCallbacks,
                    Ctl!CancelReturns, Ctl!CtlTypeOK, Ctl!Stages
<1>6. ASSUME NEW k \in Controls, CloseCancel(k) PROVE IInv'
  <2>1. "Shutdown" \in Reasons
    BY LimitsAssumption
  <2>2. Ctl!CtlTypeOK'
    <3>1. CASE reason[k] = NoReason
      BY <1>6, <2>1, <3>1 DEF IInv, TypeOK, CloseCancel, Ctl!Cancel, Ctl!CtlTypeOK, Ctl!Stages
    <3>2. CASE reason[k] # NoReason
      BY <1>6, <3>2 DEF IInv, TypeOK, CloseCancel, Ctl!CtlTypeOK
    <3> QED BY <3>1, <3>2
  <2>3. TypeOK'
    BY <1>6, <2>2 DEF IInv, TypeOK, CloseCancel
  <2> QED BY <1>2, <1>6, <2>3 DEF CloseCancel
<1>7. ASSUME NEW k \in Controls, NEW c \in Calls, CancelCallback(k, c) PROVE IInv'
  BY <1>2, <1>7 DEF IInv, TypeOK, CancelCallback, StopPending, NotifyWaiters, Phases,
                    Ctl!RunCallback, Ctl!CtlTypeOK, Ctl!Stages
<1>8. ASSUME Close PROVE IInv'
  <2>1. toCancel' \in SUBSET Controls
    <3>1. Queued \cup running \in SUBSET Calls
      BY FiniteSets_ DEF IInv, TypeOK
    <3>2. \A c \in Queued \cup running : work[c] \in Work
      BY <3>1 DEF IInv, TypeOK, OwnershipInv
    <3> QED BY <1>8, <3>2 DEF IInv, TypeOK, Close, LiveControls, Work
  <2> QED BY <1>2, <1>8, <2>1 DEF IInv, TypeOK, Close, Ctl!CtlTypeOK
<1>9. ASSUME CloseNotify PROVE IInv'
  BY <1>2, <1>9 DEF IInv, TypeOK, CloseNotify, NotifyWaiters, Ctl!CtlTypeOK
<1>10. ASSUME NEW c \in Calls, NEW k \in Controls, NEW p \in Projects, NEW l \in Classes,
              Start(c, k, p, l)
       PROVE  IInv'
  <2>1. TypeOK'
    BY <1>10 DEF IInv, TypeOK, Start, Goto, Work, Phases, PcValues, Acquiring, Ctl!CtlTypeOK
  <2>2. c \notin Queued \cup running
    BY <1>10 DEF IInv, OwnershipInv, Start
  <2> QED BY <1>10, <2>1, <2>2, QuietCallStep DEF IInv, TypeOK, Start, Goto
<1>11. ASSUME NEW c \in Calls, Register(c) PROVE IInv'
  <2>1. TypeOK'
    BY <1>11 DEF IInv, TypeOK, Register, StopPending, NotifyWaiters, Goto, Phases, PcValues,
                 Acquiring, Ctl!OnCancel, Ctl!CtlTypeOK
  <2> QED BY <1>11, <2>1, QuietCallStep DEF IInv, TypeOK, Register, Goto
<1>12. ASSUME NEW c \in Calls, RejectEnqueue(c) PROVE IInv'
  <2>1. TypeOK'
    BY <1>12 DEF IInv, TypeOK, RejectEnqueue, Goto, PcValues, Acquiring, Ctl!CtlTypeOK
  <2> QED BY <1>12, <2>1, QuietCallStep DEF IInv, TypeOK, RejectEnqueue, Goto
<1>13. ASSUME NEW c \in Calls,
              \/ Arm(c) \/ CheckControl(c) \/ LookClosed(c) \/ LoseExchange(c)
              \/ Sleep(c) \/ Wake(c) \/ Abort(c)
       PROVE  IInv'
  <2>1. TypeOK'
    BY <1>13 DEF IInv, TypeOK, Arm, CheckControl, LookClosed, LoseExchange, Sleep, Wake,
                 Abort, Goto, PcValues, Acquiring, Ctl!CtlTypeOK
  <2> QED BY <1>13, <2>1, QuietCallStep
          DEF IInv, TypeOK, Arm, CheckControl, LookClosed, LoseExchange, Sleep, Wake, Abort, Goto
<1>14. ASSUME NEW c \in Calls, Unregister(c) PROVE IInv'
  <2>1. TypeOK'
    BY <1>14 DEF IInv, TypeOK, Unregister, EndCall, Goto, Phases, PcValues, Acquiring,
                 Ctl!DropRegistration, Ctl!CtlTypeOK
  <2>2. c \notin Queued
    BY <1>14 DEF IInv, OwnershipInv, Unregister
  <2> QED BY <1>14, <2>1, <2>2, QuietCallStep DEF IInv, TypeOK, Unregister, EndCall, Goto
<1> QED BY <1>1, <1>3, <1>4, <1>5, <1>6, <1>7, <1>8, <1>9, <1>10, <1>11, <1>12, <1>13, <1>14
        DEF Next, CallStep

\* The invariant holds initially.
LEMMA InitIInv == Init => IInv
<1> SUFFICES ASSUME Init PROVE IInv
  OBVIOUS
<1>1. Queued = {} /\ running = {} /\ requests = {}
  BY DEF Init, Queued
<1>2. TypeOK
  BY DEF Init, TypeOK, Ctl!CtlInit, Ctl!CtlTypeOK, Ctl!Stages, PcValues, Acquiring, Phases,
         CountsRec, NoCounts
<1>3. OwnershipInv
  BY <1>1 DEF Init, OwnershipInv
<1>4. /\ \A p, l : InProject(Queued, p, l) = {} /\ InProject(running, p, l) = {}
      /\ \A l : InLane(Queued, l) = {} /\ InLane(running, l) = {}
      /\ \A p : {k \in requests : attached[k] = p} = {}
  BY <1>1 DEF InProject, InLane
<1>5. \A p : Counts(p) = NoCounts
  BY DEF Init, Counts
<1>6. AccountingExact
  BY <1>4, <1>5, FS_EmptySet DEF Init, AccountingExact, NoCounts
<1>7. LimitsRespected
  <2>1. /\ RequestLimit \in Nat /\ RequestsPerProject \in Nat
        /\ \A l \in Classes : /\ Lane[l].running \in Nat /\ Lane[l].runningPerProject \in Nat
                              /\ Lane[l].queued \in Nat /\ Lane[l].queuedPerProject \in Nat
    BY LimitsAssumption
  <2>2. \A n \in Nat : 0 <= n
    OBVIOUS
  <2> QED BY <1>1, <1>4, <2>1, <2>2, FS_EmptySet DEF LimitsRespected
<1> QED BY <1>2, <1>3, <1>6, <1>7 DEF IInv

\* Every step keeps the invariant.
LEMMA NextIInv == IInv /\ [Next]_vars => IInv'
<1> SUFFICES ASSUME IInv, [Next]_vars PROVE IInv'
  OBVIOUS
<1>1. CASE \E c \in Calls : Enqueue(c) \/ Admit(c) \/ DropPending(c) \/ Release(c)
  BY <1>1, EnqueueStep, AdmitStep, DropPendingStep, ReleaseStep
<1>2. CASE \E k \in Controls : TryRequest(k) \/ DropRequest(k)
  BY <1>2, TryRequestStep, DropRequestStep
<1>3. CASE \E k \in Controls, p \in Projects : AttachProject(k, p)
  BY <1>3, AttachProjectStep
<1> QED BY <1>1, <1>2, <1>3, OtherStep

\* The inductive invariant of the coordinator's accounting holds throughout:
\* every lease and entry is counted once, in the record of its project.
THEOREM Inductive == Spec => []IInv
BY InitIInv, NextIInv, PTL DEF Spec

\* Type correctness: in particular no counter is ever decremented below zero,
\* which in the code would panic or wrap a usize.
THEOREM TypeCorrect == Spec => []TypeOK
<1>1. IInv => TypeOK
  BY DEF IInv
<1> QED BY <1>1, Inductive, PTL

\* The per-project counters are exactly the leases and entries that exist,
\* whatever interleaving of requests, admissions, cancellations, aborted
\* futures and shutdown has happened (AccountingExact).
THEOREM Accounting == Spec => []AccountingExact
<1>1. IInv => AccountingExact
  BY DEF IInv
<1> QED BY <1>1, Inductive, PTL

\* No bound of WorkLimits is ever exceeded (LimitsRespected).
THEOREM Limits == Spec => []LimitsRespected
<1>1. IInv => LimitsRespected
  BY DEF IInv
<1> QED BY <1>1, Inductive, PTL
-----------------------------------------------------------------------------
(***************************************************************************)
(* Cancellation                                                            *)
(***************************************************************************)

\* Every step keeps a pending call in its canceller's path, and the callbacks
\* with the calls that registered them.
LEMMA NextCancelInv ==
    ASSUME IInv, CancelInv, NoLeakedCallback, [Next]_vars
    PROVE  CancelInv' /\ NoLeakedCallback'
<1> USE DEF CancelInv, NoLeakedCallback, ctlVars, stateVars, callVars, Acquiring
<1>1. TypeOK
  BY DEF IInv
<1>2. CASE UNCHANGED vars
  BY <1>2 DEF vars
<1>3. ASSUME UNCHANGED <<ctlVars, pc, work, phase>>
      PROVE  CancelInv' /\ NoLeakedCallback'
  BY <1>3
<1>4. ASSUME NEW k \in Controls,
             TryRequest(k) \/ DropRequest(k) \/ \E p \in Projects : AttachProject(k, p)
      PROVE  CancelInv' /\ NoLeakedCallback'
  BY <1>3, <1>4 DEF TryRequest, DropRequest, AttachProject
<1>5. ASSUME Close \/ CloseNotify PROVE CancelInv' /\ NoLeakedCallback'
  BY <1>3, <1>5 DEF Close, CloseNotify
<1>6. ASSUME NEW k \in Controls, Renew(k) PROVE CancelInv' /\ NoLeakedCallback'
  BY <1>1, <1>6 DEF TypeOK, Renew, Ctl!NewControl, Ctl!CtlTypeOK
<1>7. ASSUME NEW k \in Controls, NEW r \in Reasons, Ctl!Cancel(k, r),
             UNCHANGED <<pc, work, phase>>
      PROVE  CancelInv' /\ NoLeakedCallback'
  <2>1. r # NoReason
    BY LimitsAssumption
  <2> QED BY <1>1, <1>7, <2>1 DEF TypeOK, Ctl!Cancel, Ctl!CtlTypeOK
<1>8. ASSUME NEW k \in Controls, CancelStep(k) PROVE CancelInv' /\ NoLeakedCallback'
  <2>1. CASE Ctl!CloneCallbacks(k)
    BY <1>1, <1>8, <2>1 DEF TypeOK, CancelStep, Ctl!CloneCallbacks, Ctl!CtlTypeOK
  <2>2. CASE Ctl!CancelReturns(k)
    BY <1>1, <1>8, <2>2 DEF TypeOK, CancelStep, Ctl!CancelReturns, Ctl!CtlTypeOK
  <2> QED BY <1>8, <2>1, <2>2 DEF CancelStep, Ctl!CancelProgress
<1>9. ASSUME NEW k \in Controls, NEW c \in Calls, CancelCallback(k, c)
      PROVE  CancelInv' /\ NoLeakedCallback'
  BY <1>1, <1>9 DEF TypeOK, CancelCallback, StopPending, Phases, Ctl!RunCallback,
                    Ctl!CtlTypeOK
<1>10. ASSUME NEW k \in Controls, CloseCancel(k) PROVE CancelInv' /\ NoLeakedCallback'
  <2>1. "Shutdown" \in Reasons
    BY LimitsAssumption
  <2>2. CASE reason[k] = NoReason
    BY <1>7, <1>10, <2>1, <2>2 DEF CloseCancel
  <2>3. CASE reason[k] # NoReason
    BY <1>3, <1>10, <2>3 DEF CloseCancel
  <2> QED BY <2>2, <2>3
<1>11. ASSUME NEW c \in Calls, NEW k \in Controls, NEW p \in Projects, NEW l \in Classes,
              Start(c, k, p, l)
       PROVE  CancelInv' /\ NoLeakedCallback'
  BY <1>1, <1>11 DEF TypeOK, Start, Goto, Ctl!CtlTypeOK
<1>12. ASSUME NEW c \in Calls, Register(c) PROVE CancelInv' /\ NoLeakedCallback'
  <2>1. PICK k \in Controls : k = work[c].control
    BY <1>1, <1>12 DEF TypeOK, Register, Work
  <2>2. CASE reason[k] = NoReason
    BY <1>1, <1>12, <2>1, <2>2
    DEF TypeOK, Register, Goto, Ctl!OnCancel, Ctl!LateRegistration, Ctl!CtlTypeOK
  <2>3. CASE reason[k] # NoReason
    BY <1>1, <1>12, <2>1, <2>3
    DEF TypeOK, Register, StopPending, Phases, Goto, Ctl!OnCancel, Ctl!LateRegistration,
        Ctl!CtlTypeOK
  <2> QED BY <2>2, <2>3
<1>13. ASSUME NEW c \in Calls,
              \/ RejectEnqueue(c) \/ Enqueue(c) \/ Arm(c) \/ CheckControl(c) \/ LookClosed(c)
              \/ LoseExchange(c) \/ Sleep(c) \/ Wake(c) \/ Abort(c) \/ DropPending(c)
       PROVE  CancelInv' /\ NoLeakedCallback'
  <2>1. /\ UNCHANGED <<ctlVars, work, phase>>
        /\ \E t \in Acquiring \ {"register"} : pc' = [pc EXCEPT ![c] = t]
        /\ pc[c] \in Acquiring \ {"register"}
    BY <1>13 DEF RejectEnqueue, Enqueue, Arm, CheckControl, LookClosed, LoseExchange, Sleep,
                 Wake, Abort, DropPending, Goto
  <2> QED BY <1>1, <2>1 DEF TypeOK, Ctl!CtlTypeOK
<1>14. ASSUME NEW c \in Calls, Admit(c) PROVE CancelInv' /\ NoLeakedCallback'
  BY <1>1, <1>14 DEF TypeOK, Admit, Goto, Ctl!CtlTypeOK
<1>15. ASSUME NEW c \in Calls, Unregister(c) PROVE CancelInv' /\ NoLeakedCallback'
  <2>1. PICK k \in Controls : k = work[c].control
    BY <1>1, <1>15 DEF TypeOK, Unregister, Work
  <2>2. /\ pc'[c] \in {"hold", "idle"}
        /\ \A d \in Calls \ {c} : /\ pc'[d] = pc[d] /\ work'[d] = work[d]
                                  /\ phase'[d] = phase[d]
        /\ callbacks' = [callbacks EXCEPT ![k] = @ \ {c}]
        /\ UNCHANGED <<reason, stage, snapshot>>
    BY <1>1, <1>15, <2>1 DEF TypeOK, Unregister, EndCall, Goto, Ctl!DropRegistration
  <2>3. CancelInv'
    BY <1>1, <2>1, <2>2 DEF TypeOK, Ctl!CtlTypeOK
  <2>4. NoLeakedCallback'
    BY <1>1, <2>1, <2>2 DEF TypeOK, Ctl!CtlTypeOK
  <2> QED BY <2>3, <2>4
<1>16. ASSUME NEW c \in Calls, Release(c) PROVE CancelInv' /\ NoLeakedCallback'
  <2>1. /\ pc[c] = "hold" /\ pc'[c] = "idle"
        /\ \A d \in Calls \ {c} : /\ pc'[d] = pc[d] /\ work'[d] = work[d]
                                  /\ phase'[d] = phase[d]
        /\ UNCHANGED ctlVars
    BY <1>1, <1>16 DEF TypeOK, Release, EndCall, Goto
  <2> QED BY <1>1, <2>1 DEF TypeOK, Ctl!CtlTypeOK
<1>17. ASSUME NEW k \in Controls, NEW r \in Reasons, CancelControl(k, r)
       PROVE  CancelInv' /\ NoLeakedCallback'
  BY <1>7, <1>17 DEF CancelControl
<1> HIDE DEF CancelInv, NoLeakedCallback, ctlVars, stateVars, callVars, Acquiring
<1> QED BY <1>2, <1>4, <1>5, <1>6, <1>8, <1>9, <1>10, <1>11, <1>12, <1>13, <1>14, <1>15,
           <1>16, <1>17
        DEF Next, CallStep

\* No control holds a callback before the first call.
LEMMA InitCancelInv == Init => CancelInv /\ NoLeakedCallback
BY DEF Init, Ctl!CtlInit, CancelInv, NoLeakedCallback, Acquiring

\* The callbacks a control holds are those of calls that are still inside
\* acquire_execution (NoLeakedCallback).
THEOREM CallbacksOwned == Spec => [](CancelInv /\ NoLeakedCallback)
BY InitCancelInv, NextCancelInv, Inductive, PTL DEF Spec

\* Once cancel() has returned, no execution is admitted for that control,
\* however its steps interleaved with the call's registration, queueing and
\* admission (CancelledNeverAdmitted).
THEOREM NoAdmissionAfterCancel == Spec => CancelledNeverAdmitted
<1>1. ASSUME IInv, CancelInv, [Next]_vars
      PROVE  [\A c \in Calls : c \in running' \ running => stage[work[c].control] # "done"]_vars
  <2> SUFFICES ASSUME NEW c \in Calls, c \in running', c \notin running
               PROVE  stage[work[c].control] # "done"
    BY DEF vars
  <2>1. Admit(c)
    BY <1>1 DEF Next, CallStep, vars, stateVars, TryRequest, DropRequest, Renew,
       AttachProject, Start, Register, RejectEnqueue, Enqueue, Arm, CheckControl, LookClosed,
       Admit, LoseExchange, Sleep, Wake, DropPending, Unregister, Abort, Release,
       CancelControl, CancelStep, CancelCallback, Close, CloseCancel, CloseNotify
  <2>2. phase[c] = "PENDING" /\ pc[c] = "look"
    BY <2>1 DEF Admit, Eligible, First, OtherProject, EligiblePositions, PendingCalls
  <2> QED BY <1>1, <2>2 DEF CancelInv, Acquiring
<1> QED BY <1>1, Inductive, CallbacksOwned, PTL DEF Spec, CancelledNeverAdmitted
-----------------------------------------------------------------------------
(***************************************************************************)
(* Shutdown                                                                *)
(***************************************************************************)

\* What a step may add to the live controls: only while the coordinator is
\* open, under the mutex that shutdown() takes to collect them.
LEMMA LiveControlsShrink ==
    ASSUME IInv, [Next]_vars, closed
    PROVE  LiveControls' \subseteq LiveControls
<1>1. /\ Queued \in SUBSET Calls /\ running \in SUBSET Calls
      /\ \A a, b \in 1..Len(queued) : queued[a] = queued[b] => a = b
      /\ queued \in Seq(Calls) /\ pc \in [Calls -> PcValues]
      /\ work \in [Calls -> Work \cup {NoWork}]
  BY FiniteSets_ DEF IInv, TypeOK, OwnershipInv
<1>2. ASSUME requests' \subseteq requests, Queued' \subseteq Queued, running' \subseteq running,
             \A c \in Queued' \cup running' : work'[c] = work[c]
      PROVE  LiveControls' \subseteq LiveControls
  BY <1>2 DEF LiveControls
<1>3. ASSUME UNCHANGED <<queued, running, work>>, requests' \subseteq requests
      PROVE  LiveControls' \subseteq LiveControls
  <2>1. Queued' = Queued
    BY <1>3 DEF Queued
  <2> QED BY <1>2, <1>3, <2>1
<1>4. CASE UNCHANGED vars
  BY <1>3, <1>4 DEF vars, stateVars, callVars
<1>5. ASSUME NEW k \in Controls,
             \/ TryRequest(k) \/ DropRequest(k) \/ \E p \in Projects : AttachProject(k, p)
             \/ Renew(k) \/ \E r \in Reasons : CancelControl(k, r)
             \/ CancelStep(k) \/ CloseCancel(k) \/ \E c \in Calls : CancelCallback(k, c)
      PROVE  LiveControls' \subseteq LiveControls
  <2>1. UNCHANGED <<queued, running, work>> /\ requests' \subseteq requests
    BY <1>5 DEF TryRequest, DropRequest, AttachProject, Renew, CancelControl,
       CancelStep, CloseCancel, CancelCallback, stateVars, callVars
  <2> QED BY <1>3, <2>1
<1>6. ASSUME Close \/ CloseNotify PROVE LiveControls' \subseteq LiveControls
  BY <1>3, <1>6 DEF Close, CloseNotify, stateVars, callVars
<1>7. ASSUME NEW c \in Calls, 
             \/ Register(c) \/ RejectEnqueue(c) \/ Enqueue(c) \/ Arm(c) \/ CheckControl(c)
             \/ LookClosed(c) \/ Admit(c) \/ LoseExchange(c) \/ Sleep(c) \/ Wake(c) \/ Abort(c)
      PROVE  LiveControls' \subseteq LiveControls
  <2>1. UNCHANGED <<queued, running, work, requests>>
    BY <1>7 DEF Register, RejectEnqueue, Enqueue, Arm, CheckControl, LookClosed, Admit,
       LoseExchange, Sleep, Wake, Abort, stateVars
  <2> QED BY <1>3, <2>1
<1>8. ASSUME NEW c \in Calls, NEW k \in Controls, NEW p \in Projects, NEW l \in Classes,
             Start(c, k, p, l)
      PROVE  LiveControls' \subseteq LiveControls
  <2>1. c \notin Queued \cup running
    BY <1>8 DEF IInv, OwnershipInv, Start
  <2>2. Queued' = Queued
    BY <1>8 DEF Start, stateVars, Queued
  <2> QED BY <1>1, <1>2, <1>8, <2>1, <2>2 DEF Start, stateVars
<1>9. ASSUME NEW c \in Calls, DropPending(c) PROVE LiveControls' \subseteq LiveControls
  <2>1. Queued' \subseteq Queued
    <3>1. CASE c \in Queued
      BY <1>1, <1>9, <3>1, RemoveAtEffect DEF DropPending
    <3>2. CASE c \notin Queued
      BY <1>9, <3>2 DEF DropPending, Queued
    <3> QED BY <3>1, <3>2
  <2> QED BY <1>2, <1>9, <2>1 DEF DropPending
<1>10. ASSUME NEW c \in Calls, Unregister(c) PROVE LiveControls' \subseteq LiveControls
  <2>1. c \notin Queued
    BY <1>10 DEF IInv, OwnershipInv, Unregister
  <2>2. Queued' = Queued
    BY <1>10 DEF Unregister, stateVars, Queued
  <2>3. UNCHANGED <<running, requests>>
    BY <1>10 DEF Unregister, stateVars
  <2>4. \A d \in Queued \cup running : work'[d] = work[d]
    BY <1>1, <1>10, <2>1 DEF Unregister, EndCall
  <2> QED BY <1>2, <2>2, <2>3, <2>4
<1>11. ASSUME NEW c \in Calls, Release(c) PROVE LiveControls' \subseteq LiveControls
  <2>1. c \notin Queued
    BY <1>11 DEF IInv, OwnershipInv, Release
  <2>2. Queued' = Queued /\ running' = running \ {c} /\ UNCHANGED requests
    BY <1>11 DEF Release, Queued
  <2>3. \A d \in Queued' \cup running' : work'[d] = work[d]
    BY <1>1, <1>11, <2>1, <2>2 DEF Release, EndCall
  <2> QED BY <1>2, <2>2, <2>3
<1> QED BY <1>4, <1>5, <1>6, <1>7, <1>8, <1>9, <1>10, <1>11 DEF Next, CallStep

\* A control that is live while shutdown() runs is one it has still to cancel,
\* or has cancelled.
LEMMA NextShutdownInv ==
    ASSUME IInv, CancelInv, ShutdownInv, [Next]_vars
    PROVE  ShutdownInv'
<1>1. CASE ~closed
  <2>1. CASE closed'
    <3>1. Close
      BY <1>1, <2>1 DEF closed, Next, CallStep, vars, TryRequest, DropRequest, Renew,
         AttachProject, Start, Register, RejectEnqueue, Enqueue, Arm, CheckControl,
         LookClosed, Admit, LoseExchange, Sleep, Wake, DropPending, Unregister, Abort,
         Release, CancelControl, CancelStep, CancelCallback, CloseCancel, CloseNotify
    <3>2. toCancel' = LiveControls' /\ shut' = "closing"
      BY <3>1 DEF Close, LiveControls, Queued, stateVars, callVars
    <3> QED BY <3>2 DEF ShutdownInv
  <2>2. CASE ~closed'
    BY <2>2 DEF ShutdownInv, closed
  <2> QED BY <2>1, <2>2
<1>2. CASE closed
  <2>1. LiveControls' \subseteq LiveControls
    BY <1>2, LiveControlsShrink
  <2>2. LiveControls \subseteq Controls
    <3>1. \A c \in Queued \cup running : c \in Calls /\ work[c] \in Work
      BY FiniteSets_ DEF IInv, TypeOK, OwnershipInv
    <3> QED BY <3>1 DEF IInv, TypeOK, LiveControls, Work
  <2>3. reason \in [Controls -> Reasons \cup {NoReason}] /\ toCancel \in SUBSET Controls
    BY DEF IInv, TypeOK, Ctl!CtlTypeOK
  <2>4. ASSUME \A k \in LiveControls : reason'[k] # NoReason \/ k \in toCancel',
               shut' = "done" => toCancel' = {}
        PROVE  ShutdownInv'
    BY <2>1, <2>4 DEF ShutdownInv
  <2>5. ASSUME UNCHANGED <<shut, toCancel>>, \A k \in Controls : reason[k] # NoReason => reason'[k] # NoReason
        PROVE  ShutdownInv'
    BY <1>2, <2>2, <2>4, <2>5 DEF ShutdownInv
  <2>6. CASE UNCHANGED vars
    BY <2>5, <2>6 DEF vars, ctlVars
  <2>7. ASSUME NEW k \in Controls, Renew(k) PROVE ShutdownInv'
    <3>1. k \notin LiveControls
      BY <2>7 DEF IInv, TypeOK, OwnershipInv, LiveControls, Renew, Queued
    <3>2. \A j \in Controls \ {k} : reason'[j] = reason[j]
      BY <2>3, <2>7 DEF Renew, Ctl!NewControl
    <3> QED BY <1>2, <2>2, <2>4, <2>7, <3>1, <3>2 DEF ShutdownInv, Renew
  <2>8. ASSUME NEW k \in Controls, NEW r \in Reasons, CancelControl(k, r) PROVE ShutdownInv'
    <3>1. r # NoReason
      BY LimitsAssumption
    <3> QED BY <2>3, <2>5, <2>8, <3>1 DEF CancelControl, Ctl!Cancel
  <2>9. ASSUME NEW k \in Controls, CancelStep(k) \/ \E c \in Calls : CancelCallback(k, c)
        PROVE  ShutdownInv'
    BY <2>5, <2>9 DEF CancelStep, CancelCallback, Ctl!CancelProgress, Ctl!CloneCallbacks,
       Ctl!CancelReturns, Ctl!RunCallback
  <2>10. ASSUME NEW k \in Controls, CloseCancel(k) PROVE ShutdownInv'
    <3>1. "Shutdown" # NoReason
      BY LimitsAssumption
    <3>2. reason'[k] # NoReason /\ \A j \in Controls \ {k} : reason'[j] = reason[j]
      BY <2>3, <2>10, <3>1 DEF CloseCancel, Ctl!Cancel, ctlVars
    <3>3. toCancel' = toCancel \ {k} /\ shut' = shut
      BY <2>10 DEF CloseCancel
    <3> QED BY <1>2, <2>2, <2>4, <3>2, <3>3 DEF ShutdownInv
  <2>11. ASSUME Close \/ CloseNotify PROVE ShutdownInv'
    BY <1>2, <2>4, <2>11 DEF ShutdownInv, Close, CloseNotify, closed, ctlVars
  <2>12. ASSUME NEW k \in Controls,
                TryRequest(k) \/ DropRequest(k) \/ \E p \in Projects : AttachProject(k, p)
         PROVE  ShutdownInv'
    BY <2>5, <2>12 DEF TryRequest, DropRequest, AttachProject, ctlVars
  <2>13. ASSUME NEW c \in Calls,
                \/ CallStep(c) \/ Abort(c) \/ Release(c)
                \/ \E k \in Controls, p \in Projects, l \in Classes : Start(c, k, p, l)
         PROVE  ShutdownInv'
    BY <2>5, <2>13 DEF CallStep, Start, Register, RejectEnqueue, Enqueue, Arm, CheckControl,
       LookClosed, Admit, LoseExchange, Sleep, Wake, DropPending, Unregister, Abort, Release,
       Ctl!OnCancel, Ctl!DropRegistration, ctlVars
  <2> QED BY <2>6, <2>7, <2>8, <2>9, <2>10, <2>11, <2>12, <2>13 DEF Next
<1> QED BY <1>1, <1>2

\* When shutdown() returns, every request, queued call and running execution
\* has been told to stop (ShutdownReachesAll).
THEOREM ShutdownComplete == Spec => []ShutdownReachesAll
<1>1. Init => ShutdownInv
  BY DEF Init, ShutdownInv, closed
<1>2. ShutdownInv => ShutdownReachesAll
  BY DEF ShutdownInv, ShutdownReachesAll, closed
<1> QED BY <1>1, <1>2, NextShutdownInv, Inductive, CallbacksOwned, PTL DEF Spec
-----------------------------------------------------------------------------
(***************************************************************************)
(* Wakeups                                                                 *)
(***************************************************************************)

\* The positions eligible() looks at, and those it prefers.
Ready(l) == EligiblePositions(l, PendingCalls)
Preferred(l) == OtherProject(l, Ready(l))

\* A step that leaves the running calls, the last projects and the work and
\* phase of the queued calls alone: what is ready among the old entries stays
\* what it was.  The running counters are known by what they count.
LEMMA ReadyFrame ==
    ASSUME IInv, IInv', UNCHANGED <<running, lastProject>>,
           \A d \in Queued \cup running : work'[d] = work[d] /\ phase'[d] = phase[d],
           Len(queued) <= Len(queued)', \A i \in 1..Len(queued) : queued'[i] = queued[i],
           NEW l \in Classes
    PROVE  /\ InLane(running, l)' = InLane(running, l)
           /\ Ready(l) = {i \in Ready(l)' : i <= Len(queued)}
           /\ Preferred(l) = {i \in Preferred(l)' : i <= Len(queued)}
<1>1. /\ queued \in Seq(Calls) /\ Len(queued) \in Nat
      /\ \A i \in 1..Len(queued) : queued[i] \in Queued /\ queued[i] \in Calls
  BY DEF IInv, TypeOK, Queued
<1>2. queued' \in Seq(Calls) /\ Len(queued)' \in Nat
  BY DEF IInv, TypeOK
<1>3. \A i \in 1..Len(queued) : work[queued[i]].project \in Projects
  BY <1>1 DEF IInv, TypeOK, OwnershipInv, Work
<1>4. \A p \in Projects : InProject(running, p, l)' = InProject(running, p, l)
  BY DEF InProject
<1>5. ASSUME NEW p \in Projects PROVE Counts(p)'.running[l] = Counts(p).running[l]
  <2>1. Counts(p).running[l] = Cardinality(InProject(running, p, l))
    BY DEF IInv, AccountingExact
  <2>2. Counts(p)'.running[l] = Cardinality(InProject(running, p, l)')
    BY DEF IInv, AccountingExact
  <2> QED BY <1>4, <2>1, <2>2
<1>6. ASSUME NEW i \in 1..Len(queued) PROVE Fits(queued[i], l)' <=> Fits(queued[i], l)
  <2>1. PICK p \in Projects : p = work[queued[i]].project
    BY <1>3
  <2>2. queued'[i] = queued[i] /\ work'[queued[i]] = work[queued[i]]
    BY <1>1
  <2>3. Fits(queued[i], l)' <=> work[queued[i]].class = l /\ Counts(p)'.running[l] < Lane[l].runningPerProject
    BY <2>1, <2>2 DEF Fits, Counts
  <2> QED BY <1>5, <2>1, <2>3 DEF Fits
<1>7. ASSUME NEW i \in 1..Len(queued) PROVE i \in Ready(l)' <=> i \in Ready(l)
  <2>1. queued'[i] = queued[i] /\ queued[i] \in Calls /\ phase'[queued[i]] = phase[queued[i]]
    BY <1>1
  <2>2. i \in 1..Len(queued)'
    BY <1>1, <1>2
  <2> QED BY <1>6, <2>1, <2>2 DEF Ready, EligiblePositions, PendingCalls
<1>8. Ready(l) \subseteq 1..Len(queued) /\ Ready(l)' \subseteq 1..Len(queued)'
  BY DEF Ready, EligiblePositions
<1>9. Ready(l) = {i \in Ready(l)' : i <= Len(queued)}
  BY <1>1, <1>2, <1>7, <1>8
<1>10. \A i \in 1..Len(queued) : work'[queued'[i]].project = work[queued[i]].project
  BY <1>1
<1>11. Preferred(l) = {i \in Preferred(l)' : i <= Len(queued)}
  BY <1>1, <1>2, <1>7, <1>8, <1>10 DEF Preferred, OtherProject
<1>12. InLane(running, l)' = InLane(running, l)
  BY DEF InLane
<1> QED BY <1>9, <1>11, <1>12

\* Such a step makes no call eligible that was queued before: an entry pushed
\* at the back of the queue comes after all of them.
LEMMA EligibleFrame ==
    ASSUME IInv, IInv', UNCHANGED <<running, lastProject>>,
           \A d \in Queued \cup running : work'[d] = work[d] /\ phase'[d] = phase[d],
           Len(queued) <= Len(queued)', \A i \in 1..Len(queued) : queued'[i] = queued[i],
           NEW c \in Queued, Eligible(work[c].class, c, PendingCalls)'
    PROVE  Eligible(work[c].class, c, PendingCalls)
<1>1. PICK l \in Classes : l = work[c].class
  BY FiniteSets_ DEF IInv, TypeOK, OwnershipInv, Work
<1>2. work'[c].class = l
  BY <1>1
<1>3. /\ InLane(running, l)' = InLane(running, l)
      /\ Ready(l) = {i \in Ready(l)' : i <= Len(queued)}
      /\ Preferred(l) = {i \in Preferred(l)' : i <= Len(queued)}
  BY ReadyFrame
<1>4. PICK a \in 1..Len(queued) : queued[a] = c
  BY DEF Queued
<1>5. /\ Cardinality(InLane(running, l)') < Lane[l].running
      /\ \E i \in 1..Len(queued)' :
            queued'[i] = c /\ First(IF Preferred(l)' = {} THEN Ready(l)' ELSE Preferred(l)', i)
  BY <1>2 DEF Eligible, Ready, Preferred, First
<1>6. Len(queued) \in Nat /\ Len(queued)' \in Nat
  BY DEF IInv, TypeOK
<1>7. First(IF Preferred(l)' = {} THEN Ready(l)' ELSE Preferred(l)', a)
  <2>1. PICK i \in 1..Len(queued)' :
            queued'[i] = c /\ First(IF Preferred(l)' = {} THEN Ready(l)' ELSE Preferred(l)', i)
    BY <1>5
  <2>2. queued'[a] = c /\ a \in 1..Len(queued)'
    BY <1>4, <1>6
  <2>3. i = a
    BY <2>1, <2>2 DEF IInv, OwnershipInv
  <2> QED BY <2>1, <2>3
<1>8. First(IF Preferred(l) = {} THEN Ready(l) ELSE Preferred(l), a)
  <2>1. CASE Preferred(l)' = {}
    <3>1. a \in Ready(l)' /\ a <= Len(queued) /\ \A j \in Ready(l)' : a <= j
      BY <1>4, <1>6, <1>7, <2>1 DEF First
    <3>2. Preferred(l) = {}
      BY <1>3, <2>1
    <3>3. a \in Ready(l) /\ \A j \in Ready(l) : a <= j
      BY <1>3, <3>1
    <3> QED BY <3>2, <3>3 DEF First
  <2>2. CASE Preferred(l)' # {}
    <3>1. a \in Preferred(l)' /\ a <= Len(queued) /\ \A j \in Preferred(l)' : a <= j
      BY <1>4, <1>6, <1>7, <2>2 DEF First
    <3>2. a \in Preferred(l) /\ \A j \in Preferred(l) : a <= j
      BY <1>3, <3>1
    <3> QED BY <3>2 DEF First
  <2> QED BY <2>1, <2>2
<1> QED BY <1>1, <1>3, <1>4, <1>5, <1>8 DEF Eligible, Ready, Preferred

\* A step that changes neither the queue nor who runs, and the work and phase
\* only of calls that are in neither, keeps every sleeper's reason to sleep.
LEMMA SleepersFrame ==
    ASSUME IInv, IInv', NoLostWakeup, UNCHANGED <<shut, running, lastProject>>,
           \A d \in Queued \cup running : work'[d] = work[d] /\ phase'[d] = phase[d],
           Len(queued) <= Len(queued)', \A i \in 1..Len(queued) : queued'[i] = queued[i],
           \A c \in Calls : pc'[c] = "wait" => pc[c] = "wait" /\ woken'[c] = woken[c]
    PROVE  NoLostWakeup'
<1> SUFFICES ASSUME ~closed', NEW c \in Calls, pc'[c] = "wait",
                    Eligible(work[c].class, c, PendingCalls)'
             PROVE  woken'[c]
  BY DEF NoLostWakeup
<1>1. c \in Queued /\ pc[c] = "wait" /\ ~closed
  BY DEF IInv, OwnershipInv, closed
<1>2. Eligible(work[c].class, c, PendingCalls)
  BY <1>1, EligibleFrame
<1> QED BY <1>1, <1>2 DEF NoLostWakeup

\* Every step that can make a queued call eligible notifies.
LEMMA NextWakeup ==
    ASSUME IInv, IInv', NoLostWakeup, [Next]_vars
    PROVE  NoLostWakeup'
<1> USE DEF ctlVars, stateVars, callVars
<1>1. ASSUME NotifyWaiters PROVE NoLostWakeup'
  BY <1>1 DEF NotifyWaiters, NoLostWakeup
<1>2. /\ Queued \in SUBSET Calls /\ running \in SUBSET Calls /\ pc \in [Calls -> PcValues]
      /\ work \in [Calls -> Work \cup {NoWork}] /\ phase \in [Calls -> Phases]
      /\ woken \in [Calls -> BOOLEAN] /\ queued \in Seq(Calls) /\ Len(queued) \in Nat
  BY FiniteSets_ DEF IInv, TypeOK
<1>3. ASSUME UNCHANGED <<shut, queued, running, lastProject>>,
             \A d \in Queued \cup running : work'[d] = work[d] /\ phase'[d] = phase[d],
             \A c \in Calls : pc'[c] = "wait" => pc[c] = "wait" /\ woken'[c] = woken[c]
      PROVE  NoLostWakeup'
  BY <1>2, <1>3, SleepersFrame
<1>4. CASE UNCHANGED vars
  BY <1>3, <1>4 DEF vars
<1>5. ASSUME NEW k \in Controls,
             \/ TryRequest(k) \/ DropRequest(k) \/ \E p \in Projects : AttachProject(k, p)
             \/ Renew(k) \/ \E r \in Reasons : CancelControl(k, r)
             \/ CancelStep(k) \/ CloseCancel(k)
      PROVE  NoLostWakeup'
  <2>1. UNCHANGED <<shut, queued, running, lastProject, pc, work, phase, woken>>
    BY <1>5 DEF TryRequest, DropRequest, AttachProject, Renew, CancelControl, CancelStep,
                CloseCancel
  <2> QED BY <1>3, <2>1
<1>6. ASSUME NEW k \in Controls, NEW c \in Calls, CancelCallback(k, c) PROVE NoLostWakeup'
  BY <1>1, <1>6 DEF CancelCallback, StopPending
<1>7. ASSUME Close PROVE NoLostWakeup'
  BY <1>7 DEF Close, NoLostWakeup, closed
<1>8. ASSUME CloseNotify \/ \E c \in Calls : Admit(c) \/ DropPending(c) \/ Release(c)
      PROVE  NoLostWakeup'
  BY <1>1, <1>8 DEF CloseNotify, Admit, DropPending, Release
<1>9. ASSUME NEW c \in Calls, NEW k \in Controls, NEW p \in Projects, NEW l \in Classes,
             Start(c, k, p, l)
      PROVE  NoLostWakeup'
  <2>1. c \notin Queued \cup running
    BY <1>9 DEF IInv, OwnershipInv, Start
  <2>2. /\ \A d \in Calls \ {c} : work'[d] = work[d] /\ phase'[d] = phase[d] /\ pc'[d] = pc[d]
        /\ pc'[c] = "register"
        /\ UNCHANGED <<shut, queued, running, lastProject, woken>>
    BY <1>2, <1>9 DEF Start, Goto
  <2> QED BY <1>2, <1>3, <2>1, <2>2
<1>10. ASSUME NEW c \in Calls, Register(c) PROVE NoLostWakeup'
  <2>1. CASE Ctl!LateRegistration(work[c].control)
    BY <1>1, <1>10, <2>1 DEF Register, StopPending
  <2>2. CASE ~Ctl!LateRegistration(work[c].control)
    <3>1. UNCHANGED <<shut, queued, running, lastProject, work, phase, woken>>
      BY <1>10, <2>2 DEF Register
    <3>2. \A d \in Calls : pc'[d] = "wait" => pc[d] = "wait"
      BY <1>2, <1>10 DEF Register, Goto
    <3> QED BY <1>3, <3>1, <3>2
  <2> QED BY <2>1, <2>2
<1>11. ASSUME NEW c \in Calls,
              \/ RejectEnqueue(c) \/ Arm(c) \/ CheckControl(c) \/ LookClosed(c)
              \/ LoseExchange(c) \/ Wake(c) \/ Abort(c)
       PROVE  NoLostWakeup'
  <2>1. UNCHANGED <<shut, queued, running, lastProject, work, phase>>
    BY <1>11 DEF RejectEnqueue, Arm, CheckControl, LookClosed, LoseExchange, Wake, Abort
  <2>2. /\ pc'[c] # "wait"
        /\ \A d \in Calls \ {c} : pc'[d] = pc[d] /\ woken'[d] = woken[d]
    BY <1>2, <1>11
    DEF RejectEnqueue, Arm, CheckControl, LookClosed, LoseExchange, Wake, Abort, Goto
  <2> QED BY <1>3, <2>1, <2>2
<1>12. ASSUME NEW c \in Calls, Sleep(c) PROVE NoLostWakeup'
  <2>1. /\ UNCHANGED <<shut, queued, running, lastProject, work, phase, woken, projects>>
        /\ pc' = [pc EXCEPT ![c] = "wait"]
        /\ ~Eligible(work[c].class, c, PendingCalls)
    BY <1>12 DEF Sleep, Goto
  <2>2. c \in Queued
    BY <1>12 DEF IInv, OwnershipInv, Sleep
  <2>3. ~Eligible(work[c].class, c, PendingCalls)'
    BY <1>2, <2>1, <2>2, EligibleFrame
  <2>4. ASSUME NEW d \in Calls \ {c}, pc'[d] = "wait", ~closed',
               Eligible(work[d].class, d, PendingCalls)'
        PROVE  woken'[d]
    <3>1. pc[d] = "wait" /\ ~closed
      BY <1>2, <2>1, <2>4 DEF closed
    <3>2. d \in Queued
      BY <3>1 DEF IInv, OwnershipInv
    <3>3. Eligible(work[d].class, d, PendingCalls)
      BY <1>2, <2>1, <2>4, <3>2, EligibleFrame
    <3> QED BY <2>1, <3>1, <3>3 DEF NoLostWakeup
  <2> QED BY <2>3, <2>4 DEF NoLostWakeup
<1>13. ASSUME NEW c \in Calls, Enqueue(c) PROVE NoLostWakeup'
  <2>1. /\ UNCHANGED <<shut, running, lastProject, work, phase, woken>>
        /\ queued' = Append(queued, c)
    BY <1>13 DEF Enqueue
  <2>2. \A d \in Calls : pc'[d] = "wait" => pc[d] = "wait"
    BY <1>2, <1>13 DEF Enqueue, Goto
  <2>3. Len(queued)' = Len(queued) + 1 /\ \A i \in 1..Len(queued) : queued'[i] = queued[i]
    BY <1>2, <2>1
  <2> QED BY <1>2, <2>1, <2>2, <2>3, SleepersFrame
<1>14. ASSUME NEW c \in Calls, Unregister(c) PROVE NoLostWakeup'
  <2>1. c \notin Queued
    BY <1>14 DEF IInv, OwnershipInv, Unregister
  <2>2. UNCHANGED <<shut, queued, running, lastProject, woken>>
    BY <1>14 DEF Unregister
  <2>3. /\ \A d \in Queued \cup running : work'[d] = work[d] /\ phase'[d] = phase[d]
        /\ \A d \in Calls : pc'[d] = "wait" => pc[d] = "wait"
    BY <1>2, <1>14, <2>1 DEF Unregister, EndCall, Goto
  <2> QED BY <1>3, <2>2, <2>3
<1> QED BY <1>4, <1>5, <1>6, <1>7, <1>8, <1>9, <1>10, <1>11, <1>12, <1>13, <1>14
        DEF Next, CallStep

\* The call a lane would admit next never sleeps without a wakeup on its way,
\* for any number of calls, projects and lanes (NoLostWakeup): every step of
\* acquire_execution, of the drops and of the callbacks that can make an entry
\* eligible notifies after it has changed the state.
THEOREM Wakeup == Spec => []NoLostWakeup
<1>1. Init => NoLostWakeup
  BY DEF Init, NoLostWakeup
<1>2. IInv /\ IInv' /\ NoLostWakeup /\ [Next]_vars => NoLostWakeup'
  BY NextWakeup
<1> QED BY <1>1, <1>2, Inductive, PTL DEF Spec

-----------------------------------------------------------------------------
(***************************************************************************)
(* WorkCoordinator implements Admission.                                   *)
(***************************************************************************)

\* A slot without a call holds no order.
IdleInv == \A c \in Calls : pc[c] = "idle" => work[c] = NoWork

\* A call keeps its order until EndCall.
LEMMA NextIdleInv ==
    ASSUME TypeOK, IdleInv, [Next]_vars
    PROVE  IdleInv'
<1> USE DEF IdleInv, callVars, Goto, EndCall, PcValues
<1>1. pc \in [Calls -> PcValues] /\ work \in [Calls -> Work \cup {NoWork}]
  BY DEF TypeOK
<1>2. CASE UNCHANGED <<pc, work>>
  BY <1>2
<1>3. ASSUME NEW c \in Calls, CallStep(c) \/ Abort(c)
      PROVE  IdleInv'
  <2>1. CASE Unregister(c)
    BY <1>1, <2>1 DEF Unregister
  <2>2. CASE ~Unregister(c)
    <3>1. work' = work /\ \E l \in PcValues \ {"idle"} : pc' = [pc EXCEPT ![c] = l]
      BY <1>3, <2>2 DEF CallStep, Register, RejectEnqueue, Enqueue, Arm, CheckControl,
         LookClosed, Admit, LoseExchange, Sleep, Wake, DropPending, Abort, Acquiring
    <3> QED BY <1>1, <3>1
  <2> QED BY <2>1, <2>2
<1>4. ASSUME NEW c \in Calls, Release(c)
      PROVE  IdleInv'
  BY <1>1, <1>4 DEF Release
<1>5. ASSUME NEW c \in Calls, NEW k \in Controls, NEW p \in Projects, NEW l \in Classes,
             Start(c, k, p, l)
      PROVE  IdleInv'
  BY <1>1, <1>5 DEF Start
<1> QED BY <1>2, <1>3, <1>4, <1>5
        DEF Next, vars, TryRequest, DropRequest, Renew, AttachProject, CancelControl, CancelStep,
            CancelCallback, Close, CloseCancel, CloseNotify

\* The controls whose cancel() has returned.
Returned == {k \in Controls : stage[k] = "done"}

\* Steps that begin, end or place nothing are invisible to the callers.
LEMMA Invisible ==
    ASSUME UNCHANGED <<work, running>>, Returned' = Returned, closed' = closed
    PROVE  UNCHANGED Promise!vars
BY DEF Promise!vars, Returned

\* An admission begins an order: the counters speak the truth about the room
\* there is, and a call that is still PENDING has not been cancelled.
LEMMA AdmitBegins ==
    ASSUME IInv, CancelInv, NEW c \in Calls, Admit(c)
    PROVE  Promise!Begin(c)
<1>1. /\ pc[c] = "look" /\ ~closed /\ running' = running \cup {c}
      /\ UNCHANGED <<work, stage, shut>>
  BY DEF Admit, ctlVars
<1>2. PICK p \in Projects, l \in Classes : p = work[c].project /\ l = work[c].class
  BY <1>1 DEF IInv, TypeOK, Work
<1>3. work[c] # NoWork /\ work[c].control \in Controls /\ c \notin running
  BY <1>1, LimitsAssumption DEF IInv, TypeOK, OwnershipInv, Work
<1>4. /\ Cardinality(InLane(running, l)) < Lane[l].running
      /\ phase[c] = "PENDING" /\ Fits(c, l)
  BY <1>2 DEF Admit, Eligible, First, OtherProject, EligiblePositions, PendingCalls
<1>5. work[c].control \notin Returned
  BY <1>1, <1>3, <1>4 DEF CancelInv, Acquiring, Returned
<1>6. Cardinality(InProject(running, p, l)) < Lane[l].runningPerProject
  BY <1>2, <1>4 DEF Fits, IInv, AccountingExact
<1>7. Promise!Room(work[c])
  <2>1. InLane(running, l) = {d \in running : work[d].class = work[c].class}
    BY <1>2 DEF InLane
  <2>2. InProject(running, p, l) =
          {d \in {e \in running : work[e].class = work[c].class} : work[d].project = work[c].project}
    BY <1>2 DEF InProject
  <2>3. \A S : Promise!Cardinality(S) = Cardinality(S)
    BY DEF Cardinality, Promise!Cardinality
  <2> QED BY <1>2, <1>4, <1>6, <2>1, <2>2, <2>3 DEF Promise!Room
<1>8. UNCHANGED <<work, Returned, closed>>
  BY <1>1 DEF Returned, closed
<1> QED BY <1>1, <1>3, <1>5, <1>7, <1>8 DEF Promise!Begin, Returned

\* Every step of the coordinator is a step of Admission or changes nothing of
\* what its callers see.
LEMMA StepImplements ==
    ASSUME IInv, CancelInv, IdleInv, [Next]_vars
    PROVE  [Promise!Next]_(Promise!vars)
<1> USE DEF ctlVars, stateVars, callVars
<1>1. /\ stage \in [Controls -> Ctl!Stages]
      /\ pc \in [Calls -> PcValues] /\ work \in [Calls -> Work \cup {NoWork}]
  BY DEF IInv, TypeOK, Ctl!CtlTypeOK
<1>2. CASE UNCHANGED <<work, running, stage, shut>>
  <2>1. Returned' = Returned /\ closed' = closed
    BY <1>2 DEF Returned, closed
  <2> QED BY <1>2, <2>1, Invisible
<1>3. ASSUME NEW c \in Calls, Admit(c)
      PROVE  Promise!Next
  BY <1>3, AdmitBegins DEF Promise!Next
<1>4. ASSUME NEW c \in Calls, Unregister(c)
      PROVE  [Promise!Next]_(Promise!vars)
  <2>1. UNCHANGED <<running, stage, shut>>
    BY <1>4 DEF Unregister, Ctl!DropRegistration
  <2>2. Returned' = Returned /\ closed' = closed
    BY <2>1 DEF Returned, closed
  <2>3. CASE c \in running
    <3>1. UNCHANGED work
      BY <1>4, <2>3 DEF Unregister
    <3> QED BY <2>1, <2>2, <3>1, Invisible
  <2>4. CASE c \notin running
    <3>1. work' = [work EXCEPT ![c] = NoWork]
      BY <1>4, <2>4 DEF Unregister, EndCall
    <3>2. work[c] # NoWork
      BY <1>4, LimitsAssumption DEF Unregister, IInv, TypeOK, Work
    <3>3. Promise!Withdraw(c)
      BY <2>1, <2>2, <2>4, <3>1, <3>2 DEF Promise!Withdraw, Returned
    <3> QED BY <3>3 DEF Promise!Next
  <2> QED BY <2>3, <2>4
<1>5. ASSUME NEW c \in Calls, Release(c)
      PROVE  Promise!Next
  <2>1. /\ c \in running /\ running' = running \ {c}
        /\ work' = [work EXCEPT ![c] = NoWork]
        /\ UNCHANGED <<stage, shut>>
    BY <1>5 DEF Release, EndCall, IInv, OwnershipInv
  <2>2. Returned' = Returned /\ closed' = closed
    BY <2>1 DEF Returned, closed
  <2>3. Promise!Finish(c)
    BY <2>1, <2>2 DEF Promise!Finish, Returned
  <2> QED BY <2>3 DEF Promise!Next
<1>6. ASSUME NEW c \in Calls, NEW k \in Controls, NEW p \in Projects, NEW l \in Classes,
             Start(c, k, p, l)
      PROVE  Promise!Next
  <2> DEFINE o == [project |-> p, class |-> l, control |-> k]
  <2>1. /\ work[c] = NoWork /\ work' = [work EXCEPT ![c] = o]
        /\ UNCHANGED <<running, stage, shut>>
    BY <1>6 DEF Start, IdleInv
  <2>2. Returned' = Returned /\ closed' = closed
    BY <2>1 DEF Returned, closed
  <2>3. o \in Promise!Orders
    BY DEF Promise!Orders
  <2>4. Promise!Place(c, o)
    BY <2>1, <2>2 DEF Promise!Place, Returned
  <2> QED BY <2>3, <2>4 DEF Promise!Next
<1>7. ASSUME NEW k \in Controls, NEW r \in Reasons, Ctl!Cancel(k, r),
             UNCHANGED <<work, running, shut>>
      PROVE  UNCHANGED Promise!vars
  <2>1. stage[k] = "quiet" /\ stage' = [stage EXCEPT ![k] = "won"]
    BY <1>7 DEF Ctl!Cancel, CancelInv
  <2>2. Returned' = Returned /\ closed' = closed
    BY <1>1, <1>7, <2>1 DEF Returned, closed
  <2> QED BY <1>7, <2>2, Invisible
<1>8. ASSUME NEW k \in Controls, CancelStep(k)
      PROVE  [Promise!Next]_(Promise!vars)
  <2>1. UNCHANGED <<work, running, shut, closed>>
    BY <1>8 DEF CancelStep, closed
  <2>2. CASE Ctl!CloneCallbacks(k)
    <3>1. Returned' = Returned
      BY <1>1, <2>2 DEF Ctl!CloneCallbacks, Returned
    <3> QED BY <2>1, <3>1, Invisible
  <2>3. CASE Ctl!CancelReturns(k)
    <3>1. Returned' = Returned \cup {k}
      BY <1>1, <2>3 DEF Ctl!CancelReturns, Returned
    <3>2. Promise!CancelReturns(k)
      BY <2>1, <3>1 DEF Promise!CancelReturns, Returned
    <3> QED BY <3>2 DEF Promise!Next
  <2> QED BY <1>8, <2>2, <2>3 DEF CancelStep, Ctl!CancelProgress
<1>9. ASSUME NEW k \in Controls, Renew(k)
      PROVE  Promise!Next
  <2>1. /\ UNCHANGED <<work, running, shut, closed>>
        /\ stage' = [stage EXCEPT ![k] = "quiet"]
        /\ \A c \in Calls : work[c] # NoWork => work[c].control # k
    BY <1>9 DEF Renew, Ctl!NewControl, closed, IdleInv
  <2>2. Returned' = Returned \ {k}
    BY <1>1, <2>1 DEF Returned
  <2>3. Promise!Forget(k)
    BY <2>1, <2>2 DEF Promise!Forget, Returned
  <2> QED BY <2>3 DEF Promise!Next
<1>10. ASSUME Close
       PROVE  Promise!Next
  <2>1. closed' = TRUE /\ UNCHANGED <<work, running, stage, Returned>>
    BY <1>10 DEF Close, closed, Returned
  <2>2. Promise!Shut
    BY <2>1 DEF Promise!Shut, Returned
  <2> QED BY <2>2 DEF Promise!Next
<1>11. ASSUME CloseNotify
       PROVE  UNCHANGED Promise!vars
  <2>1. UNCHANGED <<work, running, Returned, closed>>
    BY <1>11 DEF CloseNotify, closed, Returned
  <2> QED BY <2>1, Invisible
<1>12. ASSUME NEW c \in Calls, CallStep(c) \/ Abort(c), ~Admit(c), ~Unregister(c)
       PROVE  UNCHANGED <<work, running, stage, shut>>
  BY <1>12 DEF CallStep, Register, RejectEnqueue, Enqueue, Arm, CheckControl, LookClosed,
     LoseExchange, Sleep, Wake, DropPending, Abort, Ctl!OnCancel
<1>13. ASSUME NEW k \in Controls, \/ TryRequest(k) \/ DropRequest(k)
                                  \/ \E p \in Projects : AttachProject(k, p)
                                  \/ \E c \in Calls : CancelCallback(k, c)
       PROVE  UNCHANGED <<work, running, stage, shut>>
  BY <1>13 DEF TryRequest, DropRequest, AttachProject, CancelCallback, Ctl!RunCallback
<1>14. ASSUME NEW k \in Controls, CloseCancel(k) \/ \E r \in Reasons : CancelControl(k, r)
       PROVE  UNCHANGED Promise!vars
  <2>1. CASE UNCHANGED ctlVars
    <3>1. UNCHANGED <<work, running, Returned, closed>>
      BY <1>14, <2>1 DEF CloseCancel, CancelControl, Returned, closed
    <3> QED BY <3>1, Invisible
  <2>2. CASE ~UNCHANGED ctlVars
    <3>1. UNCHANGED <<work, running, shut>> /\ \E r \in Reasons : Ctl!Cancel(k, r)
      BY <1>14, <2>2, LimitsAssumption DEF CloseCancel, CancelControl
    <3> QED BY <1>7, <3>1
  <2> QED BY <2>1, <2>2
<1> QED BY <1>2, <1>3, <1>4, <1>5, <1>6, <1>8, <1>9, <1>10, <1>11, <1>12, <1>13, <1>14
        DEF Next, vars

\* The coordinator implements its contract: in every behaviour, seen as the
\* orders, the executions, the cancelled controls and the closing, each step is
\* one that Admission allows (ImplementsAdmission).
THEOREM Refinement == Spec => ImplementsAdmission
<1>1. Init => Promise!Init
  BY DEF Init, Promise!Init, Ctl!CtlInit, closed
<1>2. Init => IdleInv
  BY DEF Init, IdleInv
<1>3. IInv => TypeOK
  BY DEF IInv
<1> QED BY <1>1, <1>2, <1>3, NextIdleInv, StepImplements, Inductive, CallbacksOwned, PTL
        DEF Spec, ImplementsAdmission, Promise!Spec
=============================================================================
