-------------------------- MODULE MCOverviewCache --------------------------
(* Small instances of OverviewCache for TLC. *)
EXTENDS OverviewCache

Symmetry == Permutations(Flights) \cup Permutations(Projects) \cup Permutations(Requests)

\* Eviction concerns several projects and replacement several generations of
\* one: this instance explores both, but not several generations of several
\* projects.  Requests are dropped, not cancelled.
OneOrMany ==
    /\ \A q \in Requests : ~stopped[q]
    /\ \/ \A p \in Projects : gen[p] = 0
       \/ \E p \in Projects :
             /\ \A o \in Projects \ {p} : gen[o] = 0
             /\ ToSet(lru) \subseteq {p}
             /\ \A q \in Requests : req[q].project \in {p, None}
=============================================================================
