------------------------- MODULE MCRankingSnapshot -------------------------
(* Small instances of RankingSnapshot for TLC. *)
EXTENDS RankingSnapshot, TLC

FileSymmetry == Permutations(Files)
RequestSymmetry == Permutations(Requests)
Symmetry == FileSymmetry \cup RequestSymmetry

\* One request meets changes of the file at the path and a commit in each
\* file; two requests meet commits in one file.  Nothing is claimed once a pair
\* of probes has seen three changes.
PathsOrRequests ==
    /\ ~flicker
    /\ \/ swaps = 0 /\ \A f \in Files \ {path} : commits[f] = 0
       \/ /\ \A f \in Files : commits[f] <= 1
          /\ \E q \in Requests : \A o \in Requests \ {q} : at[o] = "idle"
=============================================================================
