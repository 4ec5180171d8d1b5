------------------------- MODULE MCWorkCoordinator -------------------------
(* Instances of WorkCoordinator for TLC. *)
EXTENDS WorkCoordinator, TLC

\* Two slots, one per project, as the default interactive and analysis lanes
\* have them, and one place in the queue: two calls meet every bound.
MCTightLane == [l \in Classes |-> [running |-> 2, runningPerProject |-> 1,
                                   queued |-> 1, queuedPerProject |-> 1]]

\* One slot and two places, so that the lane has a choice of projects.
MCNarrowLane == [l \in Classes |-> [running |-> 1, runningPerProject |-> 1,
                                    queued |-> 2, queuedPerProject |-> 2]]

CallSymmetry == Permutations(Calls)
ProjectSymmetry == Permutations(Projects)
Symmetry == CallSymmetry \cup ProjectSymmetry
=============================================================================
