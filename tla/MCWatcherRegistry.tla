------------------------- MODULE MCWatcherRegistry -------------------------
(* An instance of WatcherRegistry in which clients, configurations and     *)
(* watchers are interchangeable.                                           *)
EXTENDS WatcherRegistry, TLC

Interchangeable ==
    Permutations(Clients) \cup Permutations(Keys) \cup Permutations(Watchers)
=============================================================================
