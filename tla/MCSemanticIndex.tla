-------------------------- MODULE MCSemanticIndex --------------------------
(* An instance of SemanticIndex for TLC. *)
EXTENDS SemanticIndex

\* Files, contents and setups are alike until the first event, so of the trees
\* to begin with one with all files and one that lacks a file are enough.
Alike ==
    /\ LET c == CHOOSE c \in Contents : TRUE
           g == CHOOSE g \in Files : TRUE
       IN  disk \in {[f \in Files |-> c], [f \in Files |-> IF f = g THEN None ELSE c]}
    /\ setup = CHOOSE s \in Setups : TRUE

MCInit == Init /\ Alike

MCSpec == MCInit /\ [][Next]_vars /\ Fairness
=============================================================================
