--------------------------- MODULE MCRunControl ---------------------------
(* A small instance of RunControl for TLC. *)
EXTENDS RunControl, TLC

CONSTANTS r1, r2, c1, k1

\* Two runs and a connection that share a control.
MCCallbacks == {r1, r2, c1}
MCOf == (r1 :> k1) @@ (r2 :> k1) @@ (c1 :> k1)
=============================================================================
