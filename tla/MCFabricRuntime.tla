--------------------------- MODULE MCFabricRuntime ---------------------------
(***************************************************************************)
(* FabricRuntime with two execute requests that differ in nothing but      *)
(* their names, so that one of each pair of mirrored states is enough.     *)
(***************************************************************************)
EXTENDS FabricRuntime, TLC

CONSTANTS e1, e2

MCExecutors == {e1, e2}
MCCallers == MCExecutors \cup Cancellers \cup Stops
Interchangeable == Permutations(MCExecutors)
=============================================================================
