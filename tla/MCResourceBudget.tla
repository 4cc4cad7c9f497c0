-------------------------- MODULE MCResourceBudget --------------------------
(***************************************************************************)
(* ResourceBudget on small instances: two requests of session "s" and one  *)
(* anonymous one (and a second anonymous one for the waiting queue), one   *)
(* class with a limit of its own and one without.                          *)
(***************************************************************************)
EXTENDS ResourceBudget

MCSession == [t \in Turns |-> IF t \in {"a", "b"} THEN "s" ELSE Anonymous]
MCClassBytes == [c \in Classes |-> IF c = "output" THEN 3 ELSE 0]
=============================================================================
