-------------------------- MODULE FabricAuthority --------------------------
(***************************************************************************)
(* What the Fabric kernel promises about one task, whatever is called, in  *)
(* whatever order, and whatever fails: a lease whose token only grows, a   *)
(* log that acknowledges a token at most once and only while the lease is  *)
(* at it, and runs that follow each other until the task is over.          *)
(***************************************************************************)
EXTENDS Naturals

CONSTANTS NoRun,   \* what stands for no run
          NoOwner  \* what stands for nobody

VARIABLES token,        \* the fencing token of the lease
          holder,       \* who has the lease
          acknowledged, \* the newest token the log records an owner for
          current,      \* the active primary run
          over          \* the task is terminal

authorityVars == <<token, holder, acknowledged, current, over>>

AuthorityInit ==
    /\ token = 0 /\ holder = NoOwner /\ acknowledged = 0
    /\ current = NoRun /\ over = FALSE

(* The lease changes hands, or is given back: a new token every time. *)
Take ==
    /\ token' = token + 1
    /\ UNCHANGED <<acknowledged, current, over>>

(* The token of the lease is new to the log, and somebody has it. *)
Acknowledge ==
    /\ acknowledged < token /\ holder # NoOwner
    /\ acknowledged' = token

(* A run starts: a fenced one with the lease as it is, others without any. *)
Start ==
    /\ current = NoRun /\ ~over
    /\ current' # NoRun
    /\ IF current'.kind = "execute"
       THEN current'.owner = holder /\ current'.fence = token /\ Acknowledge
       ELSE UNCHANGED acknowledged
    /\ UNCHANGED <<token, holder, over>>

(* Authority passes to a child or back, within a run or after it. *)
Transfer ==
    /\ Acknowledge
    /\ UNCHANGED <<token, holder, current, over>>

(* A run ends; unless it was interrupted, so does the task. *)
Finish ==
    /\ current # NoRun /\ current' = NoRun
    /\ over' \in {over, TRUE}
    /\ UNCHANGED <<token, holder, acknowledged>>

(* The task ends between runs. *)
Close ==
    /\ current = NoRun /\ ~over
    /\ over' = TRUE
    /\ UNCHANGED <<token, holder, acknowledged, current>>

AuthorityNext == Take \/ Start \/ Transfer \/ Finish \/ Close

AuthoritySpec == AuthorityInit /\ [][AuthorityNext]_authorityVars
=============================================================================
