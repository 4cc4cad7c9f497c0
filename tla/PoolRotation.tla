----------------------------- MODULE PoolRotation -----------------------------
(***************************************************************************)
(* The transition function of the rotation card                            *)
(* (gui/src/codex-pool-rotation-machine.ts).  Of the three settings two    *)
(* are kept, strategy and stickyLimit: one is chosen, the other is typed   *)
(* and committed.  What the server confirmed carries the version of the    *)
(* server's state it belongs to.  The text of the sticky-limit draft is    *)
(* left out: a draft that does not parse only resets itself.               *)
(***************************************************************************)
EXTENDS Naturals

CONSTANTS Strategies, Limits, DefaultStrategy, DefaultLimit

ASSUME RotationAssumption == DefaultStrategy \in Strategies /\ DefaultLimit \in Limits

Rotation(strategy, limit) == [strategy |-> strategy, stickyLimit |-> limit]
Rotations == [strategy : Strategies, stickyLimit : Limits]
DEFAULT_POOL_ROTATION == Rotation(DefaultStrategy, DefaultLimit)

INITIAL_POOL_ROTATION_STATE ==
    [confirmed |-> DEFAULT_POOL_ROTATION, at |-> 0, visible |-> DEFAULT_POOL_ROTATION,
     hydrated |-> FALSE, saving |-> FALSE, readFailed |-> FALSE, revision |-> 0,
     heldRead |-> FALSE]

controlsLocked(s) == s.saving \/ s.readFailed \/ ~s.hydrated

adoptRotation(s, rotation, at) ==
    [s EXCEPT !.confirmed = rotation, !.at = at, !.visible = rotation, !.hydrated = TRUE,
              !.readFailed = FALSE]

(* Mutant: a read is taken whatever was written since it began. *)
arrivedAnyRevision(s, rotation, at, startedAtRevision) ==
    IF s.saving THEN [s EXCEPT !.heldRead = TRUE] ELSE adoptRotation(s, rotation, at)

serverValuesArrived(s, rotation, at, startedAtRevision) ==
    IF startedAtRevision # s.revision THEN s
    ELSE IF s.saving THEN [s EXCEPT !.heldRead = TRUE]
    ELSE adoptRotation(s, rotation, at)

serverReadFailed(s) == IF s.hydrated THEN s ELSE [s EXCEPT !.readFailed = TRUE]

writeStarted(s) == [s EXCEPT !.saving = TRUE, !.revision = @ + 1]

writeAccepted(s, rotation, at) ==
    [adoptRotation(s, rotation, at) EXCEPT !.saving = FALSE, !.revision = @ + 1]

writeRejected(s) == [s EXCEPT !.visible = s.confirmed, !.saving = FALSE, !.revision = @ + 1]
=============================================================================
