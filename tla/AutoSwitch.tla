------------------------------ MODULE AutoSwitch ------------------------------
(***************************************************************************)
(* The transition function of the auto-switch card                         *)
(* (gui/src/hooks/useCodexAutoSwitch.ts, gui/src/codex-auto-switch.ts).    *)
(* A threshold that came from the server carries the version of the        *)
(* server's state it belongs to; "at" is 0 for the default painted before  *)
(* the first read.  A draft is the number its text parses to, 0 when it    *)
(* does not parse.  The notice line is left out.                           *)
(***************************************************************************)
EXTENDS Naturals

CONSTANTS MaxThreshold,     \* enabled thresholds are 1 .. MaxThreshold, 0 is off
          DefaultThreshold  \* DEFAULT_AUTO_SWITCH_THRESHOLD

ASSUME ThresholdAssumption == MaxThreshold \in Nat /\ DefaultThreshold \in 1 .. MaxThreshold

Threshold(value, at) == [value |-> value, at |-> at]
NoThreshold == Threshold(0, 0)   \* null

initialAutoSwitchState ==
    [threshold |-> Threshold(DefaultThreshold, 0), draft |-> DefaultThreshold,
     lastEnabled |-> DefaultThreshold, deferred |-> NoThreshold, revision |-> 0,
     hydrated |-> FALSE, saving |-> FALSE, loadError |-> FALSE, editing |-> FALSE,
     cancelledDraft |-> FALSE]

confirmThreshold(s, t) ==
    LET enabled == IF t.value > 0 THEN t.value ELSE s.lastEnabled
    IN  [s EXCEPT !.threshold = t, !.lastEnabled = enabled, !.hydrated = TRUE, !.draft = enabled]

flushHold(s) ==
    IF s.deferred = NoThreshold THEN s
    ELSE [confirmThreshold(s, s.deferred) EXCEPT !.deferred = NoThreshold]

releaseHold(s) ==
    IF s.deferred # NoThreshold THEN flushHold(s)
    ELSE [s EXCEPT !.draft = IF s.threshold.value > 0 THEN s.threshold.value ELSE s.lastEnabled]

(* Mutant: the read of an older revision is applied as well. *)
applyAnyRevision(s, startedRevision) == IF s.editing \/ s.saving THEN "defer" ELSE "apply"

autoSwitchThresholdReadDisposition(s, startedRevision) ==
    IF startedRevision # s.revision THEN "ignore"
    ELSE IF s.editing \/ s.saving THEN "defer" ELSE "apply"

acceptServerRead(s, t, startedRevision) ==
    CASE autoSwitchThresholdReadDisposition(s, startedRevision) = "ignore" -> s
      [] autoSwitchThresholdReadDisposition(s, startedRevision) = "defer" ->
            [s EXCEPT !.loadError = FALSE, !.deferred = t]
      [] autoSwitchThresholdReadDisposition(s, startedRevision) = "apply" ->
            [confirmThreshold(s, t) EXCEPT !.loadError = FALSE, !.deferred = NoThreshold]

rejectServerRead(s) == IF s.hydrated THEN s ELSE [s EXCEPT !.loadError = TRUE]

(* The seed of a card that mounts after the pool has read; t is NoThreshold when it has not. *)
hydrateServerValue(s, t) == IF t = NoThreshold THEN s ELSE confirmThreshold(s, t)

saveBegan(s) == [s EXCEPT !.saving = TRUE, !.editing = FALSE, !.revision = @ + 1]

saveAccepted(s, t) ==
    [confirmThreshold(s, t) EXCEPT !.deferred = NoThreshold, !.revision = @ + 1, !.saving = FALSE]

(* Mutant: a failed save keeps the card disabled. *)
saveRejectedStillSaving(s, previous) ==
    [confirmThreshold(s, previous) EXCEPT !.revision = s.revision + 1]

saveRejected(s, previous) ==
    [(IF s.deferred # NoThreshold THEN flushHold(s) ELSE confirmThreshold(s, previous))
        EXCEPT !.revision = s.revision + 1, !.saving = FALSE]

(* Disabling keeps a valid draft as the value to restore; the plan's threshold is written. *)
planAutoSwitchToggleWrite(s) ==
    IF s.threshold.value = 0 THEN [threshold |-> s.lastEnabled, lastEnabled |-> s.lastEnabled]
    ELSE [threshold |-> 0, lastEnabled |-> IF s.draft # 0 THEN s.draft ELSE s.lastEnabled]

toggleApplied(s, plan) ==
    [s EXCEPT !.lastEnabled = plan.lastEnabled,
              !.draft = IF plan.threshold = 0 THEN plan.lastEnabled ELSE @]

draftCancelled(s) == releaseHold([s EXCEPT !.editing = FALSE, !.cancelledDraft = TRUE])

(* What commit does when it has nothing to write. *)
commitWithoutWrite(s) ==
    LET closed == [s EXCEPT !.editing = FALSE] IN
    CASE s.cancelledDraft -> [s EXCEPT !.cancelledDraft = FALSE]
      [] ~s.cancelledDraft /\ s.draft = 0 -> releaseHold(closed)
      [] OTHER -> flushHold(closed)

(* Whether commit writes the draft. *)
commitWrites(s) == ~s.cancelledDraft /\ s.draft # 0 /\ s.draft # s.threshold.value
=============================================================================
