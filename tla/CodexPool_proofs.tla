--------------------------- MODULE CodexPool_proofs ---------------------------
(***************************************************************************)
(* What the pool's page shows of the proxy's state, for every number of    *)
(* accounts, changes, loads, saves and mounts: the threshold on the card   *)
(* is never replaced by an older one, other than the default that stands   *)
(* for an answer without a body, the rotation held as confirmed is         *)
(* never older than the last write seen accepted, and once everything is   *)
(* settled the page shows what the proxy has.                              *)
(*                                                                         *)
(* All three rest on LoadsInv: a load has its generation to itself, and    *)
(* what it read is no newer than the proxy, whose state it is when the     *)
(* versions agree.  ThresholdInv and RotationInv relate the revision a     *)
(* read began at to what the card has taken since; NewestInv relates the   *)
(* page to the newest load that came in.                                   *)
(***************************************************************************)
EXTENDS CodexPool, Integers, TLAPS

Stamped == [value : Nat, at : Nat]
AutoCards ==
    [threshold : Stamped, draft : Nat, lastEnabled : Nat, deferred : Stamped, revision : Nat,
     hydrated : BOOLEAN, saving : BOOLEAN, loadError : BOOLEAN, editing : BOOLEAN,
     cancelledDraft : BOOLEAN]
Machines ==
    [confirmed : Rotations, at : Nat, visible : Rotations, hydrated : BOOLEAN, saving : BOOLEAN,
     readFailed : BOOLEAN, revision : Nat, heldRead : BOOLEAN]

-----------------------------------------------------------------------------
(* The transition functions of the two cards. *)

(* What a card that settles makes of its threshold: it keeps it, or takes the deferred one. *)
Settles(s, new) ==
    /\ new \in AutoCards /\ new.revision = s.revision /\ new.saving = s.saving
    /\ \/ new.threshold = s.threshold /\ new.deferred = s.deferred
       \/ s.deferred # NoThreshold /\ new.threshold = s.deferred /\ new.deferred = NoThreshold

(* No threshold is a reading, of version 0. *)
LEMMA NoThresholdType == NoThreshold \in Stamped /\ NoThreshold.at = 0
BY DEF NoThreshold, Threshold, Stamped

(* A new card has the default threshold of no version. *)
LEMMA FirstAuto ==
    /\ initialAutoSwitchState \in AutoCards /\ initialAutoSwitchState.threshold.at = 0
    /\ initialAutoSwitchState.deferred = NoThreshold /\ initialAutoSwitchState.revision = 0
    /\ initialAutoSwitchState.saving = FALSE
BY ThresholdAssumption DEF initialAutoSwitchState, AutoCards, Stamped, NoThreshold, Threshold

(* confirmThreshold takes the threshold and leaves the hold, the revision and the save. *)
LEMMA Confirmed ==
    ASSUME NEW s \in AutoCards, NEW t \in Stamped
    PROVE  LET new == confirmThreshold(s, t)
           IN  /\ new \in AutoCards /\ new.threshold = t /\ new.deferred = s.deferred
               /\ new.revision = s.revision /\ new.saving = s.saving
BY DEF confirmThreshold, AutoCards, Stamped

(* flushHold takes the deferred threshold, if there is one. *)
LEMMA Flushed ==
    ASSUME NEW s \in AutoCards
    PROVE  Settles(s, flushHold(s)) /\ flushHold(s).deferred = NoThreshold
           /\ (s.deferred # NoThreshold => flushHold(s).threshold = s.deferred)
<1>1. s.deferred \in Stamped /\ NoThreshold \in Stamped
  BY NoThresholdType DEF AutoCards
<1>2. CASE s.deferred = NoThreshold
  BY <1>2 DEF flushHold, Settles
<1>3. CASE s.deferred # NoThreshold
  <2> DEFINE c == confirmThreshold(s, s.deferred)
  <2>1. c \in AutoCards /\ c.threshold = s.deferred /\ c.revision = s.revision /\ c.saving = s.saving
    BY <1>1, Confirmed
  <2>2. flushHold(s) = [c EXCEPT !.deferred = NoThreshold]
    BY <1>3 DEF flushHold
  <2> HIDE DEF c
  <2> QED
    BY <1>1, <1>3, <2>1, <2>2 DEF Settles, AutoCards
<1> QED
  BY <1>2, <1>3

(* releaseHold takes the deferred threshold or resets the draft. *)
LEMMA Released == ASSUME NEW s \in AutoCards PROVE Settles(s, releaseHold(s))
<1>1. CASE s.deferred # NoThreshold
  BY <1>1, Flushed DEF releaseHold
<1>2. CASE s.deferred = NoThreshold
  <2> DEFINE n == IF s.threshold.value > 0 THEN s.threshold.value ELSE s.lastEnabled
  <2>1. n \in Nat
    BY DEF AutoCards, Stamped
  <2>2. releaseHold(s) = [s EXCEPT !.draft = n]
    BY <1>2 DEF releaseHold
  <2> HIDE DEF n
  <2> QED
    BY <2>1, <2>2 DEF AutoCards, Settles
<1> QED
  BY <1>1, <1>2

(* Editing a card settles it as the card without the edit. *)
LEMMA Edited ==
    ASSUME NEW s \in AutoCards, NEW b \in BOOLEAN, NEW c \in BOOLEAN, NEW n \in Nat
    PROVE  /\ Settles(s, [s EXCEPT !.editing = b])
           /\ Settles(s, [s EXCEPT !.editing = b, !.cancelledDraft = c])
           /\ Settles(s, [s EXCEPT !.editing = b, !.cancelledDraft = c, !.draft = n])
           /\ Settles(s, [s EXCEPT !.cancelledDraft = c])
           /\ Settles(s, [s EXCEPT !.loadError = b])
BY DEF AutoCards, Settles

(* A card that was only edited settles what it was edited from. *)
LEMMA SettlesEdited ==
    ASSUME NEW s \in AutoCards, NEW e \in AutoCards, NEW new, Settles(e, new),
           e.threshold = s.threshold, e.deferred = s.deferred, e.revision = s.revision, e.saving = s.saving
    PROVE  Settles(s, new)
BY DEF Settles

(* A commit that writes nothing, and Escape, settle the card. *)
LEMMA Left ==
    ASSUME NEW s \in AutoCards
    PROVE  Settles(s, commitWithoutWrite(s)) /\ Settles(s, draftCancelled(s))
<1> DEFINE closed == [s EXCEPT !.editing = FALSE]
           cancelled == [s EXCEPT !.editing = FALSE, !.cancelledDraft = TRUE]
<1>1. /\ closed \in AutoCards /\ closed.threshold = s.threshold /\ closed.deferred = s.deferred
      /\ closed.revision = s.revision /\ closed.saving = s.saving
  BY DEF AutoCards
<1>2. /\ cancelled \in AutoCards /\ cancelled.threshold = s.threshold /\ cancelled.deferred = s.deferred
      /\ cancelled.revision = s.revision /\ cancelled.saving = s.saving
  BY DEF AutoCards
<1>3. draftCancelled(s) = releaseHold(cancelled)
  BY DEF draftCancelled
<1>4. \/ commitWithoutWrite(s) = [s EXCEPT !.cancelledDraft = FALSE]
      \/ commitWithoutWrite(s) = releaseHold(closed)
      \/ commitWithoutWrite(s) = flushHold(closed)
  BY DEF commitWithoutWrite
<1> HIDE DEF closed, cancelled
<1>5. /\ Settles(s, releaseHold(cancelled)) /\ Settles(s, releaseHold(closed))
      /\ Settles(s, flushHold(closed))
  BY <1>1, <1>2, Released, Flushed, SettlesEdited
<1>6. Settles(s, [s EXCEPT !.cancelledDraft = FALSE])
  BY Edited
<1> QED
  BY <1>3, <1>4, <1>5, <1>6

(* A read of another revision is ignored; one of this revision waits while the card saves  *)
(* or is edited, and is taken otherwise.                                                   *)
LEMMA ReadArrives ==
    ASSUME NEW s \in AutoCards, NEW t \in Stamped, NEW n \in Nat
    PROVE  LET new == acceptServerRead(s, t, n)
           IN  /\ new \in AutoCards /\ new.revision = s.revision /\ new.saving = s.saving
               /\ \/ new = s
                  \/ n = s.revision /\ new.threshold = s.threshold /\ new.deferred = t
                  \/ n = s.revision /\ ~s.saving /\ new.threshold = t /\ new.deferred = NoThreshold
<1> DEFINE c == confirmThreshold(s, t)
           held == [s EXCEPT !.loadError = FALSE, !.deferred = t]
           taken == [c EXCEPT !.loadError = FALSE, !.deferred = NoThreshold]
<1>1. c \in AutoCards /\ c.threshold = t /\ c.revision = s.revision /\ c.saving = s.saving
  BY Confirmed
<1>2. held \in AutoCards /\ held.threshold = s.threshold /\ held.deferred = t
      /\ held.revision = s.revision /\ held.saving = s.saving
  BY DEF AutoCards
<1> HIDE DEF c
<1>3. taken \in AutoCards /\ taken.threshold = t /\ taken.deferred = NoThreshold
      /\ taken.revision = s.revision /\ taken.saving = s.saving
  BY <1>1, NoThresholdType DEF AutoCards
<1>4. /\ n # s.revision => acceptServerRead(s, t, n) = s
      /\ n = s.revision /\ (s.editing \/ s.saving) => acceptServerRead(s, t, n) = held
      /\ n = s.revision /\ ~(s.editing \/ s.saving) => acceptServerRead(s, t, n) = taken
  BY DEF acceptServerRead, autoSwitchThresholdReadDisposition, c
<1> HIDE DEF held, taken
<1> QED
  BY <1>2, <1>3, <1>4

(* A failed read leaves the thresholds. *)
LEMMA ReadFails ==
    ASSUME NEW s \in AutoCards
    PROVE  LET new == rejectServerRead(s)
           IN  /\ new \in AutoCards /\ new.threshold = s.threshold /\ new.deferred = s.deferred
               /\ new.revision = s.revision /\ new.saving = s.saving
BY DEF rejectServerRead, AutoCards

(* A save begins: the revision moves on. *)
LEMMA SaveBegins ==
    ASSUME NEW s \in AutoCards
    PROVE  LET new == saveBegan(s)
           IN  /\ new \in AutoCards /\ new.threshold = s.threshold /\ new.deferred = s.deferred
               /\ new.revision = s.revision + 1 /\ new.saving = TRUE
<1> DEFINE n == s.revision + 1
<1>1. n \in Nat
  BY DEF AutoCards
<1>2. saveBegan(s) = [s EXCEPT !.saving = TRUE, !.editing = FALSE, !.revision = n]
  BY DEF saveBegan
<1> HIDE DEF n
<1>3. saveBegan(s) \in AutoCards /\ saveBegan(s).revision = n
  BY <1>1, <1>2 DEF AutoCards
<1>4. saveBegan(s).threshold = s.threshold /\ saveBegan(s).deferred = s.deferred /\ saveBegan(s).saving
  BY <1>2 DEF AutoCards
<1> QED
  BY <1>3, <1>4 DEF n

(* A save is accepted: its threshold is confirmed, what was held back is dropped. *)
LEMMA SaveAccepted ==
    ASSUME NEW s \in AutoCards, NEW t \in Stamped
    PROVE  LET new == saveAccepted(s, t)
           IN  /\ new \in AutoCards /\ new.threshold = t /\ new.deferred = NoThreshold
               /\ new.revision = s.revision + 1 /\ new.saving = FALSE
<1> DEFINE c == confirmThreshold(s, t)
           n == c.revision + 1
<1>1. c \in AutoCards /\ c.threshold = t /\ n = s.revision + 1 /\ n \in Nat
  BY Confirmed DEF AutoCards
<1>2. saveAccepted(s, t) = [c EXCEPT !.deferred = NoThreshold, !.revision = n, !.saving = FALSE]
  BY DEF saveAccepted
<1> HIDE DEF c, n
<1> QED
  BY <1>1, <1>2, NoThresholdType DEF AutoCards

(* A toggle that was accepted sets the value to restore. *)
LEMMA ToggleApplied ==
    ASSUME NEW s \in AutoCards, NEW plan \in [threshold : Nat, lastEnabled : Nat]
    PROVE  LET new == toggleApplied(s, plan)
           IN  /\ new \in AutoCards /\ new.threshold = s.threshold /\ new.deferred = s.deferred
               /\ new.revision = s.revision /\ new.saving = s.saving
<1> DEFINE n == plan.lastEnabled
           m == IF plan.threshold = 0 THEN n ELSE s.draft
<1>1. n \in Nat /\ m \in Nat
  BY DEF AutoCards
<1>2. toggleApplied(s, plan) = [s EXCEPT !.lastEnabled = n, !.draft = m]
  BY DEF toggleApplied
<1> HIDE DEF n, m
<1> QED
  BY <1>1, <1>2 DEF AutoCards

(* What a toggle means to write. *)
LEMMA TogglePlans ==
    ASSUME NEW s \in AutoCards PROVE planAutoSwitchToggleWrite(s) \in [threshold : Nat, lastEnabled : Nat]
<1> DEFINE n == IF s.draft # 0 THEN s.draft ELSE s.lastEnabled
<1>1. n \in Nat /\ s.lastEnabled \in Nat
  BY DEF AutoCards
<1>2. \/ planAutoSwitchToggleWrite(s) = [threshold |-> s.lastEnabled, lastEnabled |-> s.lastEnabled]
      \/ planAutoSwitchToggleWrite(s) = [threshold |-> 0, lastEnabled |-> n]
  BY DEF planAutoSwitchToggleWrite
<1> HIDE DEF n
<1> QED
  BY <1>1, <1>2

(* A save is rejected: the card goes back to what it had, or on to what was held back. *)
LEMMA SaveRejected ==
    ASSUME NEW s \in AutoCards, NEW t \in Stamped
    PROVE  LET new == saveRejected(s, t)
           IN  /\ new \in AutoCards /\ new.revision = s.revision + 1 /\ new.saving = FALSE
               /\ new.deferred = NoThreshold
               /\ new.threshold = IF s.deferred # NoThreshold THEN s.deferred ELSE t
<1> DEFINE c == IF s.deferred # NoThreshold THEN flushHold(s) ELSE confirmThreshold(s, t)
<1>1. /\ c \in AutoCards /\ c.deferred = NoThreshold
      /\ c.threshold = IF s.deferred # NoThreshold THEN s.deferred ELSE t
  BY Flushed, Confirmed DEF Settles
<1>2. s.revision + 1 \in Nat
  BY DEF AutoCards
<1>3. saveRejected(s, t) = [c EXCEPT !.revision = s.revision + 1, !.saving = FALSE]
  BY DEF saveRejected
<1> HIDE DEF c
<1> QED
  BY <1>1, <1>2, <1>3 DEF AutoCards

(* A mounted card is new, or seeded with what the pool read last. *)
LEMMA Hydrated ==
    ASSUME NEW t \in Stamped
    PROVE  LET new == hydrateServerValue(initialAutoSwitchState, t)
           IN  /\ new \in AutoCards /\ new.deferred = NoThreshold /\ new.revision = 0
               /\ new.saving = FALSE /\ new.threshold.at = t.at
<1>1. initialAutoSwitchState \in AutoCards
  BY FirstAuto
<1> HIDE DEF initialAutoSwitchState
<1> QED
  BY <1>1, FirstAuto, Confirmed, NoThresholdType DEF hydrateServerValue

(* A machine takes a read of its revision, unless it saves. *)
LEMMA ValuesArrive ==
    ASSUME NEW s \in Machines, NEW r \in Rotations, NEW n \in Nat, NEW at \in Nat
    PROVE  LET new == serverValuesArrived(s, r, at, n)
           IN  /\ new \in Machines /\ new.revision = s.revision
               /\ new.at = s.at \/ (n = s.revision /\ new.at = at)
BY DEF serverValuesArrived, adoptRotation, Machines

(* A failed read, the start of a write and its failure leave the version that is confirmed. *)
LEMMA MachineEdits ==
    ASSUME NEW s \in Machines
    PROVE  /\ LET new == serverReadFailed(s)
              IN  new \in Machines /\ new.revision = s.revision /\ new.at = s.at
           /\ LET new == writeStarted(s)
              IN  new \in Machines /\ new.revision = s.revision + 1 /\ new.at = s.at
           /\ LET new == writeRejected(s)
              IN  new \in Machines /\ new.revision = s.revision + 1 /\ new.at = s.at
           /\ LET new == [s EXCEPT !.heldRead = FALSE]
              IN  new \in Machines /\ new.revision = s.revision /\ new.at = s.at
<1> DEFINE n == s.revision + 1
<1>1. n \in Nat
  BY DEF Machines
<1>2. /\ writeStarted(s) = [s EXCEPT !.saving = TRUE, !.revision = n]
      /\ writeRejected(s) = [s EXCEPT !.visible = s.confirmed, !.saving = FALSE, !.revision = n]
  BY DEF writeStarted, writeRejected
<1> HIDE DEF n
<1>3. /\ writeStarted(s) \in Machines /\ writeStarted(s).revision = n /\ writeStarted(s).at = s.at
      /\ writeRejected(s) \in Machines /\ writeRejected(s).revision = n /\ writeRejected(s).at = s.at
  BY <1>1, <1>2 DEF Machines
<1>4. /\ serverReadFailed(s) \in Machines /\ serverReadFailed(s).revision = s.revision
      /\ serverReadFailed(s).at = s.at
  BY DEF serverReadFailed, Machines
<1>5. LET new == [s EXCEPT !.heldRead = FALSE]
      IN  new \in Machines /\ new.revision = s.revision /\ new.at = s.at
  BY DEF Machines
<1> QED
  BY <1>3, <1>4, <1>5 DEF n

(* An accepted write is confirmed. *)
LEMMA WriteAccepted ==
    ASSUME NEW s \in Machines, NEW r \in Rotations, NEW at \in Nat
    PROVE  LET new == writeAccepted(s, r, at)
           IN  new \in Machines /\ new.revision = s.revision + 1 /\ new.at = at
<1> DEFINE c == adoptRotation(s, r, at)
           n == c.revision + 1
<1>0. s.revision \in Nat
  BY DEF Machines
<1>1. c \in Machines /\ c.at = at /\ c.revision = s.revision
  BY DEF adoptRotation, Machines
<1>3. n = s.revision + 1 /\ n \in Nat
  BY <1>0, <1>1
<1>2. writeAccepted(s, r, at) = [c EXCEPT !.saving = FALSE, !.revision = n]
  BY DEF writeAccepted
<1> HIDE DEF c, n
<1> QED
  BY <1>1, <1>2, <1>3 DEF Machines

(* A new machine has read nothing. *)
LEMMA FirstMachine ==
    /\ DEFAULT_POOL_ROTATION \in Rotations
    /\ INITIAL_POOL_ROTATION_STATE \in Machines /\ INITIAL_POOL_ROTATION_STATE.at = 0
    /\ INITIAL_POOL_ROTATION_STATE.revision = 0
BY RotationAssumption DEF DEFAULT_POOL_ROTATION, Rotation, Rotations, INITIAL_POOL_ROTATION_STATE, Machines

-----------------------------------------------------------------------------
(* The type of every variable. *)

AnyServers ==
    [version : Nat, listed : SUBSET Accounts, paused : SUBSET Accounts, active : Ids, pinned : Ids,
     threshold : Nat, rotation : Rotations]
AnyViews == [version : Nat, active : Ids, pinned : Ids, threshold : Nat, rotation : Rotations]
Settlements == {"sent", "ok", "failed"}
LoadRecords ==
    [gen : Nat, list : Settlements, active : Settlements, view : AnyViews, autoRevision : Nat,
     rotRevision : Nat, autoMount : Nat, rotMount : Nat]
WriteRecords == [kind : Kinds, id : Accounts, landed : AnyViews, pausedIds : SUBSET Accounts]
Markers == Accounts \cup {Unset}
MaybeIds == Ids \cup {Unset}
PoolRecords ==
    [generation : Nat, pendingActive : MaybeIds, switchTarget : Markers, pause : Markers,
     priority : Markers, hasLoaded : BOOLEAN, lastActive : AnyViews, newest : [gen : Nat, version : Nat],
     activeId : Ids, pinnedId : Ids, phase : {"loading", "ready", "error"},
     firstAttemptSettled : BOOLEAN, inflight : Int]
Plans == [threshold : Nat, lastEnabled : Nat]
Puts == [waiting : BOOLEAN, plan : Plans, toggle : BOOLEAN, previous : Stamped, landed : Nat]
Patches ==
    [waiting : BOOLEAN, rotation : Rotations, moved : {"none", "strategy", "stickyLimit"}, landed : AnyViews]
RotationCards == [state : Machines, mirror : Nat, accepted : Nat]
OwnReads == [revision : Nat, mount : Nat, view : AnyViews]

PageType ==
    /\ server \in AnyServers /\ pool \in PoolRecords /\ loads \subseteq LoadRecords
    /\ writes \subseteq WriteRecords /\ auto \in AutoCards /\ put \in Puts /\ late \subseteq Nat
    /\ rot \in RotationCards /\ patch \in Patches /\ gets \subseteq OwnReads
    /\ mounts \in [auto : Nat, rotation : Nat]

(* The threshold that stands for an answer without a body. *)
EmptyThreshold == Threshold(DefaultThreshold, 0)

(* What was read is no newer than the proxy, and is its state when it is as new. *)
Seen(v) == v.version <= server.version /\ (v.version = server.version => v = View(server))

LoadsInv ==
    /\ server.version >= 1
    /\ \A l \in loads : 1 <= l.gen /\ l.gen <= pool.generation /\ Seen(l.view)
    /\ \A l, m \in loads : l.gen = m.gen => l = m
    /\ Seen(pool.lastActive)

(* What the page shows of the newest load that came in, while no later one was started. *)
Reconciled(p) ==
    /\ p.pinnedId = p.lastActive.pinned /\ p.lastActive.version = p.newest.version
    /\ p.activeId = p.lastActive.active \/ p.pendingActive # Unset

NewestInv ==
    /\ pool.newest.gen <= pool.generation
    /\ \A l \in loads : l.active = "sent" => l.gen # pool.newest.gen
    /\ pool.pendingActive # Unset => pool.activeId = pool.pendingActive
    /\ pool.newest.gen = pool.generation => Reconciled(pool)

(* A read the card may still take is no older than what it holds or holds back. *)
Taking(l) ==
    /\ l.gen = pool.generation /\ l.active = "sent" /\ l.view # NoView
    /\ l.autoMount = mounts.auto /\ l.autoRevision = auto.revision

ThresholdInv ==
    /\ auto.threshold.at <= server.version
    /\ auto.deferred # NoThreshold =>
          /\ auto.threshold.at <= auto.deferred.at \/ auto.deferred = EmptyThreshold
          /\ auto.deferred.at <= server.version
    /\ auto.saving = put.waiting
    /\ put.waiting => put.previous = auto.threshold
    /\ put.landed # 0 =>
          put.waiting /\ auto.threshold.at <= put.landed /\ put.landed <= server.version
    /\ \A l \in loads : /\ l.autoMount <= mounts.auto
                        /\ l.autoMount = mounts.auto => l.autoRevision <= auto.revision
    /\ \A l \in loads : Taking(l) =>
          l.view.version >= auto.threshold.at /\ l.view.version >= auto.deferred.at

RotationInv ==
    /\ rot.accepted <= rot.state.at /\ rot.state.at <= server.version
    /\ rot.mirror <= rot.state.revision /\ patch.landed.version <= server.version
    /\ \A l \in loads :
          /\ l.rotMount <= mounts.rotation
          /\ l.rotMount = mounts.rotation => l.rotRevision <= rot.state.revision
          /\ l.view # NoView /\ l.rotMount = mounts.rotation /\ l.rotRevision = rot.state.revision =>
                l.view.version >= rot.accepted
    /\ \A g \in gets :
          /\ g.mount <= mounts.rotation
          /\ g.mount = mounts.rotation => g.revision <= rot.state.revision
          /\ g.view.version <= server.version
          /\ g.view # NoView /\ g.mount = mounts.rotation /\ g.revision = rot.state.revision =>
                g.view.version >= rot.accepted

PageInv == PageType /\ LoadsInv /\ NewestInv /\ ThresholdInv /\ RotationInv

(* What ThresholdNeverOlder says of a step. *)
NotOlder ==
    mounts' = mounts => auto'.threshold.at >= auto.threshold.at \/ auto'.threshold = EmptyThreshold

-----------------------------------------------------------------------------
(* What the types say about single values. *)
PageValues ==
    /\ server.version \in Nat /\ pool.generation \in Nat /\ pool.newest.gen \in Nat
    /\ auto.revision \in Nat /\ auto.threshold.at \in Nat /\ auto.deferred.at \in Nat
    /\ auto.threshold \in Stamped /\ auto.deferred \in Stamped
    /\ put.landed \in Nat /\ rot.accepted \in Nat /\ rot.mirror \in Nat
    /\ rot.state \in Machines /\ rot.state.at \in Nat /\ rot.state.revision \in Nat
    /\ mounts.auto \in Nat /\ mounts.rotation \in Nat /\ pool.lastActive \in AnyViews
    /\ patch.landed \in AnyViews /\ patch.landed.version \in Nat
    /\ \A l \in loads : /\ l.gen \in Nat /\ l.view \in AnyViews /\ l.view.version \in Nat
                        /\ l.autoRevision \in Nat /\ l.rotRevision \in Nat
                        /\ l.autoMount \in Nat /\ l.rotMount \in Nat
    /\ \A g \in gets : /\ g.view \in AnyViews /\ g.view.version \in Nat
                       /\ g.revision \in Nat /\ g.mount \in Nat

(* The types give the single values. *)
LEMMA TypeGivesValues == (PageType => PageValues) /\ (PageType' => PageValues')
<1>1. PageType => PageValues
  <2> SUFFICES ASSUME PageType PROVE PageValues
    OBVIOUS
  <2>1. /\ server.version \in Nat /\ pool.generation \in Nat /\ pool.newest.gen \in Nat
        /\ pool.lastActive \in AnyViews /\ mounts.auto \in Nat /\ mounts.rotation \in Nat
    BY DEF PageType, AnyServers, PoolRecords
  <2>2. /\ auto.revision \in Nat /\ auto.threshold \in Stamped /\ auto.deferred \in Stamped
        /\ auto.threshold.at \in Nat /\ auto.deferred.at \in Nat
    BY DEF PageType, AutoCards, Stamped
  <2>3. /\ put.landed \in Nat /\ rot.accepted \in Nat /\ rot.mirror \in Nat /\ rot.state \in Machines
        /\ rot.state.at \in Nat /\ rot.state.revision \in Nat
    BY DEF PageType, Puts, RotationCards, Machines
  <2>4. patch.landed \in AnyViews /\ patch.landed.version \in Nat
    BY DEF PageType, Patches, AnyViews
  <2>5. \A l \in loads : /\ l.gen \in Nat /\ l.view \in AnyViews /\ l.view.version \in Nat
                         /\ l.autoRevision \in Nat /\ l.rotRevision \in Nat
                         /\ l.autoMount \in Nat /\ l.rotMount \in Nat
    BY DEF PageType, LoadRecords, AnyViews
  <2>6. \A g \in gets : /\ g.view \in AnyViews /\ g.view.version \in Nat
                        /\ g.revision \in Nat /\ g.mount \in Nat
    BY DEF PageType, OwnReads, AnyViews
  <2> QED
    BY <2>1, <2>2, <2>3, <2>4, <2>5, <2>6 DEF PageValues
<1> QED
  BY <1>1, PTL

(* A view is what the proxy's state shows, and carries its version. *)
LEMMA ViewType ==
    ASSUME NEW s \in AnyServers
    PROVE  /\ View(s) \in AnyViews /\ View(s).version = s.version /\ View(s).pinned = s.pinned
           /\ View(s).active = ActiveView(s)
BY DEF View, AnyViews, AnyServers, ActiveView, Ids

(* The first state of the proxy, and the view of nothing. *)
LEMMA FirstViews ==
    /\ FirstServer \in AnyServers /\ FirstServer.version = 1
    /\ NoView \in AnyViews /\ NoView.version = 0 /\ NoView.active = Null /\ NoView.pinned = Null
<1>1. NoServer \in AnyServers /\ NoServer.version = 0 /\ NoServer.active = Null /\ NoServer.pinned = Null
  BY FirstMachine DEF NoServer, AnyServers, Ids
<1>2. FirstServer \in AnyServers /\ FirstServer.version = 1
  <2>1. DefaultThreshold \in Nat /\ 1 \in Nat /\ Accounts \in SUBSET Accounts
    BY ThresholdAssumption
  <2> HIDE DEF NoServer
  <2> QED
    BY <1>1, <2>1 DEF FirstServer, AnyServers
<1> QED
  BY <1>1, <1>2, ViewType DEF NoView, ActiveView

(* What an answer without a body says: no account, no pin, and the default of no version. *)
LEMMA EmptyValues ==
    /\ EmptyView \in AnyViews /\ EmptyView.version = 0
    /\ EmptyThreshold \in Stamped /\ EmptyThreshold.at = 0
    /\ Threshold(EmptyView.threshold, EmptyView.version) = EmptyThreshold
<1>1. NoView \in AnyViews /\ NoView.version = 0 /\ DefaultThreshold \in Nat
  BY FirstViews, ThresholdAssumption
<1>2. EmptyThreshold \in Stamped /\ EmptyThreshold.at = 0
  BY <1>1 DEF EmptyThreshold, Threshold, Stamped
<1> HIDE DEF NoView
<1>3. EmptyView \in AnyViews /\ EmptyView.version = 0 /\ EmptyView.threshold = DefaultThreshold
  BY <1>1 DEF EmptyView, AnyViews
<1> QED
  BY <1>2, <1>3 DEF EmptyThreshold

-----------------------------------------------------------------------------
(* The invariant under each kind of step, told by what the step changes. *)

(* The proxy changes, and what landed there may come to be known to its writer. *)
LEMMA ServerStep ==
    ASSUME PageInv, PageType', server'.version = server.version + 1,
           UNCHANGED <<pool, loads, auto, rot, gets, mounts>>,
           put'.waiting = put.waiting, put'.previous = put.previous,
           put'.landed = put.landed \/ (put.waiting /\ put'.landed = server'.version),
           patch'.landed.version <= server'.version
    PROVE  PageInv' /\ NotOlder
<1>1. PageValues /\ PageValues'
  BY TypeGivesValues DEF PageInv
<1>2. \A v \in AnyViews : v.version \in Nat /\ (Seen(v) => Seen(v)')
  BY <1>1 DEF Seen, AnyViews, PageValues
<1>3. LoadsInv'
  <2>1. (\A l \in loads : Seen(l.view)') /\ Seen(pool.lastActive)'
    BY <1>1, <1>2 DEF PageInv, LoadsInv, PageValues
  <2> QED
    BY <1>1, <2>1 DEF PageInv, LoadsInv, PageValues
<1>4. NewestInv'
  BY DEF PageInv, NewestInv, Reconciled
<1>5. ThresholdInv'
  BY <1>1 DEF PageInv, ThresholdInv, Taking, PageValues
<1>6. RotationInv'
  BY <1>1 DEF PageInv, RotationInv, PageValues
<1>7. NotOlder
  BY <1>1 DEF NotOlder, PageValues
<1> QED
  BY <1>3, <1>4, <1>5, <1>6, <1>7 DEF PageInv

(* The controller is marked, or a load of it ends: the loads are some of those that were,  *)
(* or were answered with the present state, or ended; the cards may be told of a failure.  *)
LEMMA LoadsStep ==
    ASSUME PageInv, PageType', UNCHANGED <<server, put, patch, gets, mounts>>,
           auto'.threshold = auto.threshold, auto'.deferred = auto.deferred,
           auto'.revision = auto.revision, auto'.saving = auto.saving,
           rot'.accepted = rot.accepted, rot'.mirror = rot.mirror,
           rot'.state.revision = rot.state.revision, rot'.state.at = rot.state.at,
           \A l \in loads' : \E m \in loads :
               /\ m.gen = l.gen /\ m.autoRevision = l.autoRevision /\ m.rotRevision = l.rotRevision
               /\ m.autoMount = l.autoMount /\ m.rotMount = l.rotMount
               /\ l.view \in {m.view, View(server)} /\ (l.active = "sent" => m.active = "sent"),
           \A l, m \in loads' : l.gen = m.gen => l = m,
           pool'.generation = pool.generation, pool'.newest = pool.newest,
           pool'.pendingActive = pool.pendingActive, pool'.activeId = pool.activeId,
           pool'.pinnedId = pool.pinnedId, pool'.lastActive = pool.lastActive
    PROVE  PageInv' /\ NotOlder
<1>1. PageValues /\ PageValues' /\ View(server).version = server.version /\ Seen(View(server))
  BY TypeGivesValues, ViewType DEF PageInv, PageType, Seen, PageValues
<1>2. \A v : Seen(v)' <=> Seen(v)
  BY DEF Seen
<1>3. LoadsInv'
  BY <1>1, <1>2 DEF PageInv, LoadsInv, PageValues
<1>4. NewestInv'
  BY DEF PageInv, NewestInv, Reconciled
<1>5. ThresholdInv'
  BY <1>1, NoThresholdType DEF PageInv, ThresholdInv, Taking, PageValues
<1>6. RotationInv'
  BY <1>1 DEF PageInv, RotationInv, PageValues
<1>7. NotOlder
  BY <1>1 DEF NotOlder, PageValues
<1> QED
  BY <1>3, <1>4, <1>5, <1>6, <1>7 DEF PageInv

(* A load is started, by itself or by a mutation that was accepted. *)
LEMMA LoadStarts ==
    ASSUME PageInv, PageType', UNCHANGED <<server, put, rot, patch, gets, mounts>>,
           auto'.threshold = auto.threshold, auto'.deferred = auto.deferred,
           auto'.revision = auto.revision, auto'.saving = auto.saving,
           pool'.generation = pool.generation + 1, pool'.newest = pool.newest,
           pool'.lastActive = pool.lastActive,
           pool'.pendingActive # Unset => pool'.activeId = pool'.pendingActive,
           NEW n \in LoadRecords, loads' = loads \cup {n}, n.gen = pool.generation + 1, n.view = NoView,
           n.autoRevision = auto.revision, n.autoMount = mounts.auto,
           n.rotRevision = rot.mirror, n.rotMount = mounts.rotation
    PROVE  PageInv' /\ NotOlder
<1>1. PageValues /\ PageValues' /\ NoView.version = 0
  BY TypeGivesValues, FirstViews DEF PageInv
<1>2. \A v : Seen(v)' <=> Seen(v)
  BY DEF Seen
<1>3. Seen(NoView)
  BY <1>1 DEF PageInv, LoadsInv, Seen, PageValues
<1>4. LoadsInv'
  BY <1>1, <1>2, <1>3 DEF PageInv, LoadsInv, PageValues
<1>5. NewestInv'
  BY <1>1 DEF PageInv, NewestInv, LoadsInv, PageValues
<1>6. ThresholdInv'
  <2>1. \A l \in loads' : ~Taking(l)'
    BY <1>1 DEF PageInv, LoadsInv, Taking, PageValues
  <2> QED
    BY <1>1, <2>1 DEF PageInv, ThresholdInv, PageValues
<1>7. RotationInv'
  BY <1>1 DEF PageInv, RotationInv, PageValues
<1>8. NotOlder
  BY <1>1 DEF NotOlder, PageValues
<1> QED
  BY <1>4, <1>5, <1>6, <1>7, <1>8 DEF PageInv

(* The read of the newest load comes in, and its body says v, or nothing. *)
LEMMA ReadComesIn ==
    ASSUME PageInv, PageType', UNCHANGED <<server, put, patch, gets, mounts>>,
           NEW l \in loads, l.gen = pool.generation, l.active = "sent", l.view # NoView,
           NEW v \in {l.view, EmptyView}, NEW t \in Stamped, t.at = v.version,
           v = EmptyView => t = EmptyThreshold,
           \A m \in loads' :
               \/ m \in loads /\ m.gen # l.gen
               \/ /\ m.gen = l.gen /\ m.active # "sent" /\ m.view = l.view
                  /\ m.autoRevision = l.autoRevision /\ m.rotRevision = l.rotRevision
                  /\ m.autoMount = l.autoMount /\ m.rotMount = l.rotMount,
           \A k, m \in loads' : k.gen = m.gen => k = m,
           pool'.generation = pool.generation, pool'.lastActive = v,
           l.gen > pool.newest.gen =>
               pool'.newest.gen = l.gen /\ pool'.newest.version = v.version,
           pool'.pinnedId = v.pinned,
           IF pool.pendingActive = Unset \/ v.active = pool.pendingActive
           THEN pool'.pendingActive = Unset /\ pool'.activeId = v.active
           ELSE pool'.pendingActive = pool.pendingActive /\ pool'.activeId = pool.activeId,
           auto'.revision = auto.revision, auto'.saving = auto.saving,
           \/ auto' = auto
           \/ /\ l.autoMount = mounts.auto /\ l.autoRevision = auto.revision
              /\ auto'.threshold = auto.threshold /\ auto'.deferred = t
           \/ /\ l.autoMount = mounts.auto /\ l.autoRevision = auto.revision /\ ~auto.saving
              /\ auto'.threshold = t /\ auto'.deferred = NoThreshold,
           rot'.accepted = rot.accepted, rot'.mirror = rot.mirror,
           rot'.state.revision = rot.state.revision,
           \/ rot'.state.at = rot.state.at
           \/ /\ l.rotMount = mounts.rotation /\ l.rotRevision = rot.state.revision
              /\ rot'.state.at = l.view.version
    PROVE  PageInv' /\ NotOlder
<1>1. PageValues /\ PageValues' /\ l.view.version <= server.version
  BY TypeGivesValues DEF PageInv, LoadsInv, Seen
<1>10. Seen(v) /\ v.version \in Nat /\ v.version <= server.version
  BY <1>1, EmptyValues DEF PageInv, LoadsInv, Seen, PageValues
<1>11. t.at \in Nat /\ (t = EmptyThreshold \/ t.at = l.view.version)
  BY <1>10
<1>2. \A w : Seen(w)' <=> Seen(w)
  BY DEF Seen
<1>3. LoadsInv'
  BY <1>1, <1>2, <1>10 DEF PageInv, LoadsInv, PageValues
<1>4. NewestInv'
  <2>1. l.gen > pool.newest.gen
    BY <1>1 DEF PageInv, NewestInv, PageValues
  <2>2. pool'.newest.gen = l.gen /\ pool'.newest.version = v.version
    BY <2>1
  <2>3. \A m \in loads' : m.active = "sent" => m.gen # pool'.newest.gen
    BY <2>2
  <2>4. /\ pool'.pendingActive # Unset => pool'.activeId = pool'.pendingActive
        /\ pool'.activeId = v.active \/ pool'.pendingActive # Unset
    BY DEF PageInv, NewestInv
  <2> QED
    BY <1>1, <2>2, <2>3, <2>4 DEF NewestInv, Reconciled, PageValues
<1>5. Taking(l) \/ l.autoMount # mounts.auto \/ l.autoRevision # auto.revision
  BY DEF Taking
<1>6. \A m \in loads' : ~Taking(m)'
  BY DEF Taking
<1>7. ThresholdInv'
  BY <1>1, <1>5, <1>6, <1>10, <1>11, NoThresholdType, EmptyValues
     DEF PageInv, ThresholdInv, PageValues
<1>8. RotationInv'
  BY <1>1 DEF PageInv, RotationInv, PageValues
<1>9. NotOlder
  BY <1>1, <1>5, <1>10, <1>11 DEF PageInv, ThresholdInv, NotOlder, PageValues
<1> QED
  BY <1>3, <1>4, <1>7, <1>8, <1>9 DEF PageInv

(* The card settles: it keeps its threshold, or takes the one it held back while it does   *)
(* not save.                                                                               *)
LEMMA AutoSettles ==
    ASSUME PageInv, PageType', UNCHANGED <<server, pool, loads, put, rot, patch, gets, mounts>>,
           Settles(auto, auto'), auto'.threshold = auto.threshold \/ ~auto.saving
    PROVE  PageInv' /\ NotOlder
<1>1. PageValues /\ PageValues'
  BY TypeGivesValues DEF PageInv
<1>2. LoadsInv' /\ NewestInv'
  BY DEF PageInv, LoadsInv, NewestInv, Reconciled, Seen
<1>3. ThresholdInv'
  BY <1>1, NoThresholdType DEF PageInv, ThresholdInv, Settles, Taking, PageValues
<1>4. RotationInv'
  BY DEF PageInv, RotationInv
<1>5. NotOlder
  BY <1>1 DEF PageInv, ThresholdInv, Settles, NotOlder, PageValues
<1> QED
  BY <1>2, <1>3, <1>4, <1>5 DEF PageInv

(* A save begins or ends: no read that is under way is taken any more. *)
LEMMA SaveStep ==
    ASSUME PageInv, PageType', UNCHANGED <<server, pool, loads, rot, patch, gets, mounts>>,
           auto'.revision = auto.revision + 1,
           auto'.threshold.at >= auto.threshold.at \/ auto'.threshold = EmptyThreshold,
           auto'.threshold.at <= server.version,
           \/ /\ auto'.threshold = auto.threshold /\ auto'.deferred = auto.deferred /\ auto'.saving
              /\ put'.waiting /\ put'.previous = auto.threshold /\ put'.landed = 0
           \/ auto'.deferred = NoThreshold /\ ~auto'.saving /\ ~put'.waiting /\ put'.landed = 0
    PROVE  PageInv' /\ NotOlder
<1>1. PageValues /\ PageValues'
  BY TypeGivesValues DEF PageInv
<1>2. LoadsInv' /\ NewestInv'
  BY DEF PageInv, LoadsInv, NewestInv, Reconciled, Seen
<1>3. \A l \in loads' : ~Taking(l)'
  BY <1>1 DEF PageInv, ThresholdInv, Taking, PageValues
<1>4. auto'.saving = put'.waiting
  BY <1>1, <1>3 DEF PageType, PageInv, AutoCards, Puts
<1>5. ThresholdInv'
  BY <1>1, <1>3, <1>4 DEF PageInv, ThresholdInv, PageValues
<1>6. RotationInv'
  BY DEF PageInv, RotationInv
<1> QED
  BY <1>2, <1>5, <1>6 DEF PageInv, NotOlder

(* The auto-switch card is mounted again. *)
LEMMA AutoMounts ==
    ASSUME PageInv, PageType', UNCHANGED <<server, pool, loads, rot, patch, gets>>,
           mounts'.auto = mounts.auto + 1, mounts'.rotation = mounts.rotation,
           auto'.threshold.at <= server.version, auto'.deferred = NoThreshold,
           auto'.saving = FALSE, put'.waiting = FALSE, put'.landed = 0
    PROVE  PageInv' /\ NotOlder
<1>1. PageValues /\ PageValues'
  BY TypeGivesValues DEF PageInv
<1>2. LoadsInv' /\ NewestInv'
  BY DEF PageInv, LoadsInv, NewestInv, Reconciled, Seen
<1>3. \A l \in loads' : l.autoMount <= mounts.auto /\ l.autoMount # mounts'.auto
  BY <1>1 DEF PageInv, ThresholdInv, PageValues
<1>4. ThresholdInv'
  <2>1. \A l \in loads' : ~Taking(l)'
    BY <1>3 DEF Taking
  <2>2. \A l \in loads' : l.autoMount <= mounts'.auto
    BY <1>1, <1>3 DEF PageValues
  <2>3. auto'.saving = put'.waiting /\ ~put'.waiting
    OBVIOUS
  <2> QED
    BY <1>3, <2>1, <2>2, <2>3 DEF ThresholdInv
<1>5. RotationInv'
  BY DEF PageInv, RotationInv
<1>6. NotOlder
  BY <1>1 DEF NotOlder, PageValues
<1> QED
  BY <1>2, <1>4, <1>5, <1>6 DEF PageInv

(* A step of the rotation card: its revision moves on whenever another write is accepted.  *)
LEMMA RotationStep ==
    ASSUME PageInv, PageType', UNCHANGED <<server, pool, loads, auto, put, mounts>>,
           rot'.state.revision >= rot.state.revision, rot'.mirror <= rot'.state.revision,
           rot'.accepted <= rot'.state.at, rot'.state.at <= server.version,
           rot'.accepted = rot.accepted \/ rot'.state.revision > rot.state.revision,
           patch'.landed.version <= server.version,
           \A g \in gets' :
               \/ \E h \in gets : /\ g.mount = h.mount /\ g.revision = h.revision
                                  /\ g.view \in {h.view, View(server)}
               \/ g.mount = mounts.rotation /\ g.revision = rot'.state.revision /\ g.view = NoView
    PROVE  PageInv' /\ NotOlder
<1>1. /\ PageValues /\ PageValues' /\ View(server).version = server.version /\ NoView.version = 0
  BY TypeGivesValues, ViewType, FirstViews DEF PageInv, PageType
<1>2. LoadsInv' /\ NewestInv' /\ ThresholdInv'
  BY DEF PageInv, LoadsInv, NewestInv, ThresholdInv, Reconciled, Seen, Taking
<1>3. \A l \in loads' :
          /\ l.rotMount <= mounts.rotation
          /\ l.rotMount = mounts.rotation => l.rotRevision <= rot'.state.revision
          /\ l.view # NoView /\ l.rotMount = mounts.rotation /\ l.rotRevision = rot'.state.revision =>
                l.view.version >= rot'.accepted
  BY <1>1 DEF PageInv, RotationInv, PageValues
<1>4. ASSUME NEW g \in gets'
      PROVE  /\ g.mount <= mounts.rotation
             /\ g.mount = mounts.rotation => g.revision <= rot'.state.revision
             /\ g.view.version <= server.version
             /\ g.view # NoView /\ g.mount = mounts.rotation /\ g.revision = rot'.state.revision =>
                   g.view.version >= rot'.accepted
  <2>1. CASE g.mount = mounts.rotation /\ g.revision = rot'.state.revision /\ g.view = NoView
    BY <1>1, <2>1 DEF PageValues
  <2>2. ASSUME NEW h \in gets, g.mount = h.mount, g.revision = h.revision, g.view \in {h.view, View(server)}
        PROVE  /\ g.mount <= mounts.rotation
               /\ g.mount = mounts.rotation => g.revision <= rot'.state.revision
               /\ g.view.version <= server.version
               /\ g.view # NoView /\ g.mount = mounts.rotation /\ g.revision = rot'.state.revision =>
                     g.view.version >= rot'.accepted
    BY <1>1, <2>2 DEF PageInv, RotationInv, PageValues
  <2> QED
    BY <2>1, <2>2
<1>5. RotationInv'
  BY <1>3, <1>4 DEF RotationInv
<1>6. NotOlder
  BY <1>1 DEF NotOlder, PageValues
<1> QED
  BY <1>2, <1>5, <1>6 DEF PageInv

(* The rotation card is mounted again. *)
LEMMA RotationMounts ==
    ASSUME PageInv, PageType', UNCHANGED <<server, pool, loads, auto, put, gets>>,
           patch'.landed.version <= server.version, mounts'.rotation = mounts.rotation + 1, mounts'.auto = mounts.auto,
           rot'.mirror = 0, rot'.accepted = 0, rot'.state.at <= server.version
    PROVE  PageInv' /\ NotOlder
<1>1. PageValues /\ PageValues'
  BY TypeGivesValues DEF PageInv
<1>2. LoadsInv' /\ NewestInv' /\ ThresholdInv'
  BY DEF PageInv, LoadsInv, NewestInv, ThresholdInv, Reconciled, Seen, Taking
<1>3. /\ \A l \in loads' : l.rotMount <= mounts.rotation /\ l.rotMount # mounts'.rotation
      /\ \A g \in gets' : /\ g.mount <= mounts.rotation /\ g.mount # mounts'.rotation
                          /\ g.view.version <= server.version
  BY <1>1 DEF PageInv, RotationInv, PageValues
<1>4. RotationInv'
  BY <1>1, <1>3 DEF PageInv, RotationInv, PageValues
<1>5. NotOlder
  BY <1>1 DEF NotOlder, PageValues
<1> QED
  BY <1>2, <1>4, <1>5 DEF PageInv

-----------------------------------------------------------------------------
(* The actions.  First the proxy, whose every change has the next version. *)

(* Changed gives the proxy's next state its version. *)
LEMMA ChangedType ==
    ASSUME PageType, NEW s \in AnyServers
    PROVE  Changed(s) \in AnyServers /\ Changed(s).version = server.version + 1
<1> DEFINE n == server.version + 1
<1>1. n \in Nat
  BY TypeGivesValues DEF PageValues
<1>2. Changed(s) = [s EXCEPT !.version = n]
  BY DEF Changed
<1> HIDE DEF n
<1> QED
  BY <1>1, <1>2 DEF AnyServers, n

(* A mutation leaves a state of the proxy. *)
LEMMA AppliedType ==
    ASSUME PageType, NEW w \in WriteRecords
    PROVE  Applied(w) \in AnyServers
<1>1. /\ server \in AnyServers /\ w.kind \in Kinds /\ w.id \in Accounts /\ w.id \in Ids /\ Null \in Ids
      /\ server.listed \in SUBSET Accounts
  BY DEF PageType, WriteRecords, Ids, AnyServers
<1>2. ASSUME NEW s \in AnyServers, NEW ids PROVE Unpinned(s, ids) \in AnyServers
  BY <1>1 DEF Unpinned, AnyServers
<1>3. CASE w.kind = "switch"
  BY <1>1, <1>3 DEF Applied, AnyServers
<1>4. CASE w.kind = "pause"
  <2>1. [server EXCEPT !.paused = @ \cup {w.id}] \in AnyServers
    BY <1>1 DEF AnyServers
  <2> QED
    BY <1>2, <1>4, <2>1 DEF Applied
<1>5. CASE w.kind = "resume"
  BY <1>1, <1>5 DEF Applied, AnyServers
<1>6. CASE w.kind = "bulk"
  <2>1. [server EXCEPT !.paused = server.listed] \in AnyServers
    BY <1>1 DEF AnyServers
  <2> QED
    BY <1>2, <1>6, <2>1 DEF Applied
<1>7. CASE w.kind = "priority"
  BY <1>1, <1>7 DEF Applied, AnyServers
<1>8. CASE w.kind = "alias"
  BY <1>1, <1>8 DEF Applied
<1>9. CASE w.kind = "remove"
  BY <1>1, <1>9 DEF Applied, AnyServers
<1> QED
  BY <1>1, <1>3, <1>4, <1>5, <1>6, <1>7, <1>8, <1>9 DEF Kinds

(* Another tab writes a setting. *)
LEMMA OtherTabKeeps == ASSUME PageInv, OtherThreshold \/ OtherRotation PROVE PageInv' /\ NotOlder
<1>1. PageType /\ PageValues /\ server \in AnyServers
  BY TypeGivesValues DEF PageInv, PageType
<1>2. PICK s \in AnyServers : OtherTab(s)
  <2>1. CASE OtherThreshold
    <3>1. \A t \in 0 .. MaxThreshold : [server EXCEPT !.threshold = t] \in AnyServers
      BY <1>1 DEF AnyServers
    <3> QED
      BY <2>1, <3>1 DEF OtherThreshold
  <2>2. CASE OtherRotation
    <3>1. \A r \in Rotations : [server EXCEPT !.rotation = r] \in AnyServers
      BY <1>1 DEF AnyServers
    <3> QED
      BY <2>2, <3>1 DEF OtherRotation
  <2> QED
    BY <2>1, <2>2
<1>3. server' \in AnyServers /\ server'.version = server.version + 1
  BY <1>1, <1>2, ChangedType DEF OtherTab
<1>4. UNCHANGED <<pool, loads, writes, auto, put, late, rot, patch, gets, mounts>>
  BY <1>2 DEF OtherTab, cards
<1>5. PageType'
  BY <1>1, <1>3, <1>4 DEF PageType
<1>6. patch'.landed.version <= server'.version
  BY <1>1, <1>3, <1>4 DEF PageInv, RotationInv, PageValues
<1> QED
  BY <1>3, <1>4, <1>5, <1>6, ServerStep

(* A mutation reaches the proxy. *)
LEMMA MutationLandsKeeps ==
    ASSUME PageInv, NEW w \in writes, MutationLands(w) PROVE PageInv' /\ NotOlder
<1>1. PageType /\ PageValues /\ server \in AnyServers /\ w \in WriteRecords
  BY TypeGivesValues DEF PageInv, PageType
<1>2. server' \in AnyServers /\ server'.version = server.version + 1
  BY <1>1, AppliedType, ChangedType DEF MutationLands
<1>3. View(server') \in AnyViews /\ server'.paused \ server.paused \in SUBSET Accounts
  BY <1>1, <1>2, ViewType DEF AnyServers
<1> DEFINE v == View(server')
           ids == server'.paused \ server.paused
           x == [w EXCEPT !.landed = v, !.pausedIds = ids]
<1>4. writes' = (writes \ {w}) \cup {x}
  BY DEF MutationLands
<1>5. v \in AnyViews /\ ids \in SUBSET Accounts
  BY <1>3
<1> HIDE DEF v, ids
<1>6. x \in WriteRecords
  BY <1>1, <1>5 DEF WriteRecords
<1> HIDE DEF x
<1>7. UNCHANGED <<pool, loads, auto, put, late, rot, patch, gets, mounts>>
  BY DEF MutationLands, cards
<1>8. PageType'
  BY <1>1, <1>2, <1>4, <1>6, <1>7 DEF PageType
<1>9. patch'.landed.version <= server'.version
  BY <1>1, <1>2, <1>7 DEF PageInv, RotationInv, PageValues
<1> QED
  BY <1>2, <1>7, <1>8, <1>9, ServerStep

(* The threshold's PUT lands, in time or late. *)
LEMMA PutLandsKeeps ==
    ASSUME PageInv, PutLands \/ \E t \in late : LatePutLands(t) PROVE PageInv' /\ NotOlder
<1>1. PageType /\ PageValues /\ server \in AnyServers /\ put \in Puts /\ late \subseteq Nat
  BY TypeGivesValues DEF PageInv, PageType
<1>2. \A t \in Nat : [server EXCEPT !.threshold = t] \in AnyServers
  BY <1>1 DEF AnyServers
<1>3. CASE PutLands
  <2>1. put.plan.threshold \in Nat
    BY <1>1 DEF Puts, Plans
  <2>2. server' \in AnyServers /\ server'.version = server.version + 1
    BY <1>1, <1>2, <1>3, <2>1, ChangedType DEF PutLands
  <2>3. server'.version \in Nat
    BY <2>2 DEF AnyServers
  <2> DEFINE n == server'.version
  <2>4. put' = [put EXCEPT !.landed = n]
    BY <1>3 DEF PutLands
  <2>5. /\ n \in Nat
    BY <2>3
  <2> HIDE DEF n
  <2>6. put' \in Puts /\ put'.waiting = put.waiting /\ put'.previous = put.previous /\ put'.landed = n
    BY <1>1, <2>4, <2>5 DEF Puts
  <2>7. UNCHANGED <<pool, loads, writes, auto, late, rot, patch, gets, mounts>> /\ put.waiting
    BY <1>3 DEF PutLands
  <2>8. PageType'
    BY <1>1, <2>2, <2>6, <2>7 DEF PageType
  <2>9. patch'.landed.version <= server'.version
    BY <1>1, <2>2, <2>7 DEF PageInv, RotationInv, PageValues
  <2> QED
    BY <2>2, <2>6, <2>7, <2>8, <2>9, ServerStep DEF n
<1>4. ASSUME NEW t \in late, LatePutLands(t) PROVE PageInv' /\ NotOlder
  <2>1. server' \in AnyServers /\ server'.version = server.version + 1
    BY <1>1, <1>2, <1>4, ChangedType DEF LatePutLands
  <2>2. UNCHANGED <<pool, loads, writes, auto, put, rot, patch, gets, mounts>> /\ late' \subseteq late
    BY <1>4 DEF LatePutLands
  <2>3. PageType'
    BY <1>1, <2>1, <2>2 DEF PageType
  <2>4. patch'.landed.version <= server'.version
    BY <1>1, <2>1, <2>2 DEF PageInv, RotationInv, PageValues
  <2> QED
    BY <2>1, <2>2, <2>3, <2>4, ServerStep
<1> QED
  BY <1>3, <1>4

(* The rotation's PUT lands. *)
LEMMA PatchLandsKeeps == ASSUME PageInv, PatchLands PROVE PageInv' /\ NotOlder
<1>1. PageType /\ PageValues /\ server \in AnyServers /\ patch \in Patches
  BY TypeGivesValues DEF PageInv, PageType
<1>2. [server EXCEPT !.rotation = patch.rotation] \in AnyServers
  BY <1>1 DEF AnyServers, Patches
<1>3. server' \in AnyServers /\ server'.version = server.version + 1
  BY <1>1, <1>2, ChangedType DEF PatchLands
<1> DEFINE v == View(server')
<1>4. v \in AnyViews /\ v.version = server'.version
  BY <1>3, ViewType
<1>5. patch' = [patch EXCEPT !.landed = v]
  BY DEF PatchLands
<1> HIDE DEF v
<1>6. patch' \in Patches /\ patch'.landed = v
  BY <1>1, <1>4, <1>5 DEF Patches
<1>7. UNCHANGED <<pool, loads, writes, auto, put, late, rot, gets, mounts>>
  BY DEF PatchLands
<1>8. PageType'
  BY <1>1, <1>3, <1>6, <1>7 DEF PageType
<1>9. patch'.landed.version <= server'.version
  BY <1>3, <1>4, <1>6 DEF AnyServers
<1> QED
  BY <1>3, <1>7, <1>8, <1>9, ServerStep

-----------------------------------------------------------------------------
(* The loads. *)

(* What the page shows of the accounts is the same in both. *)
SameShown(p, q) ==
    /\ p.generation = q.generation /\ p.newest = q.newest /\ p.pendingActive = q.pendingActive
    /\ p.activeId = q.activeId /\ p.pinnedId = q.pinnedId /\ p.lastActive = q.lastActive

(* load() takes the next generation. *)
LEMMA BegunType ==
    ASSUME NEW p \in PoolRecords, NEW refreshQuota \in BOOLEAN
    PROVE  LET q == Begun(p, refreshQuota)
           IN  /\ q \in PoolRecords /\ q.generation = p.generation + 1 /\ q.newest = p.newest
               /\ q.pendingActive = p.pendingActive /\ q.activeId = p.activeId
               /\ q.lastActive = p.lastActive
<1> DEFINE n == p.generation + 1
           i == p.inflight + 1
           ph == IF ~refreshQuota /\ ~p.hasLoaded THEN "loading" ELSE p.phase
<1>1. n \in Nat /\ i \in Int /\ ph \in {"loading", "ready", "error"}
  BY DEF PoolRecords
<1>2. Begun(p, refreshQuota) = [p EXCEPT !.generation = n, !.inflight = i, !.phase = ph]
  BY DEF Begun
<1> HIDE DEF n, i, ph
<1>3. /\ Begun(p, refreshQuota) \in PoolRecords /\ Begun(p, refreshQuota).generation = n
  BY <1>1, <1>2 DEF PoolRecords
<1>4. /\ Begun(p, refreshQuota).newest = p.newest
      /\ Begun(p, refreshQuota).pendingActive = p.pendingActive
      /\ Begun(p, refreshQuota).activeId = p.activeId
      /\ Begun(p, refreshQuota).lastActive = p.lastActive
  BY <1>1, <1>2 DEF PoolRecords
<1> QED
  BY <1>3, <1>4 DEF n

(* The new load begins at the revisions and the mounts of the two cards. *)
LEMMA NewLoadType ==
    ASSUME PageType, NEW p \in PoolRecords
    PROVE  LET n == NewLoad(p)
           IN  /\ n \in LoadRecords /\ n.gen = p.generation + 1 /\ n.view = NoView
               /\ n.autoRevision = auto.revision /\ n.autoMount = mounts.auto
               /\ n.rotRevision = rot.mirror /\ n.rotMount = mounts.rotation
<1>1. PageValues /\ NoView \in AnyViews
  BY TypeGivesValues, FirstViews
<1> DEFINE g == p.generation + 1
<1>2. g \in Nat
  BY DEF PoolRecords
<1>3. NewLoad(p) = [gen |-> g, list |-> "sent", active |-> "sent", view |-> NoView,
                    autoRevision |-> auto.revision, rotRevision |-> rot.mirror,
                    autoMount |-> mounts.auto, rotMount |-> mounts.rotation]
  BY DEF NewLoad
<1> HIDE DEF g, NoView
<1>4. NewLoad(p) \in LoadRecords
  BY <1>1, <1>2, <1>3 DEF PageValues, LoadRecords, Settlements
<1>5. NewLoad(p).gen = g
  BY <1>3
<1> QED
  BY <1>3, <1>4, <1>5 DEF g

(* A load starts from a controller that an accepted mutation may have painted. *)
LEMMA LoadFromKeeps ==
    ASSUME PageInv, NEW p \in PoolRecords, p.generation = pool.generation, p.newest = pool.newest,
           p.lastActive = pool.lastActive, p.pendingActive # Unset => p.activeId = p.pendingActive,
           NEW refreshQuota \in BOOLEAN, LoadFrom(p, refreshQuota, auto), writes' \subseteq writes,
           UNCHANGED <<server, put, late, rot, patch, gets, mounts>>
    PROVE  PageInv' /\ NotOlder
<1>1. PageType /\ PageValues /\ auto \in AutoCards
  BY TypeGivesValues DEF PageInv, PageType
<1>2. /\ pool' \in PoolRecords /\ pool'.generation = pool.generation + 1 /\ pool'.newest = pool.newest
      /\ pool'.lastActive = pool.lastActive
      /\ pool'.pendingActive # Unset => pool'.activeId = pool'.pendingActive
  BY BegunType DEF LoadFrom
<1> DEFINE n == NewLoad(p)
<1>3. loads' = loads \cup {n}
  BY DEF LoadFrom
<1>4. /\ n \in LoadRecords /\ n.gen = pool.generation + 1 /\ n.view = NoView
      /\ n.autoRevision = auto.revision /\ n.autoMount = mounts.auto
      /\ n.rotRevision = rot.mirror /\ n.rotMount = mounts.rotation
  BY <1>1, NewLoadType
<1>5. auto' = [auto EXCEPT !.loadError = FALSE]
  BY DEF LoadFrom
<1>6. /\ auto' \in AutoCards /\ auto'.threshold = auto.threshold /\ auto'.deferred = auto.deferred
      /\ auto'.revision = auto.revision /\ auto'.saving = auto.saving
  BY <1>1, <1>5 DEF AutoCards
<1> HIDE DEF n
<1>7. PageType'
  BY <1>1, <1>2, <1>3, <1>4, <1>6 DEF PageType
<1> QED
  BY <1>2, <1>3, <1>4, <1>6, <1>7, LoadStarts

(* The page loads. *)
LEMMA LoadKeeps ==
    ASSUME PageInv, NEW refreshQuota \in BOOLEAN, Load(refreshQuota) PROVE PageInv' /\ NotOlder
<1>1. pool \in PoolRecords /\ (pool.pendingActive # Unset => pool.activeId = pool.pendingActive)
  BY DEF PageInv, PageType, NewestInv
<1>2. LoadFrom(pool, refreshQuota, auto)
  BY DEF Load
<1>3. writes' = writes /\ UNCHANGED <<server, put, late, rot, patch, gets, mounts>>
  BY DEF Load
<1> QED
  BY <1>1, <1>2, <1>3, LoadFromKeeps

(* A gate opens or closes. *)
LEMMA MarkedType ==
    ASSUME NEW p \in PoolRecords, NEW kind \in Kinds, NEW mark \in Markers
    PROVE  Marked(p, kind, mark) \in PoolRecords /\ SameShown(Marked(p, kind, mark), p)
<1>1. /\ [p EXCEPT !.switchTarget = mark] \in PoolRecords
      /\ SameShown([p EXCEPT !.switchTarget = mark], p)
      /\ [p EXCEPT !.priority = mark] \in PoolRecords /\ SameShown([p EXCEPT !.priority = mark], p)
      /\ [p EXCEPT !.pause = mark] \in PoolRecords /\ SameShown([p EXCEPT !.pause = mark], p)
      /\ SameShown(p, p)
  BY DEF PoolRecords, SameShown
<1>2. \/ Marked(p, kind, mark) = [p EXCEPT !.switchTarget = mark]
      \/ Marked(p, kind, mark) = [p EXCEPT !.priority = mark]
      \/ Marked(p, kind, mark) = [p EXCEPT !.pause = mark]
      \/ Marked(p, kind, mark) = p
  BY DEF Marked, Kinds
<1> QED
  BY <1>1, <1>2

(* The controller p shows a as pendingActive, b as the active account and c as the pinned one. *)
Paint(p, a, b, c) == [p EXCEPT !.pendingActive = a, !.activeId = b, !.pinnedId = c]

(* Painting changes only what is shown. *)
LEMMA PaintType ==
    ASSUME NEW p \in PoolRecords, NEW a \in MaybeIds, NEW b \in Ids, NEW c \in Ids
    PROVE  LET q == Paint(p, a, b, c)
           IN  /\ q \in PoolRecords /\ q.generation = p.generation /\ q.newest = p.newest
               /\ q.lastActive = p.lastActive /\ q.pendingActive = a /\ q.activeId = b
<1>1. [p EXCEPT !.pendingActive = a] \in PoolRecords
  BY DEF PoolRecords
<1>2. \A q \in PoolRecords : [q EXCEPT !.activeId = b] \in PoolRecords
  BY DEF PoolRecords
<1>3. \A q \in PoolRecords : [q EXCEPT !.pinnedId = c] \in PoolRecords
  BY DEF PoolRecords
<1>4. Paint(p, a, b, c) \in PoolRecords
  BY <1>1, <1>2, <1>3 DEF Paint
<1>5. LET q == Paint(p, a, b, c)
      IN  /\ q.generation = p.generation /\ q.newest = p.newest
          /\ q.lastActive = p.lastActive /\ q.pendingActive = a /\ q.activeId = b
  BY DEF PoolRecords, Paint
<1> QED
  BY <1>4, <1>5

(* An accepted mutation paints an account as pendingActive and as the active one, or none. *)
LEMMA PaintedType ==
    ASSUME PageInv, NEW w \in WriteRecords, NEW body \in BOOLEAN
    PROVE  LET q == Painted(w, body)
           IN  /\ q \in PoolRecords /\ q.generation = pool.generation /\ q.newest = pool.newest
               /\ q.lastActive = pool.lastActive
               /\ q.pendingActive # Unset => q.activeId = q.pendingActive
<1> DEFINE p == Marked(pool, w.kind, Unset)
           id == w.landed.active
           ids == IF w.kind = "pause" THEN {w.id} ELSE IF body THEN w.pausedIds ELSE {}
           told == IF body THEN [p EXCEPT !.pendingActive = id, !.activeId = id] ELSE p
           pin == IF p.pinnedId \in ids THEN Null ELSE p.pinnedId
<1>1. /\ w.kind \in Kinds /\ w.id \in Ids /\ id \in Ids /\ Null \in Ids /\ Unset \in Markers
      /\ pool \in PoolRecords
  BY DEF WriteRecords, AnyViews, Ids, Markers, PageInv, PageType
<1>2. p \in PoolRecords /\ SameShown(p, pool)
  BY <1>1, MarkedType
<1>3. p.activeId \in Ids /\ p.pinnedId \in Ids /\ pin \in Ids
  BY <1>1, <1>2 DEF PoolRecords
<1>4. p.pendingActive # Unset => p.activeId = p.pendingActive
  BY <1>2 DEF SameShown, PageInv, NewestInv
<1>5. \/ Painted(w, body) = [p EXCEPT !.pendingActive = w.id, !.activeId = w.id, !.pinnedId = w.id]
      \/ Painted(w, body) = [told EXCEPT !.pinnedId = IF @ \in ids THEN Null ELSE @]
      \/ Painted(w, body) = told
      \/ Painted(w, body) = [p EXCEPT !.pendingActive = Unset, !.pinnedId = Null]
      \/ Painted(w, body) = p
  BY <1>1 DEF Painted, Kinds
<1>6. told = IF body THEN [p EXCEPT !.pendingActive = id, !.activeId = id] ELSE p
  OBVIOUS
<1> HIDE DEF p, id, ids, told
<1>7. /\ body => /\ told = Paint(p, id, id, p.pinnedId)
                 /\ [told EXCEPT !.pinnedId = IF @ \in ids THEN Null ELSE @] = Paint(p, id, id, pin)
      /\ ~body => /\ told = p
                  /\ [told EXCEPT !.pinnedId = IF @ \in ids THEN Null ELSE @]
                         = Paint(p, p.pendingActive, p.activeId, pin)
      /\ [p EXCEPT !.pendingActive = Unset, !.pinnedId = Null] = Paint(p, Unset, p.activeId, Null)
      /\ [p EXCEPT !.pendingActive = w.id, !.activeId = w.id, !.pinnedId = w.id]
             = Paint(p, w.id, w.id, w.id)
  BY <1>2, <1>6 DEF PoolRecords, Paint
<1> HIDE DEF pin
<1>8. ASSUME NEW a \in Ids, NEW c \in Ids, Painted(w, body) = Paint(p, a, a, c)
      PROVE  LET q == Painted(w, body)
             IN  /\ q \in PoolRecords /\ q.generation = pool.generation /\ q.newest = pool.newest
                 /\ q.lastActive = pool.lastActive
                 /\ q.pendingActive # Unset => q.activeId = q.pendingActive
  <2>1. a \in MaybeIds
    BY DEF MaybeIds
  <2> QED
    BY <1>2, <1>8, <2>1, PaintType DEF SameShown
<1>9. CASE Painted(w, body) = Paint(p, Unset, p.activeId, Null)
  <2>1. Unset \in MaybeIds /\ p \in PoolRecords /\ p.activeId \in Ids /\ Null \in Ids
    BY <1>1, <1>2, <1>3 DEF MaybeIds
  <2>2. LET q == Paint(p, Unset, p.activeId, Null)
        IN  /\ q \in PoolRecords /\ q.generation = p.generation /\ q.newest = p.newest
            /\ q.lastActive = p.lastActive /\ q.pendingActive = Unset
    BY <2>1, PaintType
  <2> QED
    BY <1>2, <1>9, <2>2 DEF SameShown
<1>10. CASE Painted(w, body) = Paint(p, p.pendingActive, p.activeId, pin)
  <2>1. p.pendingActive \in MaybeIds
    BY <1>2 DEF PoolRecords
  <2>2. LET q == Paint(p, p.pendingActive, p.activeId, pin)
        IN  /\ q \in PoolRecords /\ q.generation = p.generation /\ q.newest = p.newest
            /\ q.lastActive = p.lastActive /\ q.pendingActive = p.pendingActive
            /\ q.activeId = p.activeId
    BY <1>2, <1>3, <2>1, PaintType
  <2> QED
    BY <1>2, <1>4, <1>10, <2>2 DEF SameShown
<1>11. CASE Painted(w, body) = p
  BY <1>2, <1>4, <1>11 DEF SameShown
<1>12. \/ Painted(w, body) \in {Paint(p, w.id, w.id, w.id), Paint(p, id, id, pin),
                                Paint(p, id, id, p.pinnedId)}
       \/ Painted(w, body) = Paint(p, Unset, p.activeId, Null)
       \/ Painted(w, body) = Paint(p, p.pendingActive, p.activeId, pin)
       \/ Painted(w, body) = p
  BY <1>5, <1>7
<1> QED
  BY <1>1, <1>3, <1>8, <1>9, <1>10, <1>11, <1>12

(* A mutation is accepted, and its load starts. *)
LEMMA MutationAcceptedKeeps ==
    ASSUME PageInv, NEW w \in writes, NEW body \in BOOLEAN, MutationAccepted(w, body)
    PROVE  PageInv' /\ NotOlder
<1>1. w \in WriteRecords
  BY DEF PageInv, PageType
<1>2. LoadFrom(Painted(w, body), FALSE, auto) /\ writes' \subseteq writes
  BY DEF MutationAccepted
<1>3. UNCHANGED <<server, put, late, rot, patch, gets, mounts>>
  BY DEF MutationAccepted
<1> QED
  BY <1>1, <1>2, <1>3, PaintedType, LoadFromKeeps

(* The load k is what has become of the load l. *)
Became(k, l) ==
    /\ k \in LoadRecords /\ k.gen = l.gen /\ k.autoRevision = l.autoRevision
    /\ k.rotRevision = l.rotRevision /\ k.autoMount = l.autoMount /\ k.rotMount = l.rotMount

(* One of the requests of a load settled: its record is replaced, or taken off the count. *)
LEMMA SettledFacts ==
    ASSUME PageInv, NEW l \in loads, NEW k, Became(k, l), NEW p \in PoolRecords, Settled(k, p)
    PROVE  /\ loads' \subseteq LoadRecords /\ \A m \in loads' : (m \in loads /\ m.gen # l.gen) \/ m = k
           /\ \A m, n \in loads' : m.gen = n.gen => m = n
           /\ pool' \in PoolRecords /\ SameShown(pool', p)
<1>1. loads \subseteq LoadRecords /\ k \in LoadRecords /\ k.gen = l.gen
  BY DEF PageInv, PageType, Became
<1>2. loads' \subseteq {x \in loads : x.gen # k.gen} \cup {k}
  BY DEF Settled
<1>3. \A m, n \in loads : m.gen = n.gen => m = n
  BY DEF PageInv, LoadsInv
<1>4. pool' \in PoolRecords /\ SameShown(pool', p)
  <2>1. CASE k.list = "sent" \/ k.active = "sent"
    BY <2>1 DEF Settled, SameShown
  <2>2. CASE ~(k.list = "sent" \/ k.active = "sent")
    <3> DEFINE i == p.inflight - 1
               b == p.hasLoaded \/ (current(k) /\ k.list = "ok")
               ph == IF current(k) /\ k.list = "failed" /\ ~p.hasLoaded THEN "error" ELSE p.phase
    <3>1. i \in Int /\ b \in BOOLEAN /\ ph \in {"loading", "ready", "error"}
      BY DEF PoolRecords
    <3>2. pool' = [p EXCEPT !.inflight = i, !.firstAttemptSettled = TRUE, !.hasLoaded = b, !.phase = ph]
      BY <2>2 DEF Settled
    <3> HIDE DEF i, b, ph
    <3> QED
      BY <3>1, <3>2 DEF PoolRecords, SameShown
  <2> QED
    BY <2>1, <2>2
<1> QED
  BY <1>1, <1>2, <1>3, <1>4

(* GET /active is answered with the present state. *)
LEMMA AnswerActiveKeeps == ASSUME PageInv, NEW l \in loads, AnswerActive(l) PROVE PageInv' /\ NotOlder
<1>1. PageType /\ PageValues /\ l \in LoadRecords /\ loads \subseteq LoadRecords
  BY TypeGivesValues DEF PageInv, PageType
<1> DEFINE v == View(server)
           k == [l EXCEPT !.view = v]
<1>2. v \in AnyViews
  BY <1>1, ViewType DEF PageType
<1>3. loads' = (loads \ {l}) \cup {k} /\ UNCHANGED <<server, pool, writes, auto, put, late, rot, patch, gets, mounts>>
  BY DEF AnswerActive, cards
<1> HIDE DEF v
<1>4. Became(k, l) /\ k.active = l.active /\ k.view = v
  BY <1>1, <1>2 DEF LoadRecords, Became
<1> HIDE DEF k
<1>5. PageType'
  BY <1>1, <1>3, <1>4 DEF PageType, Became
<1>6. \A m, n \in loads' : m.gen = n.gen => m = n
  BY <1>3, <1>4 DEF PageInv, LoadsInv, Became
<1>7. ASSUME NEW n \in loads'
      PROVE  \E m \in loads :
                 /\ m.gen = n.gen /\ m.autoRevision = n.autoRevision /\ m.rotRevision = n.rotRevision
                 /\ m.autoMount = n.autoMount /\ m.rotMount = n.rotMount
                 /\ n.view \in {m.view, View(server)} /\ (n.active = "sent" => m.active = "sent")
  BY <1>3, <1>4 DEF Became, v
<1> QED
  BY <1>3, <1>5, <1>6, <1>7, LoadsStep

(* A request of the load l ends, and what is shown stays. *)
LEMMA SettledKeeps ==
    ASSUME PageInv, NEW l \in loads, NEW k, Became(k, l), k.view = l.view,
           k.active = "sent" => l.active = "sent",
           NEW p \in PoolRecords, SameShown(p, pool), Settled(k, p),
           UNCHANGED <<server, writes, put, late, patch, gets, mounts>>,
           auto' \in AutoCards, auto'.threshold = auto.threshold, auto'.deferred = auto.deferred,
           auto'.revision = auto.revision, auto'.saving = auto.saving,
           rot' \in RotationCards, rot'.accepted = rot.accepted, rot'.mirror = rot.mirror,
           rot'.state.revision = rot.state.revision, rot'.state.at = rot.state.at
    PROVE  PageInv' /\ NotOlder
<1>1. /\ loads' \subseteq LoadRecords /\ \A m \in loads' : (m \in loads /\ m.gen # l.gen) \/ m = k
      /\ \A m, n \in loads' : m.gen = n.gen => m = n
      /\ pool' \in PoolRecords /\ SameShown(pool', p)
  BY SettledFacts
<1>2. PageType'
  BY <1>1 DEF PageInv, PageType
<1>3. SameShown(pool', pool)
  BY <1>1 DEF SameShown
<1>4. ASSUME NEW n \in loads'
      PROVE  \E m \in loads :
                 /\ m.gen = n.gen /\ m.autoRevision = n.autoRevision /\ m.rotRevision = n.rotRevision
                 /\ m.autoMount = n.autoMount /\ m.rotMount = n.rotMount
                 /\ n.view \in {m.view, View(server)} /\ (n.active = "sent" => m.active = "sent")
  BY <1>1 DEF Became
<1> QED
  BY <1>1, <1>2, <1>3, <1>4, LoadsStep DEF SameShown

(* GET /accounts is answered or fails. *)
LEMMA ListDoneKeeps ==
    ASSUME PageInv, NEW l \in loads, NEW ok \in BOOLEAN, ListDone(l, ok) PROVE PageInv' /\ NotOlder
<1> DEFINE st == IF ok THEN "ok" ELSE "failed"
           k == [l EXCEPT !.list = st]
           p == IF ok /\ current(l) THEN [pool EXCEPT !.hasLoaded = TRUE, !.phase = "ready"] ELSE pool
<1>1. l \in LoadRecords /\ pool \in PoolRecords /\ auto \in AutoCards /\ rot \in RotationCards
      /\ st \in Settlements
  BY DEF PageInv, PageType, Settlements
<1>2. p \in PoolRecords /\ SameShown(p, pool)
  BY <1>1 DEF PoolRecords, SameShown
<1>3. Settled(k, p) /\ UNCHANGED <<server, writes, auto, put, late, rot, patch, gets, mounts>>
  BY DEF ListDone, cards
<1> HIDE DEF st, p
<1>4. Became(k, l) /\ k.view = l.view /\ k.active = l.active
  BY <1>1 DEF LoadRecords, Became
<1> HIDE DEF k
<1> QED
  BY <1>1, <1>2, <1>3, <1>4, SettledKeeps

(* A machine of the rotation card is replaced by another. *)
LEMMA RotationEdited ==
    ASSUME NEW r \in RotationCards, NEW s \in Machines
    PROVE  LET new == [r EXCEPT !.state = s]
           IN  new \in RotationCards /\ new.state = s /\ new.mirror = r.mirror /\ new.accepted = r.accepted
BY DEF RotationCards

(* GET /active fails, and the mounted cards are told. *)
LEMMA RejectActiveKeeps ==
    ASSUME PageInv, NEW l \in loads, l.active = "sent", RejectActive(l),
           UNCHANGED <<server, writes, put, late, patch, gets, mounts>>
    PROVE  PageInv' /\ NotOlder
<1> DEFINE k == [l EXCEPT !.active = "failed"]
           s == serverReadFailed(rot.state)
           r == [rot EXCEPT !.state = s]
<1>1. /\ l \in LoadRecords /\ pool \in PoolRecords /\ auto \in AutoCards /\ rot \in RotationCards
      /\ rot.state \in Machines
  BY DEF PageInv, PageType, RotationCards
<1>2. Settled(k, pool)
  BY DEF RejectActive
<1>3. Became(k, l) /\ k.view = l.view /\ k.active # "sent"
  BY <1>1 DEF LoadRecords, Became, Settlements
<1>4. /\ auto' \in AutoCards /\ auto'.threshold = auto.threshold /\ auto'.deferred = auto.deferred
      /\ auto'.revision = auto.revision /\ auto'.saving = auto.saving
  BY <1>1, ReadFails DEF RejectActive
<1>5. s \in Machines /\ s.revision = rot.state.revision /\ s.at = rot.state.at
  BY <1>1, MachineEdits
<1>6. rot' = r \/ rot' = rot
  BY DEF RejectActive
<1> HIDE DEF k, s
<1>7. r \in RotationCards /\ r.state = s /\ r.mirror = rot.mirror /\ r.accepted = rot.accepted
  BY <1>1, <1>5, RotationEdited
<1> HIDE DEF r
<1>8. /\ rot' \in RotationCards /\ rot'.accepted = rot.accepted /\ rot'.mirror = rot.mirror
      /\ rot'.state.revision = rot.state.revision /\ rot'.state.at = rot.state.at
  BY <1>1, <1>5, <1>6, <1>7
<1>9. SameShown(pool, pool)
  BY DEF SameShown
<1> QED
  BY <1>1, <1>2, <1>3, <1>4, <1>8, <1>9, SettledKeeps

(* A threshold that was read is stamped with the version of the read. *)
LEMMA ReadThreshold ==
    ASSUME NEW v \in AnyViews
    PROVE  Threshold(v.threshold, v.version) \in Stamped /\ Threshold(v.threshold, v.version).at = v.version
BY DEF Threshold, Stamped, AnyViews

(* GET /active of the newest load is answered: the controller, then the mounted cards. *)
LEMMA AcceptActiveKeeps ==
    ASSUME PageInv, NEW l \in loads, l.active = "sent", l.view # NoView, current(l),
           NEW v \in {l.view, EmptyView}, AcceptActive(l, v),
           UNCHANGED <<server, writes, put, late, patch, gets, mounts>>
    PROVE  PageInv' /\ NotOlder
<1> DEFINE k == [l EXCEPT !.active = "ok"]
           id == v.active
           accept == reconcileActiveRead(id, pool.pendingActive)
           pending == IF accept THEN Unset ELSE pool.pendingActive
           active == IF accept THEN id ELSE pool.activeId
           newest == IF l.gen > pool.newest.gen THEN [gen |-> l.gen, version |-> v.version]
                     ELSE pool.newest
           p == [pool EXCEPT !.pendingActive = pending, !.activeId = active, !.lastActive = v,
                             !.newest = newest, !.pinnedId = v.pinned]
           t == Threshold(v.threshold, v.version)
           s == serverValuesArrived(rot.state, v.rotation, v.version, l.rotRevision)
           r == [rot EXCEPT !.state = s]
<1>1. /\ l \in LoadRecords /\ pool \in PoolRecords /\ auto \in AutoCards /\ rot \in RotationCards
      /\ rot.state \in Machines /\ PageValues /\ v \in AnyViews
  BY TypeGivesValues, EmptyValues DEF PageInv, PageType, RotationCards, LoadRecords
<1>2. /\ id \in Ids /\ v.pinned \in Ids /\ v.version \in Nat /\ v.rotation \in Rotations
      /\ l.rotRevision \in Nat /\ l.autoRevision \in Nat /\ l.gen \in Nat
  BY <1>1 DEF LoadRecords, AnyViews
<1>3. /\ pending \in MaybeIds /\ active \in Ids
      /\ newest \in [gen : Nat, version : Nat]
  BY <1>1, <1>2 DEF PoolRecords, MaybeIds
<1>4. Settled(k, p)
  BY DEF AcceptActive
<1>5. \/ auto' = auto
      \/ l.autoMount = mounts.auto /\ auto' = acceptServerRead(auto, t, l.autoRevision)
  BY DEF AcceptActive
<1>6. rot' = rot \/ (l.rotMount = mounts.rotation /\ v = l.view /\ rot' = r)
  BY DEF AcceptActive
<1>7. l.gen > pool.newest.gen => newest.gen = l.gen /\ newest.version = v.version
  OBVIOUS
<1>8. IF pool.pendingActive = Unset \/ v.active = pool.pendingActive
      THEN pending = Unset /\ active = v.active
      ELSE pending = pool.pendingActive /\ active = pool.activeId
  BY DEF reconcileActiveRead
<1> HIDE DEF pending, active, newest
<1>9. /\ p \in PoolRecords /\ p.pendingActive = pending /\ p.activeId = active
      /\ p.lastActive = v /\ p.newest = newest /\ p.pinnedId = v.pinned
      /\ p.generation = pool.generation
  <2>1. p = [Paint(pool, pending, active, v.pinned) EXCEPT !.lastActive = v, !.newest = newest]
    BY <1>1 DEF Paint, PoolRecords
  <2> DEFINE q == Paint(pool, pending, active, v.pinned)
  <2>2. q \in PoolRecords
    BY <1>1, <1>2, <1>3, PaintType
  <2>5. q.pinnedId = v.pinned
    BY <1>1, <1>2 DEF Paint, PoolRecords
  <2>3. q.pendingActive = pending /\ q.activeId = active /\ q.generation = pool.generation
    BY <1>1, <1>2, <1>3, PaintType
  <2>4. p = [q EXCEPT !.lastActive = v, !.newest = newest]
    BY <2>1
  <2> HIDE DEF p, q
  <2> QED
    BY <1>1, <1>3, <2>2, <2>3, <2>4, <2>5 DEF PoolRecords
<1> HIDE DEF p
<1>10. Became(k, l) /\ k.view = l.view /\ k.active = "ok"
  BY <1>1 DEF LoadRecords, Became, Settlements
<1> HIDE DEF k
<1>11. /\ loads' \subseteq LoadRecords /\ \A m \in loads' : (m \in loads /\ m.gen # l.gen) \/ m = k
       /\ \A m, n \in loads' : m.gen = n.gen => m = n
       /\ pool' \in PoolRecords /\ SameShown(pool', p)
  BY <1>4, <1>9, <1>10, SettledFacts
<1>12. t \in Stamped /\ t.at = v.version
  BY <1>1, ReadThreshold
<1>21. v = EmptyView => t = EmptyThreshold
  BY EmptyValues
<1> HIDE DEF t
<1>13. /\ auto' \in AutoCards /\ auto'.revision = auto.revision /\ auto'.saving = auto.saving
       /\ \/ auto' = auto
          \/ /\ l.autoMount = mounts.auto /\ l.autoRevision = auto.revision
             /\ auto'.threshold = auto.threshold /\ auto'.deferred = t
          \/ /\ l.autoMount = mounts.auto /\ l.autoRevision = auto.revision /\ ~auto.saving
             /\ auto'.threshold = t /\ auto'.deferred = NoThreshold
  <2> DEFINE a == acceptServerRead(auto, t, l.autoRevision)
  <2>1. /\ a \in AutoCards /\ a.revision = auto.revision /\ a.saving = auto.saving
        /\ \/ a = auto
           \/ l.autoRevision = auto.revision /\ a.threshold = auto.threshold /\ a.deferred = t
           \/ /\ l.autoRevision = auto.revision /\ ~auto.saving /\ a.threshold = t
              /\ a.deferred = NoThreshold
    BY <1>1, <1>2, <1>12, ReadArrives
  <2>2. auto' = auto \/ (l.autoMount = mounts.auto /\ auto' = a)
    BY <1>5
  <2> HIDE DEF a
  <2> QED
    BY <1>1, <1>12, <2>1, <2>2
<1>14. /\ s \in Machines /\ s.revision = rot.state.revision
       /\ s.at = rot.state.at \/ (l.rotRevision = rot.state.revision /\ s.at = v.version)
  <2>1. /\ rot.state \in Machines /\ v.rotation \in Rotations /\ l.rotRevision \in Nat
        /\ v.version \in Nat
    BY <1>1, <1>2
  <2> QED
    BY <2>1, ValuesArrive
<1> HIDE DEF s
<1>15. r \in RotationCards /\ r.state = s /\ r.mirror = rot.mirror /\ r.accepted = rot.accepted
  BY <1>1, <1>14, RotationEdited
<1> HIDE DEF r
<1>16. /\ rot' \in RotationCards /\ rot'.accepted = rot.accepted /\ rot'.mirror = rot.mirror
       /\ rot'.state.revision = rot.state.revision
       /\ \/ rot'.state.at = rot.state.at
          \/ /\ l.rotMount = mounts.rotation /\ l.rotRevision = rot.state.revision
             /\ rot'.state.at = l.view.version
  BY <1>1, <1>6, <1>14, <1>15
<1>17. PageType'
  BY <1>11, <1>13, <1>16 DEF PageInv, PageType
<1>18. \A m \in loads' :
           \/ m \in loads /\ m.gen # l.gen
           \/ /\ m.gen = l.gen /\ m.active # "sent" /\ m.view = l.view
              /\ m.autoRevision = l.autoRevision /\ m.rotRevision = l.rotRevision
              /\ m.autoMount = l.autoMount /\ m.rotMount = l.rotMount
  BY <1>10, <1>11 DEF Became
<1>19. /\ pool'.generation = pool.generation /\ pool'.lastActive = v
       /\ l.gen > pool.newest.gen =>
             pool'.newest.gen = l.gen /\ pool'.newest.version = v.version
       /\ pool'.pinnedId = v.pinned
       /\ IF pool.pendingActive = Unset \/ v.active = pool.pendingActive
          THEN pool'.pendingActive = Unset /\ pool'.activeId = v.active
          ELSE pool'.pendingActive = pool.pendingActive /\ pool'.activeId = pool.activeId
  BY <1>7, <1>8, <1>9, <1>11 DEF SameShown
<1>20. l.gen = pool.generation
  BY DEF current
<1> QED
  BY <1>11, <1>13, <1>16, <1>17, <1>12, <1>18, <1>19, <1>20, <1>21, ReadComesIn

(* GET /active ends. *)
LEMMA ActiveDoneKeeps ==
    ASSUME PageInv, NEW l \in loads, NEW outcome \in Outcomes, ActiveDone(l, outcome)
    PROVE  PageInv' /\ NotOlder
<1>1. UNCHANGED <<server, writes, put, late, patch, gets, mounts>> /\ l.active = "sent"
  BY DEF ActiveDone
<1>2. CASE outcome = "failed"
  BY <1>1, <1>2, RejectActiveKeeps DEF ActiveDone
<1>3. CASE outcome # "failed" /\ current(l)
  <2>1. AcceptActive(l, l.view) \/ AcceptActive(l, EmptyView)
    BY <1>3 DEF ActiveDone
  <2>2. l.view # NoView
    BY <1>3 DEF ActiveDone
  <2> QED
    BY <1>1, <1>3, <2>1, <2>2, AcceptActiveKeeps
<1>4. CASE outcome # "failed" /\ ~current(l)
  <2> DEFINE k == [l EXCEPT !.active = "ok"]
  <2>1. l \in LoadRecords /\ pool \in PoolRecords /\ auto \in AutoCards /\ rot \in RotationCards
    BY DEF PageInv, PageType
  <2>2. Settled(k, pool) /\ UNCHANGED <<auto, rot>>
    BY <1>4 DEF ActiveDone
  <2>3. Became(k, l) /\ k.view = l.view /\ k.active = "ok" /\ SameShown(pool, pool)
    BY <2>1 DEF LoadRecords, Became, Settlements, SameShown
  <2> HIDE DEF k
  <2> QED
    BY <1>1, <2>1, <2>2, <2>3, SettledKeeps
<1> QED
  BY <1>2, <1>3, <1>4

(* A mutation is asked for, or fails: only its gate and its record change. *)
LEMMA WritesStep ==
    ASSUME PageInv, UNCHANGED <<server, loads, cards>>, writes' \subseteq WriteRecords,
           pool' \in PoolRecords, SameShown(pool', pool)
    PROVE  PageInv' /\ NotOlder
<1>1. UNCHANGED <<server, loads, auto, put, late, rot, patch, gets, mounts>>
  BY DEF cards
<1>2. PageType'
  BY <1>1 DEF PageInv, PageType
<1>3. \A l, m \in loads' : l.gen = m.gen => l = m
  BY <1>1 DEF PageInv, LoadsInv
<1>4. \A l \in loads' : l.view \in {l.view, View(server)} /\ l \in loads
  BY <1>1
<1> QED
  BY <1>1, <1>2, <1>3, <1>4, LoadsStep DEF SameShown

(* The operator asks for a mutation. *)
LEMMA MutateKeeps ==
    ASSUME PageInv, NEW kind \in Kinds, NEW id \in Accounts, Mutate(kind, id) PROVE PageInv' /\ NotOlder
<1>1. id \in Markers /\ pool \in PoolRecords /\ NoView \in AnyViews /\ writes \subseteq WriteRecords
  BY FirstViews DEF Markers, PageInv, PageType
<1>2. pool' \in PoolRecords /\ SameShown(pool', pool)
  BY <1>1, MarkedType DEF Mutate
<1> HIDE DEF NoView
<1>3. writes' \subseteq WriteRecords
  BY <1>1 DEF Mutate, WriteRecords
<1>4. UNCHANGED <<server, loads, cards>>
  BY DEF Mutate
<1> QED
  BY <1>2, <1>3, <1>4, WritesStep

(* A mutation fails. *)
LEMMA MutationRejectedKeeps ==
    ASSUME PageInv, NEW w \in writes, MutationRejected(w) PROVE PageInv' /\ NotOlder
<1>1. /\ Unset \in Markers /\ pool \in PoolRecords /\ writes \subseteq WriteRecords /\ w.kind \in Kinds
  BY DEF Markers, PageInv, PageType, WriteRecords
<1>2. pool' \in PoolRecords /\ SameShown(pool', pool)
  BY <1>1, MarkedType DEF MutationRejected
<1>3. writes' \subseteq WriteRecords /\ UNCHANGED <<server, loads, cards>>
  BY <1>1 DEF MutationRejected
<1> QED
  BY <1>2, <1>3, WritesStep

-----------------------------------------------------------------------------
(* The auto-switch card. *)

(* The card's own steps that end at a settled card. *)
LEMMA AutoOnlyKeeps ==
    ASSUME PageInv, UNCHANGED <<put, late, autoOnly>>, Settles(auto, auto'),
           auto'.threshold = auto.threshold \/ ~auto.saving
    PROVE  PageInv' /\ NotOlder
<1>1. UNCHANGED <<server, pool, loads, writes, put, late, rot, patch, gets, mounts>>
  BY DEF autoOnly
<1>2. PageType'
  BY <1>1 DEF PageInv, PageType, Settles
<1> QED
  BY <1>1, <1>2, AutoSettles

(* Focus, typing and leaving the field without a commit. *)
LEMMA EditKeeps ==
    ASSUME PageInv, Focus \/ Blur \/ \E draft \in 0 .. MaxThreshold : Type(draft)
    PROVE  PageInv' /\ NotOlder
<1>1. auto \in AutoCards
  BY DEF PageInv, PageType
<1>2. CASE Focus \/ Blur
  <2>1. PICK b \in BOOLEAN : auto' = [auto EXCEPT !.editing = b]
    BY <1>2 DEF Focus, Blur
  <2>2. Settles(auto, auto') /\ auto'.threshold = auto.threshold
    BY <1>1, <2>1 DEF AutoCards, Settles
  <2> QED
    BY <1>2, <2>2, AutoOnlyKeeps DEF Focus, Blur
<1>3. ASSUME NEW draft \in 0 .. MaxThreshold, Type(draft) PROVE PageInv' /\ NotOlder
  <2>1. draft \in Nat
    BY ThresholdAssumption
  <2>2. auto' = [auto EXCEPT !.editing = TRUE, !.cancelledDraft = FALSE, !.draft = draft]
    BY <1>3 DEF Type
  <2>3. Settles(auto, auto') /\ auto'.threshold = auto.threshold
    BY <1>1, <2>1, <2>2 DEF AutoCards, Settles
  <2> QED
    BY <1>3, <2>3, AutoOnlyKeeps DEF Type
<1> QED
  BY <1>2, <1>3

(* Escape. *)
LEMMA EscapeKeeps == ASSUME PageInv, Escape PROVE PageInv' /\ NotOlder
<1>1. auto \in AutoCards
  BY DEF PageInv, PageType
<1>2. Settles(auto, auto') /\ ~auto.saving /\ UNCHANGED <<put, late, autoOnly>>
  BY <1>1, Left DEF Escape, FieldShown, AutoEnabled
<1> QED
  BY <1>2, AutoOnlyKeeps

(* A write of the threshold begins. *)
LEMMA WriteBegins ==
    ASSUME PageInv, auto' = saveBegan(auto), NEW plan \in Plans, NEW toggle \in BOOLEAN,
           put' = [waiting |-> TRUE, plan |-> plan, toggle |-> toggle, previous |-> auto.threshold,
                   landed |-> 0],
           UNCHANGED <<late, autoOnly>>
    PROVE  PageInv' /\ NotOlder
<1>1. auto \in AutoCards /\ auto.threshold \in Stamped /\ PageValues
  BY TypeGivesValues DEF PageInv, PageType, AutoCards
<1>2. /\ auto' \in AutoCards /\ auto'.threshold = auto.threshold /\ auto'.deferred = auto.deferred
      /\ auto'.revision = auto.revision + 1 /\ auto'.saving = TRUE
  BY <1>1, SaveBegins
<1>3. put' \in Puts /\ put'.waiting /\ put'.previous = auto.threshold /\ put'.landed = 0
  BY <1>1 DEF Puts
<1>4. UNCHANGED <<server, pool, loads, writes, late, rot, patch, gets, mounts>>
  BY DEF autoOnly
<1>5. PageType'
  BY <1>2, <1>3, <1>4 DEF PageInv, PageType
<1>6. auto'.threshold.at >= auto.threshold.at /\ auto'.threshold.at <= server.version
  BY <1>1, <1>2 DEF PageInv, ThresholdInv, PageValues
<1> QED
  BY <1>2, <1>3, <1>4, <1>5, <1>6, SaveStep

(* Enter writes the draft, or settles the card. *)
LEMMA CommitKeeps == ASSUME PageInv, Commit PROVE PageInv' /\ NotOlder
<1>1. auto \in AutoCards /\ ~auto.saving
  BY DEF PageInv, PageType, Commit, FieldShown, AutoEnabled
<1>2. CASE commitWrites(auto)
  <2> DEFINE plan == [threshold |-> auto.draft, lastEnabled |-> 0]
  <2>1. plan \in Plans
    BY <1>1 DEF AutoCards, Plans
  <2>2. put' = [waiting |-> TRUE, plan |-> plan, toggle |-> FALSE, previous |-> auto.threshold,
                landed |-> 0]
    BY <1>2 DEF Commit, NoPut
  <2>3. auto' = saveBegan(auto) /\ UNCHANGED <<late, autoOnly>>
    BY <1>2 DEF Commit
  <2> HIDE DEF plan
  <2> QED
    BY <2>1, <2>2, <2>3, WriteBegins
<1>3. CASE ~commitWrites(auto)
  <2>1. Settles(auto, auto') /\ UNCHANGED <<put, late, autoOnly>>
    <3>1. auto' = commitWithoutWrite(auto) /\ UNCHANGED <<put, late, autoOnly>>
      BY <1>3 DEF Commit
    <3> QED
      BY <1>1, <3>1, Left
  <2> QED
    BY <1>1, <2>1, AutoOnlyKeeps
<1> QED
  BY <1>2, <1>3

(* The switch is toggled. *)
LEMMA ToggleKeeps == ASSUME PageInv, Toggle PROVE PageInv' /\ NotOlder
<1> DEFINE plan == planAutoSwitchToggleWrite(auto)
<1>1. plan \in Plans
  BY TogglePlans DEF PageInv, PageType, Plans
<1>2. auto' = saveBegan(auto) /\ UNCHANGED <<late, autoOnly>>
  BY DEF Toggle
<1>3. put' = [waiting |-> TRUE, plan |-> plan, toggle |-> TRUE, previous |-> auto.threshold,
              landed |-> 0]
  BY DEF Toggle, NoPut
<1> HIDE DEF plan
<1> QED
  BY <1>1, <1>2, <1>3, WriteBegins

(* The card that waits for no write has none that landed. *)
LEMMA NoPutType == NoPut \in Puts /\ ~NoPut.waiting /\ NoPut.landed = 0
BY NoThresholdType DEF NoPut, Puts, Plans

(* The PUT of the threshold is answered. *)
LEMMA PutAcceptedKeeps == ASSUME PageInv, PutAccepted PROVE PageInv' /\ NotOlder
<1> DEFINE t == Threshold(put.plan.threshold, put.landed)
           saved == saveAccepted(auto, t)
<1>1. auto \in AutoCards /\ put \in Puts /\ PageValues /\ put.plan \in Plans /\ put.landed # 0
  BY TypeGivesValues DEF PageInv, PageType, Puts, PutAccepted
<1>2. t \in Stamped /\ t.at = put.landed
  BY <1>1 DEF Threshold, Stamped, Puts, Plans
<1>3. auto' = (IF put.toggle THEN toggleApplied(saved, put.plan) ELSE saved)
  BY DEF PutAccepted
<1> HIDE DEF t
<1>4. /\ saved \in AutoCards /\ saved.threshold = t /\ saved.deferred = NoThreshold
      /\ saved.revision = auto.revision + 1 /\ saved.saving = FALSE
  BY <1>1, <1>2, SaveAccepted
<1> HIDE DEF saved
<1>5. /\ auto' \in AutoCards /\ auto'.threshold = t /\ auto'.deferred = NoThreshold
      /\ auto'.revision = auto.revision + 1 /\ auto'.saving = FALSE
  BY <1>1, <1>3, <1>4, ToggleApplied DEF Plans
<1>6. /\ put' \in Puts /\ ~put'.waiting /\ put'.landed = 0
      /\ UNCHANGED <<server, pool, loads, writes, late, rot, patch, gets, mounts>>
  BY NoPutType DEF PutAccepted, autoOnly
<1>7. PageType'
  BY <1>5, <1>6 DEF PageInv, PageType
<1>8. auto'.threshold.at >= auto.threshold.at /\ auto'.threshold.at <= server.version
  BY <1>1, <1>2, <1>5 DEF PageInv, ThresholdInv, PageValues
<1> QED
  BY <1>5, <1>6, <1>7, <1>8, SaveStep

(* The PUT of the threshold fails, or its timeout fires. *)
LEMMA PutFailedKeeps == ASSUME PageInv, PutFailed PROVE PageInv' /\ NotOlder
<1>1. /\ auto \in AutoCards /\ put \in Puts /\ PageValues /\ put.waiting /\ late \subseteq Nat
      /\ put.previous \in Stamped /\ put.plan.threshold \in Nat
  BY TypeGivesValues DEF PageInv, PageType, Puts, Plans, PutFailed
<1>2. put.previous = auto.threshold
  BY <1>1 DEF PageInv, ThresholdInv
<1>3. /\ auto' \in AutoCards /\ auto'.revision = auto.revision + 1 /\ auto'.saving = FALSE
      /\ auto'.deferred = NoThreshold
      /\ auto'.threshold = IF auto.deferred # NoThreshold THEN auto.deferred ELSE auto.threshold
  <2> DEFINE new == saveRejected(auto, put.previous)
  <2>1. /\ new \in AutoCards /\ new.revision = auto.revision + 1 /\ new.saving = FALSE
        /\ new.deferred = NoThreshold
        /\ new.threshold = IF auto.deferred # NoThreshold THEN auto.deferred ELSE put.previous
    BY <1>1, SaveRejected
  <2>2. auto' = new
    BY DEF PutFailed
  <2> HIDE DEF new
  <2> QED
    BY <1>2, <2>1, <2>2
<1>4. /\ put' \in Puts /\ ~put'.waiting /\ put'.landed = 0 /\ late' \subseteq Nat
      /\ UNCHANGED <<server, pool, loads, writes, rot, patch, gets, mounts>>
  BY <1>1, NoPutType DEF PutFailed, autoOnly
<1>5. PageType'
  BY <1>3, <1>4 DEF PageInv, PageType
<1>6. /\ auto'.threshold.at >= auto.threshold.at \/ auto'.threshold = EmptyThreshold
      /\ auto'.threshold.at <= server.version
  BY <1>1, <1>3 DEF PageInv, ThresholdInv, PageValues
<1> QED
  BY <1>3, <1>4, <1>5, <1>6, SaveStep

(* The section is closed and opened: a seeded card is as old as the pool's last payload. *)
LEMMA RemountAutoKeeps == ASSUME PageInv, RemountAuto PROVE PageInv' /\ NotOlder
<1> DEFINE t == Threshold(pool.lastActive.threshold, pool.lastActive.version)
<1>1. /\ put \in Puts /\ PageValues /\ late \subseteq Nat /\ put.plan.threshold \in Nat
      /\ mounts \in [auto : Nat, rotation : Nat]
  BY TypeGivesValues DEF PageInv, PageType, Puts, Plans
<1>2. t \in Stamped /\ t.at = pool.lastActive.version
  BY <1>1, ReadThreshold DEF PageValues
<1>3. auto' = hydrateServerValue(initialAutoSwitchState, t)
  BY DEF RemountAuto
<1> HIDE DEF t
<1>4. /\ auto' \in AutoCards /\ auto'.deferred = NoThreshold /\ auto'.saving = FALSE
      /\ auto'.threshold.at = t.at
  <2> DEFINE new == hydrateServerValue(initialAutoSwitchState, t)
  <2>1. /\ new \in AutoCards /\ new.deferred = NoThreshold /\ new.saving = FALSE
        /\ new.threshold.at = t.at
    BY <1>2, Hydrated
  <2> HIDE DEF new
  <2> QED
    BY <1>3, <2>1 DEF new
<1>5. /\ put' \in Puts /\ ~put'.waiting /\ put'.landed = 0 /\ late' \subseteq Nat
      /\ UNCHANGED <<server, pool, loads, writes, rot, patch, gets>>
  BY <1>1, NoPutType DEF RemountAuto
<1>6. mounts' \in [auto : Nat, rotation : Nat] /\ mounts'.auto = mounts.auto + 1
      /\ mounts'.rotation = mounts.rotation
  <2> DEFINE n == mounts.auto + 1
  <2>1. n \in Nat /\ mounts' = [mounts EXCEPT !.auto = n]
    BY <1>1 DEF RemountAuto
  <2> HIDE DEF n
  <2>2. mounts' \in [auto : Nat, rotation : Nat] /\ mounts'.auto = n /\ mounts'.rotation = mounts.rotation
    BY <1>1, <2>1
  <2> QED
    BY <2>2 DEF n
<1>7. PageType'
  BY <1>4, <1>5, <1>6 DEF PageInv, PageType
<1>8. auto'.threshold.at <= server.version
  BY <1>2, <1>4 DEF PageInv, LoadsInv, Seen
<1>9. put'.waiting = FALSE
  BY <1>5 DEF Puts
<1> QED
  BY <1>4, <1>5, <1>6, <1>7, <1>8, <1>9, AutoMounts

-----------------------------------------------------------------------------
(* The rotation card. *)

(* Its steps, told by what they do to the card, its write and its own reads. *)
LEMMA RotationOnlyKeeps ==
    ASSUME PageInv, UNCHANGED rotOnly, rot' \in RotationCards, patch' \in Patches, gets' \subseteq OwnReads,
           rot'.state.revision >= rot.state.revision, rot'.mirror <= rot'.state.revision,
           rot'.accepted <= rot'.state.at, rot'.state.at <= server.version,
           rot'.accepted = rot.accepted \/ rot'.state.revision > rot.state.revision,
           patch'.landed.version <= server.version,
           \A g \in gets' :
               \/ \E h \in gets : /\ g.mount = h.mount /\ g.revision = h.revision
                                  /\ g.view \in {h.view, View(server)}
               \/ g.mount = mounts.rotation /\ g.revision = rot'.state.revision /\ g.view = NoView
    PROVE  PageInv' /\ NotOlder
<1>1. UNCHANGED <<server, pool, loads, writes, auto, put, late, mounts>>
  BY DEF rotOnly
<1>2. PageType'
  BY <1>1 DEF PageInv, PageType
<1> QED
  BY <1>1, <1>2, RotationStep

(* What the invariant says of the rotation card and of its write. *)
LEMMA RotationValues ==
    ASSUME PageInv
    PROVE  /\ rot \in RotationCards /\ patch \in Patches /\ gets \subseteq OwnReads /\ rot.state \in Machines
           /\ rot.state.revision \in Nat /\ rot.state.at \in Nat /\ rot.mirror \in Nat /\ rot.accepted \in Nat
           /\ rot.mirror <= rot.state.revision /\ rot.accepted <= rot.state.at
           /\ rot.state.at <= server.version /\ server.version \in Nat /\ server.version >= 1
           /\ patch.landed.version <= server.version
           /\ NoPatch \in Patches /\ NoPatch.landed = NoView /\ NoView \in AnyViews /\ NoView.version = 0
<1>1. PageValues
  BY TypeGivesValues DEF PageInv
<1>2. NoPatch \in Patches /\ NoPatch.landed = NoView /\ NoView \in AnyViews /\ NoView.version = 0
  <2>1. NoView \in AnyViews /\ NoView.version = 0 /\ DEFAULT_POOL_ROTATION \in Rotations
    BY FirstViews, FirstMachine
  <2> HIDE DEF NoView, DEFAULT_POOL_ROTATION
  <2> QED
    BY <2>1 DEF NoPatch, Patches
<1> QED
  BY <1>1, <1>2 DEF PageInv, PageType, LoadsInv, RotationInv, PageValues

(* The mirror catches up with the machine. *)
LEMMA MirrorRotationKeeps == ASSUME PageInv, MirrorRotation PROVE PageInv' /\ NotOlder
<1> DEFINE n == rot.state.revision
<1>1. n \in Nat /\ rot \in RotationCards
  BY RotationValues
<1>2. rot' = [rot EXCEPT !.mirror = n]
  BY DEF MirrorRotation
<1>3. rot' \in RotationCards /\ rot'.state = rot.state /\ rot'.accepted = rot.accepted /\ rot'.mirror = n
  BY <1>1, <1>2 DEF RotationCards
<1>4. UNCHANGED <<patch, gets, rotOnly>>
  BY DEF MirrorRotation
<1> HIDE DEF n
<1> QED
  BY <1>1, <1>3, <1>4, RotationValues, RotationOnlyKeeps DEF n

(* A rotation is written: the machine is locked and its revision moves on.  While the      *)
(* mirror saves it is only shown.                                                          *)
LEMMA WriteRotationKeeps ==
    ASSUME PageInv, NEW rotation \in Rotations, NEW moved \in {"strategy", "stickyLimit"},
           WriteRotation(rotation, moved)
    PROVE  PageInv' /\ NotOlder
<1> DEFINE shown == IF moved = "strategy" THEN [rot.state EXCEPT !.visible = rotation] ELSE rot.state
           s == writeStarted(shown)
<1>1. rot \in RotationCards /\ rot.state \in Machines
  BY RotationValues
<1>2. shown \in Machines /\ shown.revision = rot.state.revision /\ shown.at = rot.state.at
  BY <1>1 DEF Machines
<1>3. CASE MirrorSaves
  <2>1. rot' = [rot EXCEPT !.state = shown] /\ UNCHANGED <<patch, gets, rotOnly>>
    BY <1>3 DEF WriteRotation
  <2> HIDE DEF shown
  <2>2. /\ rot' \in RotationCards /\ rot'.state = shown /\ rot'.mirror = rot.mirror
        /\ rot'.accepted = rot.accepted
    BY <1>1, <1>2, <2>1, RotationEdited
  <2> QED
    BY <1>2, <2>1, <2>2, RotationValues, RotationOnlyKeeps
<1>4. CASE ~MirrorSaves
  <2>1. rot' = [rot EXCEPT !.state = s]
    BY <1>4 DEF WriteRotation
  <2> HIDE DEF shown
  <2>2. s \in Machines /\ s.revision = rot.state.revision + 1 /\ s.at = rot.state.at
    BY <1>2, MachineEdits
  <2> HIDE DEF s
  <2>3. /\ rot' \in RotationCards /\ rot'.state = s /\ rot'.mirror = rot.mirror
        /\ rot'.accepted = rot.accepted
    BY <1>1, <2>1, <2>2, RotationEdited
  <2>4. patch' = [waiting |-> TRUE, rotation |-> rotation, moved |-> moved, landed |-> NoView]
        /\ UNCHANGED <<gets, rotOnly>>
    BY <1>4 DEF WriteRotation, NoPatch
  <2>5. patch' \in Patches /\ patch'.landed = NoView
    BY <2>4, FirstViews DEF Patches
  <2> QED
    BY <2>2, <2>3, <2>4, <2>5, RotationValues, RotationOnlyKeeps
<1> QED
  BY <1>3, <1>4

(* A strategy is chosen or a limit committed. *)
LEMMA ControlsKeep ==
    ASSUME PageInv, (\E strategy \in Strategies : ChooseStrategy(strategy))
                        \/ \E limit \in Limits : CommitSticky(limit)
    PROVE  PageInv' /\ NotOlder
<1>1. rot.state.visible.strategy \in Strategies /\ rot.state.visible.stickyLimit \in Limits
  BY RotationValues DEF Machines, Rotations
<1>2. \A strategy \in Strategies, limit \in Limits : Rotation(strategy, limit) \in Rotations
  BY DEF Rotation, Rotations
<1> QED
  BY <1>1, <1>2, WriteRotationKeeps DEF ChooseStrategy, CommitSticky

(* The write is accepted, with the version that it made. *)
LEMMA PatchAcceptedKeeps == ASSUME PageInv, PatchAccepted PROVE PageInv' /\ NotOlder
<1> DEFINE n == patch.landed.version
           s == writeAccepted(rot.state, patch.landed.rotation, n)
<1>1. /\ rot \in RotationCards /\ rot.state \in Machines /\ patch.landed.rotation \in Rotations
      /\ n \in Nat
  BY RotationValues DEF Patches, AnyViews
<1>2. rot' = [rot EXCEPT !.state = s, !.accepted = n] /\ patch' = NoPatch /\ UNCHANGED <<gets, rotOnly>>
  BY DEF PatchAccepted
<1>3. n <= server.version
  BY RotationValues
<1>4. s \in Machines /\ s.revision = rot.state.revision + 1 /\ s.at = n
  BY <1>1, WriteAccepted
<1> HIDE DEF s, n
<1>5. rot' \in RotationCards /\ rot'.state = s /\ rot'.mirror = rot.mirror /\ rot'.accepted = n
  BY <1>1, <1>2, <1>4 DEF RotationCards
<1> QED
  BY <1>1, <1>2, <1>3, <1>4, <1>5, RotationValues, RotationOnlyKeeps

(* The write fails. *)
LEMMA PatchRejectedKeeps == ASSUME PageInv, PatchRejected PROVE PageInv' /\ NotOlder
<1> DEFINE s == writeRejected(rot.state)
<1>1. rot \in RotationCards /\ rot.state \in Machines
  BY RotationValues
<1>2. rot' = [rot EXCEPT !.state = s] /\ patch' = NoPatch /\ UNCHANGED <<gets, rotOnly>>
  BY DEF PatchRejected
<1>3. s \in Machines /\ s.revision = rot.state.revision + 1 /\ s.at = rot.state.at
  BY <1>1, MachineEdits
<1> HIDE DEF s
<1>4. /\ rot' \in RotationCards /\ rot'.state = s /\ rot'.mirror = rot.mirror
      /\ rot'.accepted = rot.accepted
  BY <1>1, <1>2, <1>3, RotationEdited
<1> QED
  BY <1>2, <1>3, <1>4, RotationValues, RotationOnlyKeeps

(* The card starts a read of its own, at the machine's revision. *)
LEMMA ReloadRotationKeeps == ASSUME PageInv, ReloadRotation PROVE PageInv' /\ NotOlder
<1> DEFINE n == rot.state.revision
           s == [rot.state EXCEPT !.heldRead = FALSE]
<1>1. rot \in RotationCards /\ rot.state \in Machines /\ n \in Nat /\ PageValues
  BY RotationValues, TypeGivesValues DEF PageInv
<1>2. rot' = [rot EXCEPT !.state = s, !.mirror = n] /\ UNCHANGED <<patch, rotOnly>>
  BY <1>1 DEF ReloadRotation, RotationCards
<1>3. s \in Machines /\ s.revision = n /\ s.at = rot.state.at
  BY <1>1 DEF Machines
<1>4. NewGet \in OwnReads /\ NewGet.mount = mounts.rotation /\ NewGet.revision = n /\ NewGet.view = NoView
  BY <1>1, FirstViews DEF NewGet, OwnReads, PageValues
<1>5. gets' = gets \cup {NewGet}
  BY DEF ReloadRotation
<1> HIDE DEF s, n
<1>6. rot' \in RotationCards /\ rot'.state = s /\ rot'.mirror = n /\ rot'.accepted = rot.accepted
  BY <1>1, <1>2, <1>3 DEF RotationCards
<1>7. \A g \in gets' :
          \/ \E h \in gets : /\ g.mount = h.mount /\ g.revision = h.revision
                             /\ g.view \in {h.view, View(server)}
          \/ g.mount = mounts.rotation /\ g.revision = rot'.state.revision /\ g.view = NoView
  BY <1>3, <1>4, <1>5, <1>6
<1>8. gets' \subseteq OwnReads
  BY <1>4, <1>5, RotationValues
<1> QED
  BY <1>1, <1>2, <1>3, <1>6, <1>7, <1>8, RotationValues, RotationOnlyKeeps DEF n

(* A read of the card is answered with the present state. *)
LEMMA GetAnsweredKeeps == ASSUME PageInv, NEW g \in gets, GetAnswered(g) PROVE PageInv' /\ NotOlder
<1> DEFINE v == View(server)
           x == [g EXCEPT !.view = v]
<1>1. v \in AnyViews /\ g \in OwnReads
  BY ViewType, RotationValues DEF PageInv, PageType
<1>2. gets' = (gets \ {g}) \cup {x} /\ UNCHANGED <<rot, patch, rotOnly>>
  BY DEF GetAnswered
<1> HIDE DEF v
<1>3. x \in OwnReads /\ x.mount = g.mount /\ x.revision = g.revision /\ x.view = v
  BY <1>1 DEF OwnReads
<1> HIDE DEF x
<1>4. gets' \subseteq OwnReads
  BY <1>2, <1>3, RotationValues
<1>5. \A h \in gets' : \E f \in gets : /\ h.mount = f.mount /\ h.revision = f.revision
                                       /\ h.view \in {f.view, View(server)}
  BY <1>2, <1>3 DEF v
<1> QED
  BY <1>2, <1>4, <1>5, RotationValues, RotationOnlyKeeps

(* A read of the card comes in or fails; one of an earlier mount is nobody's. *)
LEMMA GetDoneKeeps ==
    ASSUME PageInv, NEW g \in gets, NEW ok \in BOOLEAN, GetDone(g, ok) PROVE PageInv' /\ NotOlder
<1> DEFINE failed == serverReadFailed(rot.state)
           took == serverValuesArrived(rot.state, g.view.rotation, g.view.version, g.revision)
<1>1. rot \in RotationCards /\ rot.state \in Machines /\ g \in OwnReads
  BY RotationValues
<1>2. g.view.rotation \in Rotations /\ g.revision \in Nat /\ g.view.version \in Nat
  BY <1>1 DEF OwnReads, AnyViews
<1>3. gets' = gets \ {g} /\ UNCHANGED <<patch, rotOnly>>
  BY DEF GetDone
<1>4. \A h \in gets' : \E f \in gets : /\ h.mount = f.mount /\ h.revision = f.revision
                                       /\ h.view \in {f.view, View(server)}
  BY <1>3
<1>5. failed \in Machines /\ failed.revision = rot.state.revision /\ failed.at = rot.state.at
  BY <1>1, MachineEdits
<1>6. /\ took \in Machines /\ took.revision = rot.state.revision
      /\ took.at = rot.state.at \/ (g.revision = rot.state.revision /\ took.at = g.view.version)
  <2>1. rot.state \in Machines
    BY <1>1
  <2> QED
    BY <2>1, <1>2, ValuesArrive
<1>7. \/ rot' = rot \/ rot' = [rot EXCEPT !.state = failed]
      \/ g.mount = mounts.rotation /\ g.view # NoView /\ rot' = [rot EXCEPT !.state = took]
  BY DEF GetDone
<1> HIDE DEF failed, took
<1>8. g.view.version <= server.version
      /\ (g.view # NoView /\ g.mount = mounts.rotation /\ g.revision = rot.state.revision =>
              g.view.version >= rot.accepted)
  BY DEF PageInv, RotationInv
<1>9. /\ rot' \in RotationCards /\ rot'.mirror = rot.mirror /\ rot'.accepted = rot.accepted
      /\ rot'.state.revision = rot.state.revision
      /\ rot'.state.at = rot.state.at
            \/ (rot'.state.at = g.view.version /\ g.view.version >= rot.accepted)
  <2>1. CASE rot' = rot
    BY <1>1, <2>1
  <2>2. CASE rot' = [rot EXCEPT !.state = failed]
    BY <1>1, <1>5, <2>2, RotationEdited
  <2>3. CASE g.mount = mounts.rotation /\ g.view # NoView /\ rot' = [rot EXCEPT !.state = took]
    BY <1>1, <1>6, <1>8, <2>3, RotationEdited
  <2> QED
    BY <1>7, <2>1, <2>2, <2>3
<1> QED
  BY <1>2, <1>3, <1>4, <1>8, <1>9, RotationValues, RotationOnlyKeeps

(* The panel is closed and opened: a seeded machine is as old as the pool's last payload. *)
LEMMA RemountRotationKeeps == ASSUME PageInv, RemountRotation PROVE PageInv' /\ NotOlder
<1> DEFINE first == INITIAL_POOL_ROTATION_STATE
           last == pool.lastActive
           seeded == serverValuesArrived(first, last.rotation, last.version, 0)
           s == IF last \in {NoView, EmptyView} THEN first ELSE seeded
<1>1. first \in Machines /\ first.at = 0 /\ PageValues /\ last \in AnyViews
  BY FirstMachine, TypeGivesValues DEF PageInv, PageValues
<1>2. last.rotation \in Rotations /\ last.version \in Nat /\ last.version <= server.version
  BY <1>1 DEF AnyViews, PageInv, LoadsInv, Seen
<1>3. /\ rot' = [mirror |-> 0, accepted |-> 0, state |-> s]
      /\ patch' = NoPatch /\ UNCHANGED <<server, pool, loads, writes, auto, put, late, gets>>
  BY DEF RemountRotation
<1> HIDE DEF first, last
<1>4. seeded \in Machines /\ (seeded.at = first.at \/ seeded.at = last.version)
  <2>1. first \in Machines /\ last.rotation \in Rotations /\ last.version \in Nat /\ 0 \in Nat
    BY <1>1, <1>2
  <2> QED
    BY <2>1, ValuesArrive
<1> HIDE DEF seeded
<1>5. s \in Machines /\ s.at <= server.version
  BY <1>1, <1>2, <1>4 DEF PageValues
<1> HIDE DEF s
<1>6. /\ rot' \in RotationCards /\ rot'.mirror = 0 /\ rot'.accepted = 0
      /\ rot'.state.at <= server.version
  BY <1>3, <1>5 DEF RotationCards
<1>7. mounts' \in [auto : Nat, rotation : Nat] /\ mounts'.rotation = mounts.rotation + 1
      /\ mounts'.auto = mounts.auto
  <2> DEFINE n == mounts.rotation + 1
  <2>1. n \in Nat /\ mounts' = [mounts EXCEPT !.rotation = n] /\ mounts \in [auto : Nat, rotation : Nat]
    BY <1>1 DEF RemountRotation, PageValues, PageInv, PageType
  <2> HIDE DEF n
  <2>2. mounts' \in [auto : Nat, rotation : Nat] /\ mounts'.rotation = n /\ mounts'.auto = mounts.auto
    BY <2>1
  <2> QED
    BY <2>2 DEF n
<1>9. patch' \in Patches /\ patch'.landed.version <= server.version
  BY <1>3, RotationValues
<1>8. PageType'
  BY <1>3, <1>6, <1>7, <1>9 DEF PageInv, PageType
<1> QED
  BY <1>3, <1>6, <1>7, <1>8, <1>9, RotationMounts

-----------------------------------------------------------------------------
(* The theorems. *)

(* The page before it has loaded. *)
LEMMA PageInit == PoolInit => PageInv
<1> SUFFICES ASSUME PoolInit PROVE PageInv
  OBVIOUS
<1>1. /\ server \in AnyServers /\ server.version = 1 /\ NoView \in AnyViews /\ NoView.version = 0
      /\ NoView.active = Null /\ NoView.pinned = Null
  BY FirstViews DEF PoolInit
<1>2. /\ auto \in AutoCards /\ auto.threshold.at = 0 /\ auto.deferred = NoThreshold
      /\ auto.saving = FALSE
  BY FirstAuto DEF PoolInit
<1>3. put \in Puts /\ put.waiting = FALSE /\ put.landed = 0
  BY NoPutType DEF PoolInit, NoPut
<1>4. /\ rot \in RotationCards /\ rot.accepted = 0 /\ rot.mirror = 0 /\ rot.state.at = 0
      /\ rot.state.revision = 0
  <2>1. rot = [state |-> INITIAL_POOL_ROTATION_STATE, mirror |-> 0, accepted |-> 0]
    BY DEF PoolInit
  <2> QED
    BY <2>1, FirstMachine DEF RotationCards
<1>5. patch \in Patches /\ patch.landed = NoView
  <2>1. patch = [waiting |-> FALSE, rotation |-> DEFAULT_POOL_ROTATION, moved |-> "none", landed |-> NoView]
    BY DEF PoolInit, NoPatch
  <2> HIDE DEF NoView
  <2> QED
    BY <1>1, <2>1, FirstMachine DEF Patches
<1>6. /\ loads = {} /\ writes = {} /\ late = {} /\ gets = {}
      /\ mounts \in [auto : Nat, rotation : Nat]
  BY DEF PoolInit
<1>7. /\ pool \in PoolRecords /\ pool.generation = 0 /\ pool.newest.gen = 0 /\ pool.newest.version = 0
      /\ pool.lastActive = NoView /\ pool.pendingActive = Unset /\ pool.activeId = Null
      /\ pool.pinnedId = Null
  <2>1. pool = [generation |-> 0, pendingActive |-> Unset, switchTarget |-> Unset, pause |-> Unset,
                priority |-> Unset, hasLoaded |-> FALSE, lastActive |-> NoView,
                newest |-> [gen |-> 0, version |-> 0], activeId |-> Null, pinnedId |-> Null,
                phase |-> "loading", firstAttemptSettled |-> FALSE, inflight |-> 0]
    BY DEF PoolInit, createPoolAuthority
  <2>2. Unset \in Markers /\ Unset \in MaybeIds /\ Null \in Ids /\ 0 \in Int
    BY DEF Markers, MaybeIds, Ids
  <2> HIDE DEF NoView
  <2> QED
    BY <1>1, <2>1, <2>2 DEF PoolRecords
<1>8. PageType
  BY <1>1, <1>2, <1>3, <1>4, <1>5, <1>6, <1>7 DEF PageType
<1>9. LoadsInv /\ NewestInv
  BY <1>1, <1>6, <1>7 DEF LoadsInv, NewestInv, Reconciled, Seen
<1>10. ThresholdInv
  <2>1. ~put.waiting /\ auto.saving = put.waiting
    BY <1>2, <1>3
  <2> QED
    BY <1>1, <1>2, <1>3, <1>6, <2>1 DEF ThresholdInv
<1>11. RotationInv
  BY <1>1, <1>4, <1>5, <1>6 DEF RotationInv
<1> QED
  BY <1>8, <1>9, <1>10, <1>11 DEF PageInv

(* Every step of the page or of the proxy. *)
LEMMA PageStep == PageInv /\ [PoolNext]_poolVars => PageInv' /\ NotOlder
<1> SUFFICES ASSUME PageInv, [PoolNext]_poolVars PROVE PageInv' /\ NotOlder
  OBVIOUS
<1>1. CASE LoadsNext
  BY <1>1, LoadKeeps, AnswerActiveKeeps, ListDoneKeeps, ActiveDoneKeeps DEF LoadsNext
<1>2. CASE MutationsNext(Kinds)
  BY <1>2, MutateKeeps, MutationLandsKeeps, MutationAcceptedKeeps, MutationRejectedKeeps
     DEF MutationsNext
<1>3. CASE AutoNext
  BY <1>3, EditKeeps, EscapeKeeps, CommitKeeps, ToggleKeeps, RemountAutoKeeps, PutLandsKeeps,
     PutAcceptedKeeps, PutFailedKeeps DEF AutoNext
<1>4. CASE RotationNext
  BY <1>4, ControlsKeep, MirrorRotationKeeps, ReloadRotationKeeps, RemountRotationKeeps,
     PatchLandsKeeps, PatchAcceptedKeeps, PatchRejectedKeeps, GetAnsweredKeeps, GetDoneKeeps
     DEF RotationNext
<1>5. CASE OtherThreshold \/ OtherRotation
  BY <1>5, OtherTabKeeps
<1>6. CASE UNCHANGED poolVars
  <2>1. UNCHANGED <<server, pool, loads, writes, auto, put, late, rot, patch, gets, mounts>>
    BY <1>6 DEF poolVars
  <2>2. PageInv'
    BY <2>1 DEF PageInv, PageType, LoadsInv, NewestInv, ThresholdInv, RotationInv, Reconciled, Seen, Taking
  <2>3. NotOlder
    BY <2>1, TypeGivesValues DEF NotOlder, PageInv, PageValues
  <2> QED
    BY <2>2, <2>3
<1> QED
  BY <1>1, <1>2, <1>3, <1>4, <1>5, <1>6 DEF PoolNext

(* What the page holds and what is under way for it agree with the proxy in every state.   *)
THEOREM PageInvariant == PoolSpec => []PageInv
<1>1. PageInv /\ [PoolNext]_poolVars => PageInv'
  BY PageStep
<1> QED
  BY <1>1, PageInit, PTL DEF PoolSpec

(* A read issued before a save, a late answer, a value held back during an edit or the end *)
(* of a save never replaces the threshold on the card by an older one, but for the default *)
(* that stands for an answer of GET /active without a body.                                *)
THEOREM ThresholdNeverGoesBack == PoolSpec => ThresholdNeverOlder
<1>1. PageInv /\ [PoolNext]_poolVars =>
          [mounts' = mounts => \/ auto'.threshold.at >= auto.threshold.at
                               \/ auto'.threshold = Threshold(DefaultThreshold, 0)]_poolVars
  BY PageStep DEF NotOlder, EmptyThreshold
<1> QED
  BY <1>1, PageInvariant, PTL DEF PoolSpec, ThresholdNeverOlder

(* The rotation the mounted card holds as confirmed is never older than the last write it  *)
(* saw accepted.                                                                           *)
THEOREM AcceptedRotationHolds == PoolSpec => []AcceptedRotationStays
<1>1. PageInv => AcceptedRotationStays
  <2> SUFFICES ASSUME PageInv PROVE AcceptedRotationStays
    OBVIOUS
  <2> QED
    BY RotationValues DEF AcceptedRotationStays
<1> QED
  BY <1>1, PageInvariant, PTL

(* Once everything has settled and the newest load read the proxy's present state, the     *)
(* page shows it, but for an account a mutation of the page left as pendingActive.         *)
THEOREM CaughtUpPageShows == PoolSpec => []CaughtUpShowsServer
<1>1. PageInv => CaughtUpShowsServer
  <2> SUFFICES ASSUME PageInv, CaughtUp PROVE /\ pool.pinnedId = server.pinned
                                             /\ \/ pool.activeId = ActiveView(server)
                                                \/ /\ pool.pendingActive # Unset
                                                   /\ pool.activeId = pool.pendingActive
    BY DEF CaughtUpShowsServer
  <2>1. pool.newest.gen = pool.generation /\ pool.newest.version = server.version
    BY DEF CaughtUp
  <2>2. Reconciled(pool) /\ (pool.pendingActive # Unset => pool.activeId = pool.pendingActive)
    BY <2>1 DEF PageInv, NewestInv
  <2>3. pool.lastActive = View(server)
    BY <2>1, <2>2 DEF PageInv, LoadsInv, Reconciled, Seen
  <2>4. pool.lastActive.pinned = server.pinned /\ pool.lastActive.active = ActiveView(server)
    BY <2>3, ViewType DEF PageInv, PageType
  <2> QED
    BY <2>2, <2>4 DEF Reconciled
<1> QED
  BY <1>1, PageInvariant, PTL
=============================================================================
