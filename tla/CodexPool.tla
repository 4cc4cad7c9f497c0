------------------------------ MODULE CodexPool ------------------------------
(***************************************************************************)
(* The Codex account pool of the dashboard: the controller                 *)
(* (gui/src/hooks/useCodexAccountPool.ts with codex-account-pool-domain.ts) *)
(* whose loads feed the auto-switch card and the rotation card, the writes *)
(* of all three, and the proxy behind /api/codex-auth, which other tabs    *)
(* and the CLI write too.                                                  *)
(*                                                                         *)
(* An action is one callback of the browser or one request at the proxy:   *)
(* requests reach the proxy and answers come back in any order, and an     *)
(* answer can be lost after the proxy did what it was asked.  Every change *)
(* of the proxy's state has a version; what the browser read carries it.   *)
(* Of GET /accounts only success and failure count: what the rows show is  *)
(* left out.                                                               *)
(***************************************************************************)
EXTENDS AutoSwitch, PoolRotation, FiniteSets

CONSTANTS Accounts,    \* the ids of the pool's rows
          Main,        \* MAIN_ACCOUNT_ID, which cannot be removed
          MaxChanges, \* bound: versions of the proxy's state
          MaxLoads,    \* bound: loads of the controller
          MaxWrites,   \* bound: mutations of the controller in flight
          MaxSaves,    \* bound: writes of a card, which has two revisions for each
          MaxMounts    \* bound: mounts of each card

ASSUME PoolAssumption ==
    /\ Main \in Accounts /\ MaxChanges \in Nat /\ MaxLoads \in Nat /\ MaxSaves \in Nat
    /\ MaxWrites \in Nat /\ MaxMounts \in Nat
    /\ {"null", "unset"} \cap Accounts = {}

VARIABLES server, \* the proxy's state
          pool,   \* the authority, the snapshot and the activity of the controller
          loads,  \* loads whose requests have not both settled
          writes, \* mutations of the controller in flight
          auto,   \* the auto-switch card, and the PUT it waits for
          put,
          late,   \* thresholds of PUTs nobody waits for any more
          rot,    \* the rotation card, and the PUT it waits for
          patch,
          gets,   \* the rotation card's own reads in flight
          mounts  \* how often each card was mounted

poolVars == <<server, pool, loads, writes, auto, put, late, rot, patch, gets, mounts>>
cards == <<auto, put, late, rot, patch, gets, mounts>>

Null == "null"
Unset == "unset"  \* no pendingActive, no marker
Ids == Accounts \cup {Null}

(* The accounts, the routing state and the settings the proxy keeps in its configuration. *)
NoServer == [version |-> 0, listed |-> {}, paused |-> {}, active |-> Null, pinned |-> Null,
             threshold |-> 0, rotation |-> DEFAULT_POOL_ROTATION]
FirstServer == [NoServer EXCEPT !.version = 1, !.listed = Accounts, !.threshold = DefaultThreshold]

(* What GET /active answers: codexAuthActiveView, which falls back to the pin. *)
ActiveView(s) == IF s.active = Null THEN s.pinned ELSE s.active
View(s) == [version |-> s.version, active |-> ActiveView(s), pinned |-> s.pinned,
            threshold |-> s.threshold, rotation |-> s.rotation]
NoView == View(NoServer)
(* readPayload turns a body that fails or is cut off under a good status into {}: no id, no
   pin, no rotation, and a threshold that normalizes to the default. *)
EmptyView == [NoView EXCEPT !.threshold = DefaultThreshold]

createPoolAuthority ==
    [generation |-> 0, pendingActive |-> Unset, switchTarget |-> Unset, pause |-> Unset,
     priority |-> Unset, hasLoaded |-> FALSE,
     lastActive |-> NoView,
     newest |-> [gen |-> 0, version |-> 0], \* the newest load whose read came in, and its age
     activeId |-> Null, pinnedId |-> Null, phase |-> "loading", firstAttemptSettled |-> FALSE,
     inflight |-> 0]

NoPut == [waiting |-> FALSE, plan |-> [threshold |-> 0, lastEnabled |-> 0], toggle |-> FALSE,
          previous |-> NoThreshold, landed |-> 0]
NoPatch == [waiting |-> FALSE, rotation |-> DEFAULT_POOL_ROTATION, moved |-> "none",
            landed |-> NoView]

PoolInit ==
    /\ server = FirstServer /\ pool = createPoolAuthority /\ loads = {} /\ writes = {}
    /\ auto = initialAutoSwitchState /\ put = NoPut /\ late = {}
    /\ rot = [state |-> INITIAL_POOL_ROTATION_STATE, mirror |-> 0, accepted |-> 0]
    /\ patch = NoPatch /\ gets = {} /\ mounts = [auto |-> 1, rotation |-> 1]

-----------------------------------------------------------------------------
(* The proxy: codex_auth_api.go, codex_auth_routing.go, codex_auth_quota.go. *)

Changed(s) == [s EXCEPT !.version = server.version + 1]
Unpinned(s, ids) ==
    IF s.active \in ids \/ s.pinned \in ids THEN [s EXCEPT !.active = Null, !.pinned = Null] ELSE s

(* What a mutation leaves; all accounts are exhausted when the bulk pause looks, and
   a switch to a paused or missing account is refused. *)
Applied(w) ==
    CASE w.kind = "switch" -> [server EXCEPT !.active = w.id, !.pinned = w.id]
      [] w.kind = "pause" -> Unpinned([server EXCEPT !.paused = @ \cup {w.id}], {w.id})
      [] w.kind = "resume" -> [server EXCEPT !.paused = @ \ {w.id}]
      [] w.kind = "bulk" -> Unpinned([server EXCEPT !.paused = server.listed], server.listed)
      [] w.kind = "priority" -> [server EXCEPT !.pinned = Null]
      [] w.kind = "alias" -> server
      [] w.kind = "remove" -> [server EXCEPT !.listed = @ \ {w.id},
                                             !.active = IF @ = w.id THEN Null ELSE @,
                                             !.pinned = IF @ = w.id THEN Null ELSE @]

Refused(w) ==
    \/ w.kind = "switch" /\ w.id \in server.paused
    \/ w.kind \in {"switch", "pause", "resume", "priority", "alias"} /\ w.id \notin server.listed
    \/ w.kind \in {"remove", "alias"} /\ w.id = Main

(* Another tab, or the CLI, changes a setting.  What it does to the accounts is what a
   mutation of this tab does whose answer is lost. *)
OtherTab(changed) ==
    /\ server.version < MaxChanges
    /\ server' = Changed(changed)
    /\ UNCHANGED <<pool, loads, writes, cards>>

OtherThreshold == \E t \in (0 .. MaxThreshold) \ {server.threshold} : OtherTab([server EXCEPT !.threshold = t])
OtherRotation == \E r \in Rotations \ {server.rotation} : OtherTab([server EXCEPT !.rotation = r])

-----------------------------------------------------------------------------
(* Loads.                                                                  *)

(* load() of the controller p: a new generation, and beginActiveRead of both cards. *)
Begun(p, refreshQuota) ==
    [p EXCEPT !.generation = @ + 1, !.inflight = @ + 1,
              !.phase = IF ~refreshQuota /\ ~p.hasLoaded THEN "loading" ELSE @]

NewLoad(p) ==
    [gen |-> p.generation + 1, list |-> "sent", active |-> "sent", view |-> NoView, autoRevision |-> auto.revision, rotRevision |-> rot.mirror,
     autoMount |-> mounts.auto, rotMount |-> mounts.rotation]

(* p is the controller when load() is called, s the auto-switch card. *)
LoadFrom(p, refreshQuota, s) ==
    /\ p.generation < MaxLoads
    /\ pool' = Begun(p, refreshQuota)
    /\ loads' = loads \cup {NewLoad(p)}
    /\ auto' = [s EXCEPT !.loadError = FALSE]

(* The mount effect, the poll, the quota top-up, retry and syncAfterAccountAdded. *)
Load(refreshQuota) ==
    /\ LoadFrom(pool, refreshQuota, auto)
    /\ UNCHANGED <<server, writes, put, late, rot, patch, gets, mounts>>

(* GET /active reaches the proxy. *)
AnswerActive(l) ==
    /\ l.active = "sent" /\ l.view = NoView
    /\ loads' = (loads \ {l}) \cup {[l EXCEPT !.view = View(server)]}
    /\ UNCHANGED <<server, pool, writes, cards>>

(* Mutant: an answer is painted whatever load was started since. *)
everyLoadIsCurrent(l) == TRUE

current(l) == l.gen = pool.generation

(* Mutant: a superseded load returns before it takes itself off the count. *)
settledOnlyCurrent(l, p) ==
    /\ loads' = {x \in loads : x.gen # l.gen}
                   \cup IF l.list = "sent" \/ l.active = "sent" THEN {l} ELSE {}
    /\ pool' = IF l.list = "sent" \/ l.active = "sent" \/ ~current(l) THEN p
               ELSE [p EXCEPT !.inflight = @ - 1, !.firstAttemptSettled = TRUE]

(* The end of load() when l was the last request under way; p is the controller by then. *)
Settled(l, p) ==
    IF l.list = "sent" \/ l.active = "sent"
    THEN /\ loads' = {x \in loads : x.gen # l.gen} \cup {l}
         /\ pool' = p
    ELSE /\ loads' = {x \in loads : x.gen # l.gen}
         /\ pool' = [p EXCEPT !.inflight = @ - 1, !.firstAttemptSettled = TRUE,
                              !.hasLoaded = @ \/ (current(l) /\ l.list = "ok"),
                              !.phase = IF current(l) /\ l.list = "failed" /\ ~p.hasLoaded
                                        THEN "error" ELSE @]

ListDone(l, ok) ==
    /\ l.list = "sent"
    /\ Settled([l EXCEPT !.list = IF ok THEN "ok" ELSE "failed"],
               IF ok /\ current(l)
               THEN [pool EXCEPT !.hasLoaded = TRUE, !.phase = "ready"]
               ELSE pool)
    /\ UNCHANGED <<server, writes, cards>>

reconcileActiveRead(id, pending) == pending = Unset \/ id = pending

(* The /active read of the newest load, whose body says v: the controller, then
   acceptObserverReads.  The rotation card takes nothing from an empty body. *)
AcceptActive(l, v) ==
    LET id == v.active
        accept == reconcileActiveRead(id, pool.pendingActive)
    IN  /\ Settled([l EXCEPT !.active = "ok"],
                   [pool EXCEPT !.pendingActive = IF accept THEN Unset ELSE @,
                                !.activeId = IF accept THEN id ELSE @,
                                !.lastActive = v,
                                !.newest = IF l.gen > @.gen
                                           THEN [gen |-> l.gen, version |-> v.version] ELSE @,
                                !.pinnedId = v.pinned])
        /\ auto' = IF l.autoMount # mounts.auto THEN auto
                   ELSE acceptServerRead(auto, Threshold(v.threshold, v.version), l.autoRevision)
        /\ rot' = IF l.rotMount # mounts.rotation \/ v = EmptyView THEN rot
                  ELSE [rot EXCEPT !.state = serverValuesArrived(@, v.rotation, v.version,
                                                                 l.rotRevision)]

RejectActive(l) ==
    /\ Settled([l EXCEPT !.active = "failed"], pool)
    /\ auto' = IF current(l) /\ l.autoMount = mounts.auto THEN rejectServerRead(auto) ELSE auto
    /\ rot' = IF current(l) /\ l.rotMount = mounts.rotation
              THEN [rot EXCEPT !.state = serverReadFailed(@)] ELSE rot

Outcomes == {"ok", "empty", "failed"}

(* The read fails, or the proxy's answer is there: with its body, or without. *)
ActiveDone(l, outcome) ==
    /\ l.active = "sent" /\ (outcome # "failed" => l.view # NoView)
    /\ IF outcome = "failed" THEN RejectActive(l)
       ELSE IF current(l) THEN AcceptActive(l, IF outcome = "ok" THEN l.view ELSE EmptyView)
       ELSE Settled([l EXCEPT !.active = "ok"], pool) /\ UNCHANGED <<auto, rot>>
    /\ UNCHANGED <<server, writes, put, late, patch, gets, mounts>>

-----------------------------------------------------------------------------
(* Mutations of the controller: runPoolMutation and what follows it.       *)

(* The gates: a switch and an order write exclude each other, pauses exclude pauses. *)
claim(kind) ==
    CASE kind \in {"switch", "priority"} -> pool.switchTarget = Unset /\ pool.priority = Unset
      [] kind \in {"pause", "resume", "bulk"} -> pool.pause = Unset
      [] OTHER -> TRUE

Marked(p, kind, mark) ==
    CASE kind = "switch" -> [p EXCEPT !.switchTarget = mark]
      [] kind = "priority" -> [p EXCEPT !.priority = mark]
      [] kind \in {"pause", "resume", "bulk"} -> [p EXCEPT !.pause = mark]
      [] OTHER -> p

(* The operator's next mutation, while fewer than MaxWrites are in flight. *)
Mutate(kind, id) ==
    /\ claim(kind)
    /\ Cardinality(writes) < MaxWrites
    /\ ~\E w \in writes : w.kind = kind /\ w.id = id
    /\ pool' = Marked(pool, kind, id)
    /\ writes' = writes \cup {[kind |-> kind, id |-> id, landed |-> NoView,
                                    pausedIds |-> {}]}
    /\ UNCHANGED <<server, loads, cards>>

MutationLands(w) ==
    /\ w.landed = NoView /\ ~Refused(w) /\ server.version < MaxChanges
    /\ server' = Changed(Applied(w))
    /\ writes' = (writes \ {w}) \cup {[w EXCEPT !.landed = View(server'),
                                                     !.pausedIds = server'.paused \ server.paused]}
    /\ UNCHANGED <<pool, loads, cards>>

(* What an accepted mutation paints; its load() paints the rest.  Without a body the answer
   names neither the active account nor what the bulk pause paused. *)
Painted(w, body) ==
    LET p == Marked(pool, w.kind, Unset)
        told == IF body THEN [p EXCEPT !.pendingActive = w.landed.active,
                                       !.activeId = w.landed.active]
                ELSE p
        ids == IF w.kind = "pause" THEN {w.id} ELSE IF body THEN w.pausedIds ELSE {}
    IN  CASE w.kind = "switch" -> [p EXCEPT !.pendingActive = w.id, !.activeId = w.id,
                                            !.pinnedId = w.id]
          [] w.kind \in {"pause", "bulk"} -> [told EXCEPT !.pinnedId = IF @ \in ids THEN Null ELSE @]
          [] w.kind = "resume" -> told
          [] w.kind = "priority" -> [p EXCEPT !.pendingActive = Unset, !.pinnedId = Null]
          [] OTHER -> p

MutationAccepted(w, body) ==
    /\ w.landed # NoView
    /\ writes' = writes \ {w}
    /\ LoadFrom(Painted(w, body), FALSE, auto)
    /\ UNCHANGED <<server, put, late, rot, patch, gets, mounts>>

(* The request fails, before or after it landed, or is refused. *)
MutationRejected(w) ==
    /\ writes' = writes \ {w}
    /\ pool' = Marked(pool, w.kind, Unset)
    /\ UNCHANGED <<server, loads, cards>>

-----------------------------------------------------------------------------
(* The auto-switch card.  Its controls are disabled while it saves and     *)
(* before the first read; the field is there while the threshold is on.    *)

AutoEnabled == auto.hydrated /\ ~auto.saving
AutoMaySave == auto.revision < 2 * MaxSaves
FieldShown == AutoEnabled /\ auto.threshold.value > 0

autoOnly == <<server, pool, loads, writes, rot, patch, gets, mounts>>

Focus ==
    /\ FieldShown /\ ~auto.editing
    /\ auto' = [auto EXCEPT !.editing = TRUE]
    /\ UNCHANGED <<put, late, autoOnly>>

Type(draft) ==
    /\ FieldShown
    /\ auto' = [auto EXCEPT !.editing = TRUE, !.cancelledDraft = FALSE, !.draft = draft]
    /\ UNCHANGED <<put, late, autoOnly>>

Escape ==
    /\ FieldShown /\ auto.editing
    /\ auto' = draftCancelled(auto)
    /\ UNCHANGED <<put, late, autoOnly>>

(* Enter, or leaving the field. *)
Commit ==
    /\ FieldShown /\ (commitWrites(auto) => AutoMaySave)
    /\ IF commitWrites(auto)
       THEN /\ auto' = saveBegan(auto)
            /\ put' = [NoPut EXCEPT !.waiting = TRUE, !.previous = auto.threshold,
                                    !.plan.threshold = auto.draft]
       ELSE auto' = commitWithoutWrite(auto) /\ UNCHANGED put
    /\ UNCHANGED <<late, autoOnly>>

(* The pointer went to the switch: the field is left without a commit. *)
Blur ==
    /\ auto.editing
    /\ auto' = [auto EXCEPT !.editing = FALSE]
    /\ UNCHANGED <<put, late, autoOnly>>

Toggle ==
    /\ AutoEnabled /\ AutoMaySave
    /\ auto' = saveBegan(auto)
    /\ put' = [NoPut EXCEPT !.waiting = TRUE, !.previous = auto.threshold, !.toggle = TRUE,
                            !.plan = planAutoSwitchToggleWrite(auto)]
    /\ UNCHANGED <<late, autoOnly>>

PutLands ==
    /\ put.waiting /\ put.landed = 0 /\ server.version < MaxChanges
    /\ server' = Changed([server EXCEPT !.threshold = put.plan.threshold])
    /\ put' = [put EXCEPT !.landed = server'.version]
    /\ UNCHANGED <<pool, loads, writes, auto, late, rot, patch, gets, mounts>>

PutAccepted ==
    LET saved == saveAccepted(auto, Threshold(put.plan.threshold, put.landed)) IN
    /\ put.waiting /\ put.landed # 0
    /\ auto' = IF put.toggle THEN toggleApplied(saved, put.plan) ELSE saved
    /\ put' = NoPut
    /\ UNCHANGED <<late, autoOnly>>

(* An error or the timeout of the PUT, which may land all the same. *)
PutFailed ==
    /\ put.waiting
    /\ auto' = saveRejected(auto, put.previous)
    /\ put' = NoPut
    /\ late' = IF put.landed = 0 THEN late \cup {put.plan.threshold} ELSE late
    /\ UNCHANGED autoOnly

LatePutLands(t) ==
    /\ t \in late /\ server.version < MaxChanges
    /\ server' = Changed([server EXCEPT !.threshold = t])
    /\ late' = late \ {t}
    /\ UNCHANGED <<pool, loads, writes, auto, put, rot, patch, gets, mounts>>

(* The section is closed and opened: a new card, seeded from the pool's last payload. *)
RemountAuto ==
    /\ mounts.auto < MaxMounts
    /\ mounts' = [mounts EXCEPT !.auto = @ + 1]
    /\ auto' = hydrateServerValue(initialAutoSwitchState,
                  Threshold(pool.lastActive.threshold, pool.lastActive.version))
    /\ put' = NoPut
    /\ late' = IF put.waiting /\ put.landed = 0 THEN late \cup {put.plan.threshold} ELSE late
    /\ UNCHANGED <<server, pool, loads, writes, rot, patch, gets>>

-----------------------------------------------------------------------------
(* The rotation card.  machineRef mirrors the machine after React commits: *)
(* reads begin with the mirror's revision.                                 *)

rotOnly == <<server, pool, loads, writes, auto, put, late, mounts>>

MirrorRotation ==
    /\ rot.mirror # rot.state.revision
    /\ rot' = [rot EXCEPT !.mirror = rot.state.revision]
    /\ UNCHANGED <<patch, gets, rotOnly>>

(* The revision is odd while the machine saves. *)
MirrorSaves == rot.mirror % 2 = 1

(* The write of a rotation: a strategy shows at once, a limit when it is accepted.  write()
   looks at the mirror, and drops what it is given while that still saves. *)
WriteRotation(rotation, moved) ==
    LET shown == IF moved = "strategy" THEN [rot.state EXCEPT !.visible = rotation] ELSE rot.state
    IN  /\ ~controlsLocked(rot.state) /\ rot.state.revision < 2 * MaxSaves
        /\ rotation # rot.state.visible
        /\ IF MirrorSaves
           THEN rot' = [rot EXCEPT !.state = shown] /\ UNCHANGED patch
           ELSE /\ rot' = [rot EXCEPT !.state = writeStarted(shown)]
                /\ patch' = [NoPatch EXCEPT !.waiting = TRUE, !.rotation = rotation, !.moved = moved]
        /\ UNCHANGED <<gets, rotOnly>>

ChooseStrategy(strategy) ==
    WriteRotation(Rotation(strategy, rot.state.visible.stickyLimit), "strategy")
CommitSticky(limit) ==
    WriteRotation(Rotation(rot.state.visible.strategy, limit), "stickyLimit")

(* putCodexPoolStrategy sends every field of the rotation. *)
PatchLands ==
    /\ patch.waiting /\ patch.landed = NoView /\ server.version < MaxChanges
    /\ server' = Changed([server EXCEPT !.rotation = patch.rotation])
    /\ patch' = [patch EXCEPT !.landed = View(server')]
    /\ UNCHANGED <<pool, loads, writes, auto, put, late, rot, gets, mounts>>

PatchAccepted ==
    /\ patch.waiting /\ patch.landed # NoView
    /\ rot' = [rot EXCEPT !.state = writeAccepted(@, patch.landed.rotation, patch.landed.version),
                          !.accepted = patch.landed.version]
    /\ patch' = NoPatch
    /\ UNCHANGED <<gets, rotOnly>>

PatchRejected ==
    /\ patch.waiting
    /\ rot' = [rot EXCEPT !.state = writeRejected(@)]
    /\ patch' = NoPatch
    /\ UNCHANGED <<gets, rotOnly>>

NewGet == [revision |-> rot.state.revision, mount |-> mounts.rotation, view |-> NoView]

(* The effect that replays a held read once, and the card's retry button. *)
ReloadRotation ==
    /\ \/ rot.state.heldRead /\ ~rot.state.saving
       \/ rot.state.readFailed
    /\ gets = {}   \* bound: one own read at a time
    /\ gets' = gets \cup {NewGet}
    /\ rot' = [rot EXCEPT !.state.heldRead = FALSE, !.mirror = rot.state.revision]
    /\ UNCHANGED <<patch, rotOnly>>

GetAnswered(g) ==
    /\ g.view = NoView
    /\ gets' = (gets \ {g}) \cup {[g EXCEPT !.view = View(server)]}
    /\ UNCHANGED <<rot, patch, rotOnly>>

GetDone(g, ok) ==
    /\ ok => g.view # NoView
    /\ gets' = gets \ {g}
    /\ rot' = IF g.mount # mounts.rotation THEN rot
              ELSE IF ~ok THEN [rot EXCEPT !.state = serverReadFailed(@)]
              ELSE [rot EXCEPT !.state = serverValuesArrived(@, g.view.rotation, g.view.version,
                                                             g.revision)]
    /\ UNCHANGED <<patch, rotOnly>>

(* The panel is closed and opened: a new machine, seeded from the pool's last payload if that
   has a rotation.  A write under way is answered to nobody; it may land as OtherRotation. *)
RemountRotation ==
    LET first == INITIAL_POOL_ROTATION_STATE
        last == pool.lastActive
    IN  /\ mounts.rotation < MaxMounts
        /\ mounts' = [mounts EXCEPT !.rotation = @ + 1]
        /\ rot' = [mirror |-> 0, accepted |-> 0,
                    state |-> IF last \in {NoView, EmptyView} THEN first
                               ELSE serverValuesArrived(first, last.rotation, last.version, 0)]
        /\ patch' = NoPatch
        /\ UNCHANGED <<server, pool, loads, writes, auto, put, late, gets>>

-----------------------------------------------------------------------------
LoadsNext ==
    \/ \E refreshQuota \in BOOLEAN : Load(refreshQuota)
    \/ \E l \in loads : AnswerActive(l)
    \/ \E l \in loads, ok \in BOOLEAN : ListDone(l, ok)
    \/ \E l \in loads, outcome \in Outcomes : ActiveDone(l, outcome)

Kinds == {"switch", "pause", "resume", "bulk", "priority", "alias", "remove"}

(* The bulk pause names no account. *)
MutationsNext(kinds) ==
    \/ \E kind \in kinds, id \in Accounts : (kind = "bulk" => id = Main) /\ Mutate(kind, id)
    \/ \E w \in writes : MutationLands(w) \/ MutationRejected(w)
    \/ \E w \in writes, body \in BOOLEAN : MutationAccepted(w, body)

AutoNext ==
    \/ Focus \/ Escape \/ Commit \/ Blur \/ Toggle \/ RemountAuto
    \/ \E draft \in 0 .. MaxThreshold : Type(draft)
    \/ PutLands \/ PutAccepted \/ PutFailed \/ \E t \in late : LatePutLands(t)

RotationNext ==
    \/ \E strategy \in Strategies : ChooseStrategy(strategy)
    \/ \E limit \in Limits : CommitSticky(limit)
    \/ MirrorRotation \/ ReloadRotation \/ RemountRotation
    \/ PatchLands \/ PatchAccepted \/ PatchRejected
    \/ \E g \in gets : GetAnswered(g) \/ \E ok \in BOOLEAN : GetDone(g, ok)

PoolNext == LoadsNext \/ MutationsNext(Kinds) \/ AutoNext \/ RotationNext
            \/ OtherThreshold \/ OtherRotation
PoolSpec == PoolInit /\ [][PoolNext]_poolVars

(***************************************************************************)
(* Timeouts fire: loads are bounded by LOAD_TIMEOUT_MS, which fails the    *)
(* read or cuts off its body, and the threshold's PUT by                   *)
(* AUTO_SWITCH_PUT_TIMEOUT_MS.  The proxy may never answer, and no other   *)
(* write of the page has a timeout.                                        *)
(***************************************************************************)
PoolFairness ==
    /\ WF_poolVars(\E l \in loads : ListDone(l, FALSE))
    /\ WF_poolVars(\E l \in loads, outcome \in {"failed", "empty"} : ActiveDone(l, outcome))
    /\ WF_poolVars(PutFailed)

-----------------------------------------------------------------------------
ServerStates ==
    [version : 1 .. MaxChanges, listed : SUBSET Accounts, paused : SUBSET Accounts, active : Ids,
     pinned : Ids, threshold : 0 .. MaxThreshold, rotation : Rotations]
Views == [version : 0 .. MaxChanges, active : Ids, pinned : Ids, threshold : 0 .. MaxThreshold,
          rotation : Rotations]
Readings == [value : 0 .. MaxThreshold, at : 0 .. MaxChanges]

(* The state of the pool and of its cards has the shape the code gives it. *)
PoolTypeOK ==
    /\ server \in ServerStates /\ pool.lastActive \in Views
    /\ pool.pendingActive \in Ids \cup {Unset} /\ pool.activeId \in Ids /\ pool.pinnedId \in Ids
    /\ pool.inflight = Cardinality(loads)
    /\ auto.threshold \in Readings /\ auto.deferred \in Readings
    /\ auto.lastEnabled \in 1 .. MaxThreshold /\ auto.draft \in 0 .. MaxThreshold
    /\ auto.saving = put.waiting /\ rot.state.saving = patch.waiting
    /\ rot.state.confirmed \in Rotations /\ rot.state.visible \in Rotations

(* Nothing is under way and the newest load brought the proxy's present state. *)
CaughtUp ==
    /\ loads = {} /\ writes = {}
    /\ pool.newest = [gen |-> pool.generation, version |-> server.version]

(***************************************************************************)
(* Once everything has settled and the newest load read the present state, *)
(* the page shows it: the pin badge is the proxy's, and so is the active   *)
(* account, unless a switch or a pause left the account it was told as     *)
(* pendingActive, which no disagreeing read removes.  Loads overtake each  *)
(* other, mutations land while they are under way, and answers get lost.   *)
(***************************************************************************)
CaughtUpShowsServer ==
    CaughtUp =>
        /\ pool.pinnedId = server.pinned
        /\ \/ pool.activeId = ActiveView(server)
           \/ pool.pendingActive # Unset /\ pool.activeId = pool.pendingActive

(***************************************************************************)
(* "A read that disagrees with an accepted-but-unreconciled id is stale on *)
(* this pass; the next load reconciles" (codex-account-pool-domain.ts:     *)
(* 172-173): with nothing under way and the present state read, the page   *)
(* shows the account the proxy has active.                                 *)
(***************************************************************************)
DisagreeingReadIsStale == CaughtUp => pool.activeId = ActiveView(server)

(***************************************************************************)
(* Reads, late answers, saves and their failures never replace the         *)
(* threshold on the card by an older one: a GET issued before a save       *)
(* cannot undo the accepted value, and a value held back during an edit is *)
(* not released over a newer one.  One value is excepted, the default that *)
(* an answer of GET /active without a body stands for: it does replace a   *)
(* confirmed threshold (readPayload, acceptServerRead), although the card  *)
(* says of itself that it writes no unconfirmed default.  Nothing else     *)
(* that is older than what the card shows replaces it.                     *)
(***************************************************************************)
ThresholdNeverOlder ==
    [][mounts' = mounts => \/ auto'.threshold.at >= auto.threshold.at
                           \/ auto'.threshold = Threshold(DefaultThreshold, 0)]_poolVars

(***************************************************************************)
(* "the GET issued before it cannot undo the accepted values": the         *)
(* rotation the mounted card holds as confirmed is never older than the    *)
(* last write it saw accepted, although its own reads and the pool's       *)
(* overtake each other and begin at the revision of a lagging mirror.  A   *)
(* card that is mounted again starts from the pool's last payload, which   *)
(* may be older.                                                           *)
(***************************************************************************)
AcceptedRotationStays == rot.state.at >= rot.accepted

(* A save of the threshold ends, also when the proxy never answers. *)
ThresholdSaveEnds == auto.saving ~> ~auto.saving

(* "a hung accounts/active read must settle": the refreshing mark goes out. *)
RefreshingMarkEnds == pool.inflight > 0 ~> pool.inflight = 0
=============================================================================
