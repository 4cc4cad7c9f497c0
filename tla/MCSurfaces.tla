------------------------------ MODULE MCSurfaces ------------------------------
(***************************************************************************)
(* The TypeScript parts side by side, one at work in each behaviour: the   *)
(* keyed resources of a page, the Codex pool with an operator who works on *)
(* one of its parts while another tab writes the same part, the dialog     *)
(* that logs an account in, with the proxy behind it, or a release.        *)
(***************************************************************************)
EXTENDS ClientResource, CodexPool, CodexLogin, Release

CONSTANTS Surfaces    \* what may be at work
VARIABLE surface

MCKeyOf == [w \in Watchers |-> IF w = "other" THEN "k2" ELSE "k1"]
MCPollMs == [w \in Watchers |-> CASE w = "still" -> 0 [] w = "slow" -> 2 [] OTHER -> 1]
MCPauseWhenHidden == [w \in Watchers |-> w # "eager"]
MCMaxEpoch == [k \in Keys |-> IF k = "k1" THEN 4 - Cardinality(Keys) ELSE 1]

surfaceVars == <<resourceVars, poolVars, loginVars, releaseVars, surface>>

MCInit ==
    /\ ResourceInit /\ PoolInit /\ LoginInit /\ ReleaseInit /\ surface \in Surfaces
    /\ surface = "resources" \/ ~hidden
    /\ surface = "login" \/ poolRows = NoGrant.seen

(* Bound: three components watch a key through two of its generations only. *)
NotCrowded == \A k \in Keys : res[k].epoch > 2 => Len(res[k].watchers) <= 1

(* Bound: a card that was mounted again, a page whose last read had no body, and an       *)
(* operator who edits the rows meet two versions of the proxy's state; the first two see  *)
(* one load and one mutation at a time, and both together no load.                        *)
Again == mounts # [auto |-> 1, rotation |-> 1]
Bodiless == pool.lastActive = EmptyView

FewChanges ==
    /\ Again \/ Bodiless \/ surface = "rows" => server.version <= 2
    /\ Again \/ Bodiless => Cardinality(loads) <= 1 /\ Cardinality(writes) <= 1
    /\ Again /\ Bodiless => loads = {}

(* Bound: with a dialog that was mounted again one grant reaches the proxy in all, and    *)
(* with a second login one of each login.                                                 *)
FewGrants ==
    LET used == {g \in Grants : grants[g] # NoGrant}
    IN  /\ dialog.session > 1 => Cardinality(used) <= 1
        /\ Cardinality({f \in Flows : logins[f].pc # "idle"}) > 1 =>
                \A g, h \in used : g[1] = h[1] => g = h

(* Bound: with a third commit one workflow run is dispatched. *)
OneRunLater == commits > 2 => Cardinality({i \in RunIds : runs[i] # NoRun}) <= 1

OnPool ==
    \/ LoadsNext
    \/ surface = "pause" /\ MutationsNext({"switch", "pause"})
    \/ surface = "order" /\ MutationsNext({"switch", "priority"})
    \/ surface = "rows" /\ MutationsNext({"switch", "resume", "bulk", "alias", "remove"})
                         /\ Cardinality(writes') <= 1
    \/ surface = "threshold" /\ (AutoNext \/ OtherThreshold)
    \/ surface = "rotation" /\ (RotationNext \/ OtherRotation)

MCNext ==
    /\ UNCHANGED surface
    /\ \/ /\ surface = "resources" /\ ResourceNext /\ NotCrowded'
          /\ UNCHANGED <<poolVars, loginVars, releaseVars>>
       \/ /\ surface = "release" /\ ReleaseNext /\ OneRunLater'
          /\ UNCHANGED <<resourceVars, poolVars, loginVars>>
       \/ /\ surface = "login" /\ LoginNext /\ FewGrants'
          /\ UNCHANGED <<resourceVars, poolVars, releaseVars>>
       \/ /\ surface \notin {"resources", "release", "login"} /\ OnPool /\ FewChanges'
          /\ UNCHANGED <<resourceVars, loginVars, releaseVars>>

MCSpec == MCInit /\ [][MCNext]_surfaceVars
MCLiveSpec == MCSpec /\ ResourceFairness /\ PoolFairness /\ LoginFairness /\ ReleaseFairness
=============================================================================
