--------------------------- MODULE ClientResource ---------------------------
(***************************************************************************)
(* The keyed resource runtime of the dashboard (gui/src/client-resource.ts *)
(* with the rules of client-resource-policy.ts): one Resource per key that *)
(* components join and leave, one attempt in flight, a polling pulse, one  *)
(* visibility listener for the page, and eviction after the last leave.    *)
(*                                                                         *)
(* The browser runs one callback at a time: an action is one callback.     *)
(* Every await of ask() is a point where other callbacks run, so an        *)
(* attempt stays in "flights" until its promise settles, also when it was  *)
(* aborted.  A value is the version of the server's state it was read      *)
(* from.  emit() only re-renders and is left out, and so is hasSucceeded,  *)
(* which is true exactly when data was ever set.                           *)
(***************************************************************************)
EXTENDS Integers, Sequences, FiniteSets

CONSTANTS Keys,
          Watchers,        \* mounted components, one useClientResource each
          KeyOf,           \* the key a component asks for
          PollMs,          \* its pollMs, 0 for none
          PauseWhenHidden, \* its pauseWhenHidden
          StaleAware,      \* the components that pass staleAfterMs
          MaxVersion,      \* bound: versions of the server's state
          MaxEpoch,        \* bound: generations of a key
          MaxTimers        \* bound: eviction timers of a key at once

ASSUME ResourceAssumption ==
    /\ KeyOf \in [Watchers -> Keys] /\ PollMs \in [Watchers -> Nat]
    /\ PauseWhenHidden \in [Watchers -> BOOLEAN] /\ StaleAware \subseteq Watchers
    /\ MaxVersion \in Nat \ {0} /\ MaxEpoch \in [Keys -> Nat] /\ MaxTimers \in Nat
    /\ "nobody" \notin Watchers

VARIABLES version,      \* the server's current state
          hidden,       \* document.visibilityState
          pageListener, \* whether the visibilitychange listener is bound
          res,          \* table: the Resource of each key
          evictions     \* eviction timers pending for the Resource of a key

resourceVars == <<version, hidden, pageListener, res, evictions>>

NoData == 0      \* undefined
NullData == -1   \* the null an owner abort resolves the race with
Nobody == "nobody"

emptyResourceSnapshot ==
    [data |-> NoData, error |-> FALSE, loading |-> FALSE, refreshing |-> FALSE,
     lastAttemptOk |-> FALSE]

resourceInFlightSnapshot(s, forceLoading) ==
    [data |-> s.data, error |-> s.error, loading |-> s.loading \/ s.data = NoData \/ forceLoading,
     refreshing |-> TRUE, lastAttemptOk |-> s.lastAttemptOk]

resourceSuccessSnapshot(data) ==
    [data |-> data, error |-> FALSE, loading |-> FALSE, refreshing |-> FALSE,
     lastAttemptOk |-> TRUE]

resourceFailureSnapshot(s) ==
    [data |-> s.data, error |-> TRUE, loading |-> FALSE, refreshing |-> FALSE,
     lastAttemptOk |-> FALSE]

NewResource ==
    [snapshot |-> emptyResourceSnapshot, epoch |-> 0, seedDirty |-> FALSE,
     settledAt |-> "never", watchers |-> <<>>, attempt |-> 0, owner |-> Nobody,
     pulse |-> 0, flights |-> {}]

ResourceInit ==
    /\ version = 1 /\ hidden \in BOOLEAN /\ pageListener = FALSE
    /\ res = [k \in Keys |-> NewResource]
    /\ evictions = [k \in Keys |-> 0]

-----------------------------------------------------------------------------
(* What a Resource derives from its watchers, a Map in insertion order.    *)

Watching(r) == {r.watchers[i] : i \in DOMAIN r.watchers}
Polling(r) == {w \in Watching(r) : PollMs[w] > 0}

fastestPoll(r) ==
    LET lowest == {w \in Polling(r) : \A x \in Polling(r) : PollMs[w] <= PollMs[x]}
    IN  IF lowest = {} THEN 0 ELSE PollMs[CHOOSE w \in lowest : TRUE]

hiddenOptOut(r) == \E w \in Polling(r) : ~PauseWhenHidden[w]

(* The one of S that joined before the others, if there is any. *)
FirstOf(r, S) ==
    LET first == {w \in S : \E i \in DOMAIN r.watchers :
                               r.watchers[i] = w /\ \A j \in 1 .. i - 1 : r.watchers[j] \notin S}
    IN  IF first = {} THEN Nobody ELSE CHOOSE w \in first : TRUE

(* watchers.delete(w) *)
Without(watchers, w) ==
    LET at == CHOOSE at \in DOMAIN watchers : watchers[at] = w
    IN  [i \in 1 .. Len(watchers) - 1 |-> watchers[IF i < at THEN i ELSE i + 1]]

(* Mutant: nobody takes over a load unless it polls. *)
pickOnlyPollers(r, hid) ==
    FirstOf(r, IF hid THEN {w \in Polling(r) : ~PauseWhenHidden[w]} ELSE Polling(r))

pickWatcher(r, hid) ==
    IF hid THEN FirstOf(r, {w \in Polling(r) : ~PauseWhenHidden[w]})
    ELSE IF Polling(r) # {} THEN FirstOf(r, Polling(r))
    ELSE FirstOf(r, Watching(r))

(* retunePulse, without the listener: stop, keep or restart the interval. *)
retunePulse(r, hid) ==
    LET ms == fastestPoll(r)
    IN  [r EXCEPT !.pulse = IF ms = 0 \/ (hid /\ ~hiddenOptOut(r)) THEN 0 ELSE ms]

(* Mutant: an idle key unbinds the listener the other keys still need. *)
unbindAlways(k, r) == fastestPoll(r) # 0

(* bindPage when this key polls, unbindPageIfIdle when it does not. *)
listenerAfter(k, r) ==
    \/ fastestPoll(r) # 0
    \/ pageListener /\ \E j \in Keys \ {k} : fastestPoll(res[j]) # 0

-----------------------------------------------------------------------------
(* Attempts.                                                               *)

abortAttempt(r) ==
    [r EXCEPT !.flights = {IF h.epoch = r.attempt THEN [h EXCEPT !.aborted = TRUE] ELSE h :
                              h \in r.flights}]

openAttempt(r, owner, forceLoading) ==
    [r EXCEPT !.epoch = r.epoch + 1, !.attempt = r.epoch + 1, !.owner = owner,
              !.flights = @ \cup {[epoch |-> r.epoch + 1, aborted |-> FALSE,
                                   timedOut |-> FALSE, read |-> NoData]},
              !.snapshot = resourceInFlightSnapshot(@, forceLoading)]

(* Mutant: the request that is replaced goes on. *)
askNoAbort(r, replace, owner, forceLoading) ==
    IF r.attempt # 0 /\ ~replace THEN r ELSE openAttempt(r, owner, forceLoading)

ask(r, replace, owner, forceLoading) ==
    IF r.attempt # 0 /\ ~replace THEN r
    ELSE openAttempt(abortAttempt(r), owner, forceLoading)

askFor(r, replace, w) == IF w = Nobody THEN r ELSE ask(r, replace, w, FALSE)

needsOpeningLoad(r, w) ==
    \/ r.snapshot.data = NoData
    \/ r.seedDirty
    \/ w \in StaleAware /\ r.settledAt = "old"

(* Mutant: the component that leaves takes what is on screen with it. *)
cancelWipes(r, w) ==
    IF r.attempt = 0 \/ r.owner # w THEN r
    ELSE [abortAttempt(r) EXCEPT !.attempt = 0, !.owner = Nobody, !.epoch = @ + 1,
                                 !.snapshot = emptyResourceSnapshot]

cancelOwnedBy(r, w) ==
    IF r.attempt = 0 \/ r.owner # w THEN r
    ELSE [abortAttempt(r) EXCEPT !.attempt = 0, !.owner = Nobody, !.epoch = @ + 1,
                                 !.snapshot.refreshing = FALSE]

publish(r, data) ==
    [abortAttempt(r) EXCEPT !.attempt = 0, !.owner = Nobody, !.epoch = @ + 1,
                            !.snapshot = resourceSuccessSnapshot(data),
                            !.seedDirty = r.watchers = <<>>,
                            !.settledAt = "recent"]

(* Mutant: the generation of the answer is not compared. *)
commitAnyGeneration(r, h, success) ==
    IF success THEN "success" ELSE "failure"

(* Mutant: a timed-out attempt is ignored like an abort by its owner. *)
commitNoTimeout(r, h, success) ==
    IF h.epoch # r.epoch \/ h.aborted THEN "ignore"
    ELSE IF success THEN "success" ELSE "failure"

(* What the settled promise of h may do to the snapshot. *)
commitResourceFetch(r, h, success) ==
    IF h.epoch # r.epoch \/ (h.aborted /\ (success \/ ~h.timedOut)) THEN "ignore"
    ELSE IF success THEN "success" ELSE "failure"

settle(r, h, success, data) ==
    LET commit == commitResourceFetch(r, h, success)
        closed == [r EXCEPT !.flights = @ \ {h},
                            !.attempt = IF r.attempt = h.epoch THEN 0 ELSE @,
                            !.owner = IF r.attempt = h.epoch THEN Nobody ELSE @]
    IN  CASE commit = "ignore" -> closed
          [] commit = "success" ->
                [closed EXCEPT !.snapshot = resourceSuccessSnapshot(data),
                               !.seedDirty = FALSE, !.settledAt = "recent"]
          [] commit = "failure" ->
                [closed EXCEPT !.snapshot = resourceFailureSnapshot(@), !.seedDirty = FALSE]

-----------------------------------------------------------------------------
(* Callbacks.                                                              *)

(* The Resource of k becomes r, within the bound on its generations. *)
Put(k, r) ==
    /\ r.epoch <= MaxEpoch[k]
    /\ res' = [res EXCEPT ![k] = r]

(* join: the first watcher opens the load, then the pulse is retuned. *)
Join(w) ==
    LET k == KeyOf[w]
        joined == [res[k] EXCEPT !.watchers = Append(@, w)]
        r == retunePulse(IF Len(joined.watchers) = 1 /\ needsOpeningLoad(joined, w)
                         THEN ask(joined, TRUE, w, FALSE) ELSE joined, hidden)
    IN  /\ w \notin Watching(res[k])
        /\ Put(k, r)
        /\ pageListener' = listenerAfter(k, r)
        /\ UNCHANGED <<version, hidden, evictions>>

(* leave: its own load dies with it, and another watcher takes over. *)
Leave(w) ==
    LET k == KeyOf[w]
        left == [res[k] EXCEPT !.watchers = Without(@, w)]
        killed == res[k].attempt # 0 /\ res[k].owner = w
        dropped == cancelOwnedBy(left, w)
        next == IF killed THEN askFor(dropped, TRUE, pickWatcher(dropped, hidden)) ELSE dropped
        r == retunePulse(IF left.watchers = <<>> THEN dropped ELSE next, hidden)
    IN  /\ w \in Watching(res[k])
        /\ Put(k, r)
        /\ pageListener' = listenerAfter(k, r)
        /\ evictions' = [evictions EXCEPT ![k] = IF r.watchers = <<>> THEN @ + 1 ELSE @]
        /\ evictions'[k] <= MaxTimers
        /\ UNCHANGED <<version, hidden>>

(* setClientResourceData: a value some response carried. *)
Publish(k, data) ==
    /\ data \in 1 .. version
    /\ Put(k, publish(res[k], data))
    /\ UNCHANGED <<version, hidden, pageListener, evictions>>

(* seedVacant: initialData while nobody watches; fresh when its age is known and small. *)
Seed(k, data, fresh) ==
    /\ res[k].watchers = <<>> /\ res[k].snapshot.data = NoData
    /\ data \in 1 .. version
    /\ LET seeded == publish(res[k], data)
       IN  Put(k, IF fresh THEN [seeded EXCEPT !.seedDirty = FALSE] ELSE seeded)
    /\ UNCHANGED <<version, hidden, pageListener, evictions>>

(* refresh() of a component, mounted or not; useKeyedClientResource forces loading. *)
Refresh(w, forceLoading) ==
    /\ Put(KeyOf[w], ask(res[KeyOf[w]], TRUE, w, forceLoading))
    /\ UNCHANGED <<version, hidden, pageListener, evictions>>

(* The pulse's interval: a quiet tick. *)
quietTick(k) ==
    /\ res[k].pulse # 0
    /\ Put(k, askFor(res[k], FALSE, pickWatcher(res[k], hidden)))
    /\ UNCHANGED <<version, hidden, pageListener, evictions>>

(* What the visibility listener does to one Resource: retunePulse, then catchUp. *)
shown(r, hid) ==
    LET tuned == retunePulse(r, hid)
    IN  IF hid \/ fastestPoll(r) = 0 THEN tuned ELSE askFor(tuned, FALSE, pickWatcher(tuned, FALSE))

VisibilityChange ==
    /\ hidden' = ~hidden
    /\ res' = IF pageListener THEN [k \in Keys |-> shown(res[k], ~hidden)] ELSE res
    /\ \A k \in Keys : res'[k].epoch <= MaxEpoch[k]
    /\ pageListener' = (pageListener /\ \E k \in Keys : fastestPoll(res[k]) # 0)
    /\ UNCHANGED <<version, evictions>>

(* The request of h reaches the server, which answers with its current state. *)
Answer(k, h) ==
    /\ h \in res[k].flights /\ h.read = NoData /\ ~h.aborted
    /\ res' = [res EXCEPT ![k].flights = (@ \ {h}) \cup {[h EXCEPT !.read = version]}]
    /\ UNCHANGED <<version, hidden, pageListener, evictions>>

(* The timer of openAttempt: deadlineMs passed before the promise settled. *)
Deadline(k, h) ==
    /\ h \in res[k].flights /\ ~h.aborted
    /\ res' = [res EXCEPT ![k].flights =
                 (@ \ {h}) \cup {[h EXCEPT !.timedOut = TRUE, !.aborted = TRUE]}]
    /\ UNCHANGED <<version, hidden, pageListener, evictions>>

(***************************************************************************)
(* The race of load and waitForResourceAbort ends: with the answer, with   *)
(* an error, or, after an owner's abort, with null.  A deadline rejects.   *)
(***************************************************************************)
Settle(k, h) ==
    /\ h \in res[k].flights
    /\ \/ h.read # NoData /\ ~h.timedOut /\ res' = [res EXCEPT ![k] = settle(@, h, TRUE, h.read)]
       \/ h.aborted /\ ~h.timedOut /\ res' = [res EXCEPT ![k] = settle(@, h, TRUE, NullData)]
       \/ res' = [res EXCEPT ![k] = settle(@, h, FALSE, NoData)]
    /\ UNCHANGED <<version, hidden, pageListener, evictions>>

(* scheduleEviction's timer; timers of a deleted Resource do nothing any more. *)
evict(k) ==
    /\ evictions[k] > 0
    /\ IF res[k].watchers = <<>>
       THEN /\ res' = [res EXCEPT ![k] = NewResource]
            /\ evictions' = [evictions EXCEPT ![k] = 0]
       ELSE /\ evictions' = [evictions EXCEPT ![k] = @ - 1]
            /\ UNCHANGED res
    /\ UNCHANGED <<version, hidden, pageListener>>

(* staleAfterMs pass since the value of k settled. *)
Age(k) ==
    /\ res[k].settledAt = "recent"
    /\ res' = [res EXCEPT ![k].settledAt = "old"]
    /\ UNCHANGED <<version, hidden, pageListener, evictions>>

(* Somebody changes the state behind the API. *)
ServerWrite ==
    /\ version < MaxVersion /\ version' = version + 1
    /\ UNCHANGED <<hidden, pageListener, res, evictions>>

Flying(k) == res[k].flights

ResourceNext ==
    \/ \E w \in Watchers : Join(w) \/ Leave(w)
    \/ \E w \in Watchers, force \in BOOLEAN : Refresh(w, force)
    \/ \E k \in Keys : \E data \in 1 .. MaxVersion :
          Publish(k, data) \/ \E fresh \in BOOLEAN : Seed(k, data, fresh)
    \/ \E k \in Keys : quietTick(k) \/ evict(k) \/ Age(k)
    \/ \E k \in Keys : \E h \in Flying(k) : Answer(k, h) \/ Deadline(k, h) \/ Settle(k, h)
    \/ VisibilityChange \/ ServerWrite

ResourceSpec == ResourceInit /\ [][ResourceNext]_resourceVars

(***************************************************************************)
(* Timers fire and settled promises run their reactions.  Nothing is       *)
(* assumed of the server or of the network: a load may hang for ever.      *)
(***************************************************************************)
ResourceFairness ==
    \A k \in Keys :
        /\ WF_resourceVars(\E h \in Flying(k) : Deadline(k, h))
        /\ WF_resourceVars(\E h \in Flying(k) : h.aborted /\ Settle(k, h))
        /\ WF_resourceVars(evict(k))

-----------------------------------------------------------------------------
Values == NullData .. MaxVersion
Handles == [epoch : Nat, aborted : BOOLEAN, timedOut : BOOLEAN, read : Values]
Snapshots == [data : Values, error : BOOLEAN, loading : BOOLEAN, refreshing : BOOLEAN,
              lastAttemptOk : BOOLEAN]
Resources == [snapshot : Snapshots, epoch : Nat, seedDirty : BOOLEAN,
              settledAt : {"never", "recent", "old"}, watchers : Seq(Watchers), attempt : Nat,
              owner : Watchers \cup {Nobody}, pulse : Nat, flights : SUBSET Handles]

(* The state of the runtime has the shape the code gives it. *)
ResourceTypeOK ==
    /\ version \in 1 .. MaxVersion /\ hidden \in BOOLEAN /\ pageListener \in BOOLEAN
    /\ evictions \in [Keys -> Nat]
    /\ res \in [Keys -> Resources]

(***************************************************************************)
(* "one in-flight request": whatever joins, leaves, replaces, publishes or *)
(* times out, the snapshot says refreshing exactly while an attempt is     *)
(* registered, that attempt has the newest generation, and every other     *)
(* request still in flight was aborted.                                    *)
(***************************************************************************)
OneLiveAttempt ==
    \A k \in Keys : LET r == res[k] IN
        /\ r.snapshot.refreshing <=> r.attempt # 0
        /\ r.attempt # 0 => r.attempt = r.epoch /\ \E h \in r.flights : h.epoch = r.attempt
        /\ \A h \in r.flights : h.epoch <= r.epoch /\ (h.epoch # r.attempt => h.aborted)

(***************************************************************************)
(* "stale generations never paint": the promise of a load that settles     *)
(* never replaces what is on screen by something older, however late the   *)
(* answer is and whatever was published or replaced meanwhile, and never   *)
(* by the null of an abort.                                                *)
(***************************************************************************)
PaintsForward ==
    [][\A k \in Keys : \A h \in Flying(k) :
         Settle(k, h) => res'[k].snapshot.data >= res[k].snapshot.data]_resourceVars

(***************************************************************************)
(* The pulse and the page listener follow the watchers of all keys through *)
(* every join, leave, eviction and change of visibility: a key has a timer *)
(* exactly when somebody polls it and may poll now, at the lowest interval *)
(* of those who poll, and the listener is bound exactly while a key polls. *)
(***************************************************************************)
CadenceFollowsWatchers ==
    /\ \A k \in Keys : LET r == res[k] IN
          r.pulse = IF Polling(r) = {} \/ (hidden /\ ~hiddenOptOut(r)) THEN 0
                    ELSE fastestPoll(r)
    /\ pageListener <=> \E k \in Keys : Polling(res[k]) # {}

(***************************************************************************)
(* A component that does not leave itself stays a watcher and never loses  *)
(* its value: eviction timers of an earlier leave, leaves of others and    *)
(* failing loads keep what it shows.                                       *)
(***************************************************************************)
MountedKeepsData ==
    [][\A w \in Watchers : LET k == KeyOf[w] IN
         w \in Watching(res[k]) =>
            \/ Leave(w)
            \/ /\ w \in Watching(res'[k])
               /\ res[k].snapshot.data # NoData => res'[k].snapshot.data # NoData]_resourceVars

(***************************************************************************)
(* A component with nothing to show has a request in flight or an error:   *)
(* when the owner of the load leaves, another watcher takes it over.  Only *)
(* a leave in a hidden tab abandons the others.                            *)
(***************************************************************************)
Waiting(r) == r.watchers # <<>> /\ r.snapshot.data = NoData /\ ~r.snapshot.error
AbandonedOnlyHidden ==
    [][\A k \in Keys :
         (Waiting(res'[k]) /\ res'[k].attempt = 0)
            => (Waiting(res[k]) /\ res[k].attempt = 0) \/ hidden]_resourceVars

(***************************************************************************)
(* Coming back to the tab: after the change to visible every key that      *)
(* polls has a request in flight, so what it shows is not older than the   *)
(* last poll plus the time the tab was hidden.                             *)
(***************************************************************************)
ShownCatchesUp ==
    [][(hidden /\ ~hidden') =>
         \A k \in Keys : Polling(res[k]) # {} => res'[k].attempt # 0]_resourceVars

(***************************************************************************)
(* A spinner ends: refreshing is followed by not refreshing although the   *)
(* load may ignore its signal and never settle.                            *)
(***************************************************************************)
RefreshingEnds ==
    \A k \in Keys : res[k].snapshot.refreshing ~> ~res[k].snapshot.refreshing
=============================================================================
