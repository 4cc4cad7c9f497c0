-------------------------- MODULE CodexLogin_proofs --------------------------
(***************************************************************************)
(* A cancelled login is never done, a superseded one never writes over the *)
(* tokens of a newer one, what the dialog reports as added was stored, and *)
(* the dialog stops watching a flow only for a cause, for every number of  *)
(* logins, grants, faults and restarts.                                    *)
(*                                                                         *)
(* CancelledNeverDone rests on Disowned: from the moment the cancel        *)
(* handler has been at the owner, the flow it names does not own the slot, *)
(* and a flow the dialog ever showed does not claim it again.              *)
(* NewestTokensStay rests on Behind: while a grant holds the store's lock, *)
(* no login newer than its own has written its tokens, because the gate    *)
(* asserts the owner under that lock.                                      *)
(* AddedIsStored rests on StoredInv, which follows the two writes of a     *)
(* commit through the steps of its handler, the status and the reads;      *)
(* WatchEndsForCause on WatchInv: the open reads are all of the flow the   *)
(* dialog watches.                                                         *)
(***************************************************************************)
EXTENDS CodexLogin, TLAPS

(* The steps of a grant that a handler still works on. *)
Running == {"sent", "loaded", "exchanged", "checked", "gated", "persisted", "configured", "done"}

(* A login is no newer than the owner's generation, and a free slot starts at 0. *)
Ranks ==
    /\ \A f \in Flows : logins[f].gen <= owner.gen
    /\ owner.active => owner.gen > 0

(* A login that was asked for names an account. *)
Named == \A f \in Flows : logins[f].pc # "idle" => logins[f].id \in LoginIds

(* What is registered, listened for or worked on was answered. *)
Answered ==
    /\ \A f \in Flows : logins[f].status # "unknown" => logins[f].pc \in {"answered", "shown"}
    /\ listener # 0 => logins[listener].pc \in {"answered", "shown"}
    /\ \A g \in Grants : grants[g].step \in Running =>
            grants[g].flow \in Flows /\ logins[grants[g].flow].pc \in {"answered", "shown"}

(* What the dialog holds or cancels was shown. *)
Shown ==
    /\ dialog.flow # 0 => logins[dialog.flow].pc = "shown"
    /\ dialog.watching # 0 => dialog.watching = dialog.flow
    /\ \A x \in cancels : logins[x.flow].pc = "shown"
    /\ \A f \in Flows : logins[f].cancelled => logins[f].pc = "shown"

(* A flow whose cancel has been at the owner does not own the slot. *)
Disowned ==
    /\ \A f \in Flows : logins[f].cancelled => ~Owns(f)
    /\ \A x \in cancels : x.step # "sent" => ~Owns(x.flow)

OneLock == \A g, h \in Grants : grants[g].step = "gated" /\ grants[h].step = "gated" => g = h

(* The tokens of login f are in the store, or a newer login's over them. *)
Persisted(f) ==
    \/ logins[f].status = "done"
    \/ \E g \in Grants : grants[g].flow = f /\ grants[g].step \in {"persisted", "configured"}

Behind ==
    \A g \in Grants, f \in Flows :
        grants[g].step = "gated" /\ logins[f].gen > logins[grants[g].flow].gen => ~Persisted(f)

Newest ==
    \A f \in Flows : Persisted(f) =>
        /\ credentials[logins[f].id].flow # 0
        /\ logins[credentials[logins[f].id].flow].gen >= logins[f].gen

Core ==
    /\ Ranks /\ Named /\ Answered /\ Shown /\ Disowned /\ CancelledNeverDone
    /\ OneLock /\ Behind /\ Newest

LoginInv == LoginTypeOK /\ Core

-----------------------------------------------------------------------------
(* What the types say about single values. *)
Values ==
    /\ owner.gen \in Nat /\ listener \in MaybeFlow
    /\ \A f \in Flows : logins[f].gen \in Nat
    /\ \A id \in LoginIds : credentials[id].flow \in MaybeFlow
    /\ \A g \in Grants : grants[g].flow \in MaybeFlow
    /\ \A x \in cancels : x.flow \in Flows
    /\ dialog.flow \in MaybeFlow /\ dialog.watching \in MaybeFlow

(* A number that may be a login's and is not 0 is a login's. *)
LEMMA Numbered == ASSUME NEW n \in MaybeFlow, n # 0 PROVE n \in Flows
BY LoginAssumption DEF MaybeFlow, Flows

(* No login is numbered 0. *)
LEMMA Positive == 0 \notin Flows
BY LoginAssumption DEF Flows

(* The types give the single values. *)
LEMMA TypesGiveValues == (LoginTypeOK => Values) /\ (LoginTypeOK' => Values')
BY DEF LoginTypeOK, Values, Owners, Logins, Credentials, GrantHandlers, CancelHandlers, Dialogs

-----------------------------------------------------------------------------
(* The invariant under each kind of step, told by what the step changes. *)

SameLogins ==
    \A f \in Flows : /\ logins'[f].pc = logins[f].pc /\ logins'[f].gen = logins[f].gen
                     /\ logins'[f].id = logins[f].id /\ logins'[f].cancelled = logins[f].cancelled
OnlyErrors ==
    \A f \in Flows : \/ logins'[f].status = logins[f].status
                     \/ logins'[f].status = "error" /\ logins[f].status # "unknown"
SameDialog == dialog'.flow = dialog.flow /\ dialog'.watching = dialog.watching
OthersSame(g) == \A h \in Grants : h # g => grants'[h] = grants[h]

(* The newest tokens stay newest when nothing is written and no login is renumbered back. *)
LEMMA NewestKept ==
    ASSUME Values, Core, credentials' = credentials,
           \A f \in Flows : Persisted(f)' =>
               Persisted(f) /\ logins'[f].id = logins[f].id /\ logins'[f].gen = logins[f].gen,
           \A f \in Flows : logins'[f].gen \in Nat /\ logins'[f].gen >= logins[f].gen
    PROVE  Newest'
<1> SUFFICES ASSUME NEW h \in Flows, Persisted(h)'
             PROVE  /\ credentials'[logins'[h].id].flow # 0
                    /\ logins'[credentials'[logins'[h].id].flow].gen >= logins'[h].gen
  BY DEF Newest
<1>1. /\ Persisted(h) /\ credentials[logins[h].id].flow # 0
      /\ logins[credentials[logins[h].id].flow].gen >= logins[h].gen
  BY DEF Core, Newest
<1>2. logins[h].id \in LoginIds
  BY <1>1 DEF Core, Persisted, Answered, Running, Named
<1>3. credentials[logins[h].id].flow \in Flows
  BY <1>1, <1>2, Numbered DEF Values
<1>4. logins'[credentials[logins[h].id].flow].gen >= logins[credentials[logins[h].id].flow].gen
  BY <1>3
<1> QED
  BY <1>1, <1>3, <1>4 DEF Values

(* The dialog drops its flow, or keeps it, and may cancel it. *)
LEMMA DialogStep ==
    ASSUME Values, Values', Core,
           UNCHANGED <<owner, listener, logins, credentials, grants>>,
           dialog'.flow \in {dialog.flow, 0}, dialog'.watching \in {dialog'.flow, 0},
           \A x \in cancels' : x \in cancels \/ (dialog.flow # 0 /\ x.flow = dialog.flow /\ x.step = "sent")
    PROVE  Core'
<1>1. Ranks' /\ Named' /\ Answered' /\ CancelledNeverDone' /\ OneLock'
  BY DEF Core, Ranks, Named, Answered, CancelledNeverDone, OneLock
<1>2. Shown'
  BY DEF Core, Shown
<1>3. Disowned'
  BY DEF Core, Disowned, Owns
<1>4. Behind' /\ Newest'
  BY DEF Core, Behind, Newest, Persisted
<1> QED
  BY <1>1, <1>2, <1>3, <1>4 DEF Core

(* A login that is not answered yet moves on, without the owner. *)
LEMMA StageStep ==
    ASSUME Values, Values', Core, NEW f \in Flows,
           UNCHANGED <<owner, listener, credentials, grants, cancels>>,
           dialog'.flow \in {dialog.flow, 0}, dialog'.watching \in {dialog'.flow, 0},
           \A h \in Flows : h # f => logins'[h] = logins[h],
           logins[f].pc \notin {"answered", "shown"}, logins'[f].pc \notin {"answered", "shown"},
           logins'[f].gen = logins[f].gen, logins'[f].status = logins[f].status,
           logins'[f].cancelled = logins[f].cancelled,
           logins'[f].pc # "idle" => logins'[f].id \in LoginIds
    PROVE  Core'
<1>0. /\ logins[f].status = "unknown" /\ ~logins[f].cancelled /\ listener # f /\ dialog.flow # f
      /\ \A x \in cancels : x.flow # f
      /\ \A g \in Grants : grants[g].step \in Running => grants[g].flow # f
  BY Positive DEF Core, Answered, Shown
<1>1. Ranks' /\ Named' /\ CancelledNeverDone' /\ OneLock'
  BY DEF Core, Ranks, Named, CancelledNeverDone, OneLock
<1>2. Answered'
  BY <1>0, Numbered DEF Core, Answered, Values
<1>3. Shown'
  BY <1>0, Numbered DEF Core, Shown, Values
<1>4. Disowned'
  BY <1>0 DEF Core, Disowned, Owns, Values
<1>5. ~Persisted(f) /\ ~Persisted(f)'
  BY <1>0 DEF Persisted, Running
<1>6. \A h \in Flows : h # f => (Persisted(h)' <=> Persisted(h))
  BY DEF Persisted
<1>7. Behind'
  BY <1>0, <1>5, <1>6 DEF Core, Behind, Answered, Running
<1>8. Newest'
  BY <1>5, <1>6, NewestKept DEF Values
<1> QED
  BY <1>1, <1>2, <1>3, <1>4, <1>7, <1>8 DEF Core

(* A grant moves on without writing, or fails and marks its flow. *)
LEMMA GrantStep ==
    ASSUME Values, Values', Core, NEW g \in Grants,
           UNCHANGED <<owner, listener, credentials, cancels>>, SameDialog, SameLogins, OnlyErrors,
           OthersSame(g), grants'[g].step \notin {"gated", "persisted"},
           grants'[g].step = "configured" => grants[g].step = "persisted" /\ grants'[g].flow = grants[g].flow,
           grants'[g].step \in Running =>
               grants'[g].flow \in Flows /\ logins[grants'[g].flow].pc \in {"answered", "shown"}
    PROVE  Core'
<1> USE DEF SameLogins, SameDialog
<1>1. Ranks' /\ Named'
  BY DEF Core, Ranks, Named
<1>2. Answered'
  BY Numbered DEF Core, Answered, OnlyErrors, OthersSame, Values
<1>3. Shown'
  BY Numbered DEF Core, Shown, Values
<1>4. Disowned' /\ CancelledNeverDone'
  BY DEF Core, Disowned, CancelledNeverDone, OnlyErrors, Owns, Values
<1>5. OneLock'
  BY DEF Core, OneLock, OthersSame
<1>6. \A f \in Flows : Persisted(f)' => Persisted(f)
  BY DEF Persisted, OnlyErrors, OthersSame
<1>7. Behind'
  BY <1>6 DEF Core, Behind, OthersSame, Answered, Running
<1>8. Newest'
  BY <1>6, NewestKept DEF Values
<1> QED
  BY <1>1, <1>2, <1>3, <1>4, <1>5, <1>7, <1>8 DEF Core

(* The dialog shows the login its POST opened. *)
LEMMA ShowStep ==
    ASSUME Values, Values', Core, NEW f \in Flows,
           UNCHANGED <<owner, listener, credentials, grants, cancels>>,
           dialog'.flow = f, dialog'.watching = f,
           \A h \in Flows : h # f => logins'[h] = logins[h],
           logins[f].pc = "answered", logins'[f].pc = "shown",
           logins'[f].gen = logins[f].gen, logins'[f].status = logins[f].status,
           logins'[f].cancelled = logins[f].cancelled, logins'[f].id = logins[f].id
    PROVE  Core'
<1>1. Ranks' /\ Named' /\ CancelledNeverDone' /\ OneLock'
  BY DEF Core, Ranks, Named, CancelledNeverDone, OneLock
<1>2. Answered'
  BY Numbered DEF Core, Answered, Values
<1>3. Shown'
  BY DEF Core, Shown, Values
<1>4. Disowned'
  BY DEF Core, Disowned, Owns, Values
<1>5. \A h \in Flows : logins'[h].gen = logins[h].gen /\ logins'[h].id = logins[h].id
  OBVIOUS
<1>6. \A h \in Flows : Persisted(h)' <=> Persisted(h)
  BY DEF Persisted
<1>7. Behind'
  BY <1>5, <1>6 DEF Core, Behind, Answered, Running
<1>8. Newest'
  BY <1>5, <1>6, NewestKept DEF Values
<1> QED
  BY <1>1, <1>2, <1>3, <1>4, <1>7, <1>8 DEF Core

(* A login claims the slot. *)
LEMMA ClaimStep ==
    ASSUME Values, Values', Core, NEW f \in Flows,
           UNCHANGED <<listener, credentials, grants, cancels>>, SameDialog,
           owner'.gen = owner.gen + 1,
           \A h \in Flows : h # f => logins'[h] = logins[h],
           logins[f].pc = "saved", logins'[f].pc = "claimed", logins'[f].gen = owner.gen + 1,
           logins'[f].status = logins[f].status, logins'[f].cancelled = logins[f].cancelled,
           logins'[f].id = logins[f].id
    PROVE  Core'
<1> USE DEF SameDialog
<1>0. /\ logins[f].status = "unknown" /\ ~logins[f].cancelled /\ listener # f /\ dialog.flow # f
      /\ \A x \in cancels : x.flow # f
      /\ \A g \in Grants : grants[g].step \in Running => grants[g].flow # f
  BY Positive DEF Core, Answered, Shown
<1>1. Ranks' /\ Named' /\ CancelledNeverDone' /\ OneLock'
  BY DEF Core, Ranks, Named, CancelledNeverDone, OneLock, Values
<1>2. Answered'
  BY <1>0, Numbered DEF Core, Answered, Values
<1>3. Shown'
  BY <1>0, Numbered DEF Core, Shown, Values
<1>4. \A h \in Flows : h # f => ~Owns(h)'
  BY DEF Core, Ranks, Owns, Values
<1>5. Disowned'
  BY <1>0, <1>4 DEF Core, Disowned, Values
<1>6. ~Persisted(f) /\ ~Persisted(f)'
  BY <1>0 DEF Persisted, Running
<1>7. \A h \in Flows : h # f => (Persisted(h)' <=> Persisted(h))
  BY DEF Persisted
<1>8. Behind'
  BY <1>0, <1>6, <1>7 DEF Core, Behind, Answered, Running
<1>9. \A h \in Flows : logins'[h].gen \in Nat /\ logins'[h].gen >= logins[h].gen
  BY DEF Core, Ranks, Values
<1>10. Newest'
  BY <1>6, <1>7, <1>9, NewestKept
<1> QED
  BY <1>1, <1>2, <1>3, <1>5, <1>8, <1>10 DEF Core

(* A login is registered, and the pending ones expire. *)
LEMMA RegisterStep ==
    ASSUME Values, Values', Core, NEW f \in Flows,
           UNCHANGED <<owner, credentials, grants, cancels>>, SameDialog, listener' \in {listener, f},
           \A h \in Flows : h # f =>
               /\ logins'[h].pc = logins[h].pc
               /\ \/ logins'[h].status = logins[h].status
                  \/ logins'[h].status = "expired" /\ logins[h].status = "pending",
           \A h \in Flows : logins'[h].gen = logins[h].gen /\ logins'[h].id = logins[h].id
                            /\ logins'[h].cancelled = logins[h].cancelled,
           logins[f].pc = "claimed", logins'[f].pc = "answered", logins'[f].status = "pending"
    PROVE  Core'
<1> USE DEF SameDialog
<1>0. /\ logins[f].status = "unknown" /\ ~logins[f].cancelled /\ dialog.flow # f
      /\ \A x \in cancels : x.flow # f
      /\ \A g \in Grants : grants[g].step \in Running => grants[g].flow # f
  BY Positive DEF Core, Answered, Shown
<1>1. Ranks' /\ Named' /\ CancelledNeverDone' /\ OneLock'
  BY <1>0 DEF Core, Ranks, Named, CancelledNeverDone, OneLock
<1>2. Answered'
  BY <1>0, Numbered DEF Core, Answered, Values
<1>3. Shown'
  BY <1>0, Numbered DEF Core, Shown, Values
<1>4. Disowned'
  BY DEF Core, Disowned, Owns, Values
<1>6. \A h \in Flows : Persisted(h)' => Persisted(h)
  BY DEF Persisted
<1>7. Behind'
  BY <1>6 DEF Core, Behind, Answered, Running
<1>8. Newest'
  BY <1>6, NewestKept DEF Values
<1> QED
  BY <1>1, <1>2, <1>3, <1>4, <1>7, <1>8 DEF Core

(* The slot is given up: by a cancel, by a finished login, or not at all. *)
LEMMA OwnerStep ==
    ASSUME Values, Values', Core,
           UNCHANGED <<listener, logins, credentials>>, SameDialog,
           \/ owner' = owner
           \/ ~owner'.active /\ owner'.gen >= owner.gen,
           \A x \in cancels' : \E y \in cancels : x.flow = y.flow,
           \A x \in cancels' : x \in cancels \/ x.step = "sent" \/ ~Owns(x.flow)',
           \A g \in Grants : /\ grants'[g].flow = grants[g].flow
                             /\ \/ grants'[g].step = grants[g].step
                                \/ grants'[g].step = "finished" /\ grants[g].step = "done"
    PROVE  Core'
<1> USE DEF SameDialog
<1>1. Ranks' /\ Named' /\ CancelledNeverDone'
  BY DEF Core, Ranks, Named, CancelledNeverDone, Values
<1>2. Answered' /\ OneLock'
  BY DEF Core, Answered, OneLock, Running
<1>3. Shown'
  BY DEF Core, Shown
<1>4. \A f \in Flows : ~Owns(f) => ~Owns(f)'
  BY DEF Owns
<1>5. Disowned'
  BY <1>4 DEF Core, Disowned, Values
<1>6. \A f \in Flows : Persisted(f)' => Persisted(f)
  BY DEF Persisted
<1>7. Behind'
  BY <1>6 DEF Core, Behind
<1>8. Newest'
  BY <1>6, NewestKept DEF Values
<1> QED
  BY <1>1, <1>2, <1>3, <1>5, <1>7, <1>8 DEF Core

(* A cancel handler marks its flow. *)
LEMMA CancelStep ==
    ASSUME Values, Values', Core, NEW x \in cancels, x.step = "file",
           UNCHANGED <<owner, listener, credentials, grants>>, SameDialog, cancels' \subseteq cancels,
           \A h \in Flows : h # x.flow => logins'[h] = logins[h],
           \A h \in Flows : logins'[h].gen = logins[h].gen /\ logins'[h].id = logins[h].id
                            /\ logins'[h].pc = logins[h].pc,
           logins'[x.flow] = logins[x.flow]
               \/ (logins'[x.flow].status = "expired" /\ logins[x.flow].status # "unknown")
    PROVE  Core'
<1> USE DEF SameDialog
<1>0. x.flow \in Flows /\ logins[x.flow].pc = "shown" /\ ~Owns(x.flow)
  BY DEF Core, Shown, Disowned, Values
<1>1. Ranks' /\ Named' /\ CancelledNeverDone' /\ OneLock'
  BY <1>0 DEF Core, Ranks, Named, CancelledNeverDone, OneLock
<1>2. Answered'
  BY <1>0, Numbered DEF Core, Answered, Values
<1>3. Shown'
  BY <1>0, Numbered DEF Core, Shown, Values
<1>4. \A h \in Flows : Owns(h)' <=> Owns(h)
  BY DEF Owns
<1>5. Disowned'
  BY <1>0, <1>4 DEF Core, Disowned, Values
<1>6. \A h \in Flows : Persisted(h)' => Persisted(h)
  BY <1>0 DEF Persisted
<1>7. Behind'
  BY <1>6 DEF Core, Behind, Answered, Running
<1>8. Newest'
  BY <1>6, NewestKept DEF Values
<1> QED
  BY <1>1, <1>2, <1>3, <1>5, <1>7, <1>8 DEF Core

(* A grant passes the gate: no login is newer than the owner's. *)
LEMMA GateStep ==
    ASSUME Values, Values', Core, NEW g \in Grants,
           UNCHANGED <<owner, listener, logins, credentials, cancels>>, SameDialog, OthersSame(g),
           grants[g].step = "checked", grants'[g].step = "gated", grants'[g].flow = grants[g].flow,
           \A h \in Grants : grants[h].step # "gated", Owns(grants[g].flow)
    PROVE  Core'
<1> USE DEF SameDialog, OthersSame
<1>0. grants[g].flow \in Flows
  BY DEF Core, Answered, Running
<1>1. Ranks' /\ Named' /\ CancelledNeverDone'
  BY DEF Core, Ranks, Named, CancelledNeverDone
<1>2. Answered'
  BY DEF Core, Answered, Running
<1>3. Shown'
  BY DEF Core, Shown
<1>4. Disowned' /\ OneLock'
  BY DEF Core, Disowned, OneLock, Owns
<1>6. \A f \in Flows : Persisted(f)' => Persisted(f)
  BY DEF Persisted
<1>7. Behind'
  <2> SUFFICES ASSUME NEW h \in Grants, NEW f \in Flows, grants'[h].step = "gated",
                      logins'[f].gen > logins'[grants'[h].flow].gen
               PROVE  FALSE
    BY DEF Behind
  <2>1. h = g
    OBVIOUS
  <2> QED
    BY <1>0, <2>1 DEF Core, Ranks, Owns, Values
<1>8. Newest'
  BY <1>6, NewestKept DEF Values
<1> QED
  BY <1>1, <1>2, <1>3, <1>4, <1>7, <1>8 DEF Core

(* The holder of the lock writes its tokens: nobody newer has. *)
LEMMA PersistStep ==
    ASSUME Values, Values', Core, NEW g \in Grants,
           UNCHANGED <<owner, listener, cancels>>, SameDialog, SameLogins, OthersSame(g),
           \A f \in Flows : logins'[f].status = logins[f].status,
           grants[g].step = "gated", grants'[g].step = "persisted", grants'[g].flow = grants[g].flow,
           credentials'[logins[grants[g].flow].id].flow = grants[g].flow,
           \A id \in LoginIds : id # logins[grants[g].flow].id => credentials'[id] = credentials[id]
    PROVE  Core'
<1> USE DEF SameDialog, SameLogins
<1> DEFINE k == grants[g].flow
<1>0. k \in Flows /\ logins[k].pc \in {"answered", "shown"} /\ logins[k].id \in LoginIds
  BY DEF Core, Answered, Running, Named
<1>1. Ranks' /\ Named' /\ CancelledNeverDone'
  BY DEF Core, Ranks, Named, CancelledNeverDone
<1>2. Answered'
  BY Numbered DEF Core, Answered, Running, OthersSame, Values
<1>3. Shown'
  BY Numbered DEF Core, Shown, Values
<1>4. Disowned' /\ OneLock'
  BY DEF Core, Disowned, OneLock, OthersSame, Owns, Values
<1>5. \A h \in Grants : grants'[h].step # "gated"
  BY DEF Core, OneLock, OthersSame
<1>6. \A f \in Flows : f # k /\ Persisted(f)' => Persisted(f)
  BY DEF Persisted, OthersSame
<1>7. Behind'
  BY <1>5 DEF Behind
<1>8. Newest'
  <2> SUFFICES ASSUME NEW h \in Flows, Persisted(h)'
               PROVE  /\ credentials'[logins'[h].id].flow # 0
                      /\ logins'[credentials'[logins'[h].id].flow].gen >= logins'[h].gen
    BY DEF Newest
  <2>1. CASE h = k
    BY <1>0, <2>1, Positive DEF Values
  <2>2. CASE h # k
    <3>1. Persisted(h) /\ logins[h].id \in LoginIds
      BY <1>6, <2>2 DEF Core, Persisted, Answered, Running, Named
    <3>2. CASE logins[h].id = logins[k].id
      <4>1. ~(logins[h].gen > logins[k].gen)
        BY <3>1 DEF Core, Behind
      <4> QED
        BY <1>0, <3>2, <4>1, Positive DEF Values
    <3>3. CASE logins[h].id # logins[k].id
      <4>1. /\ credentials[logins[h].id].flow \in Flows
            /\ logins[credentials[logins[h].id].flow].gen >= logins[h].gen
        BY <3>1, Numbered DEF Core, Newest, Values
      <4> QED
        BY <3>1, <3>3, <4>1, Positive
    <3> QED
      BY <3>2, <3>3
  <2> QED
    BY <2>1, <2>2
<1> QED
  BY <1>1, <1>2, <1>3, <1>4, <1>7, <1>8 DEF Core

(* The owner reports its login done. *)
LEMMA DoneStep ==
    ASSUME Values, Values', Core, NEW g \in Grants,
           UNCHANGED <<owner, listener, credentials, cancels>>, SameDialog, SameLogins, OthersSame(g),
           grants[g].step = "configured", grants'[g].step = "done", grants'[g].flow = grants[g].flow,
           Owns(grants[g].flow),
           \A f \in Flows : f # grants[g].flow => logins'[f].status = logins[f].status,
           logins'[grants[g].flow].status = "done"
    PROVE  Core'
<1> USE DEF SameDialog, SameLogins
<1>0. grants[g].flow \in Flows /\ logins[grants[g].flow].pc \in {"answered", "shown"}
  BY DEF Core, Answered, Running
<1>1. Ranks' /\ Named' /\ OneLock'
  BY DEF Core, Ranks, Named, OneLock, OthersSame
<1>2. Answered'
  BY <1>0, Numbered DEF Core, Answered, Running, OthersSame, Values
<1>3. Shown'
  BY Numbered DEF Core, Shown, Values
<1>4. Disowned' /\ CancelledNeverDone'
  BY DEF Core, Disowned, CancelledNeverDone, Owns, Values
<1>6. \A f \in Flows : Persisted(f)' => Persisted(f)
  BY DEF Persisted, OthersSame
<1>7. Behind'
  BY <1>6 DEF Core, Behind, OthersSame, Answered, Running
<1>8. Newest'
  BY <1>6, NewestKept DEF Values
<1> QED
  BY <1>1, <1>2, <1>3, <1>4, <1>7, <1>8 DEF Core

(* The proxy starts again. *)
LEMMA RestartStep ==
    ASSUME Values, Values', Core, SameDialog,
           listener' = 0, cancels' = {}, owner'.gen = 0, ~owner'.active,
           \A f \in Flows : /\ logins'[f].status = "unknown" /\ logins'[f].gen = 0 /\ ~logins'[f].cancelled
                            /\ logins'[f].id = logins[f].id
                            /\ logins'[f].pc = "idle" <=> logins[f].pc = "idle"
                            /\ logins[f].pc = "shown" => logins'[f].pc = "shown",
           \A g \in Grants : grants'[g].step \notin Running
    PROVE  Core'
<1> USE DEF SameDialog
<1>1. Ranks' /\ Named' /\ CancelledNeverDone' /\ Disowned' /\ Answered' /\ OneLock'
  BY DEF Core, Ranks, Named, CancelledNeverDone, Disowned, Answered, OneLock, Running, Owns
<1>2. Shown'
  BY Numbered DEF Core, Shown, Values
<1>3. \A f \in Flows : ~Persisted(f)'
  BY DEF Persisted, Running
<1> QED
  BY <1>1, <1>2, <1>3 DEF Core, Behind, Newest


-----------------------------------------------------------------------------
(* What becomes of the records when a field is written. *)

(* A login keeps its type. *)
LEMMA LoginEdits ==
    ASSUME NEW l \in Logins
    PROVE  /\ \A p \in Stages : [l EXCEPT !.pc = p] \in Logins
           /\ \A s \in Statuses : [l EXCEPT !.status = s] \in Logins
           /\ \A p \in Stages, id \in LoginIds, b \in BOOLEAN :
                  [l EXCEPT !.pc = p, !.id = id, !.reauth = b] \in Logins
           /\ \A p \in Stages, n \in Nat : [l EXCEPT !.pc = p, !.gen = n] \in Logins
           /\ \A p \in Stages, s \in Statuses : [l EXCEPT !.pc = p, !.status = s] \in Logins
           /\ \A s \in Statuses : [l EXCEPT !.status = s, !.cancelled = TRUE] \in Logins
           /\ \A t \in {"tokens", "row"} : [l EXCEPT !.stored = @ \union {t}] \in Logins
BY DEF Logins, MaybeId

(* What a handler remembers of the rows. *)
LEMMA NothingSeen == NoGrant \in GrantHandlers /\ NoGrant.seen \in [LoginIds -> MaybeIdentity]
BY LoginAssumption DEF NoGrant, GrantHandlers, Steps, MaybeFlow, MaybeIdentity

(* A handler keeps its type. *)
LEMMA GrantEdits ==
    ASSUME NEW h \in GrantHandlers
    PROVE  /\ \A s \in Steps : [h EXCEPT !.step = s] \in GrantHandlers
           /\ \A s \in Steps : [h EXCEPT !.step = s, !.seen = NoGrant.seen] \in GrantHandlers
           /\ \A s \in Steps : [h EXCEPT !.step = s, !.spent = TRUE] \in GrantHandlers
           /\ \A s \in Steps, rows \in [LoginIds -> MaybeIdentity] :
                  [h EXCEPT !.step = s, !.seen = rows] \in GrantHandlers
BY NothingSeen DEF GrantHandlers

-----------------------------------------------------------------------------
(* The steps of the proxy's login handler. *)

(* A login POST is refused. *)
LEMMA LoginRefuseKeeps == ASSUME LoginInv, NEW f \in Flows, LoginRefuse(f) PROVE LoginInv'
<1>1. LoginTypeOK /\ Values /\ Core
  BY TypesGiveValues DEF LoginInv
<1>2. logins[f] \in Logins /\ "refused" \in Stages
  BY <1>1 DEF LoginTypeOK, Stages
<1>3. [logins[f] EXCEPT !.pc = "refused"] \in Logins
  BY <1>2, LoginEdits
<1>4. LoginTypeOK'
  BY <1>1, <1>3 DEF LoginRefuse, Fault, LoginTypeOK, proxyVars
<1>5. Core'
  BY <1>1, <1>4, TypesGiveValues, StageStep DEF LoginRefuse, LoginTypeOK, proxyVars, Logins, Core, Named, Shown
<1> QED
  BY <1>4, <1>5 DEF LoginInv

(* The pending file is saved. *)
LEMMA LoginSaveKeeps == ASSUME LoginInv, NEW f \in Flows, LoginSave(f) PROVE LoginInv'
<1>1. LoginTypeOK /\ Values /\ Core
  BY TypesGiveValues DEF LoginInv
<1>2. logins[f] \in Logins /\ "saved" \in Stages
  BY <1>1 DEF LoginTypeOK, Stages
<1>3. [logins[f] EXCEPT !.pc = "saved"] \in Logins
  BY <1>2, LoginEdits
<1>4. LoginTypeOK'
  BY <1>1, <1>3 DEF LoginSave, LoginTypeOK, MaybeFlow, Flows
<1>5. Core'
  BY <1>1, <1>4, TypesGiveValues, StageStep DEF LoginSave, LoginTypeOK, Logins, Core, Named, Shown
<1> QED
  BY <1>4, <1>5 DEF LoginInv

(* The slot is claimed. *)
LEMMA LoginClaimKeeps == ASSUME LoginInv, NEW f \in Flows, LoginClaim(f) PROVE LoginInv'
<1>1. LoginTypeOK /\ Values /\ Core
  BY TypesGiveValues DEF LoginInv
<1>2. logins[f] \in Logins /\ "claimed" \in Stages /\ owner.gen + 1 \in Nat
  BY <1>1 DEF LoginTypeOK, Stages, Values
<1>3. [logins[f] EXCEPT !.pc = "claimed", !.gen = owner.gen + 1] \in Logins
  BY <1>2, LoginEdits
<1>4. OwnerClaimed \in Owners /\ OwnerClaimed.gen = owner.gen + 1
  BY <1>2 DEF OwnerClaimed, Owners
<1>5. LoginTypeOK'
  BY <1>1, <1>3, <1>4 DEF LoginClaim, LoginTypeOK
<1>6. /\ owner'.gen = owner.gen + 1 /\ \A h \in Flows : h # f => logins'[h] = logins[h]
      /\ logins'[f] = [logins[f] EXCEPT !.pc = "claimed", !.gen = owner.gen + 1]
  BY <1>1, <1>4 DEF LoginClaim, LoginTypeOK
<1>7. /\ logins'[f].pc = "claimed" /\ logins'[f].gen = owner.gen + 1
      /\ logins'[f].status = logins[f].status /\ logins'[f].cancelled = logins[f].cancelled
      /\ logins'[f].id = logins[f].id
  BY <1>2, <1>6 DEF Logins
<1>8. Core'
  BY <1>1, <1>5, <1>6, <1>7, TypesGiveValues, ClaimStep DEF LoginClaim, SameDialog
<1> QED
  BY <1>5, <1>8 DEF LoginInv

(* The login is registered and its goroutine listens. *)
LEMMA LoginRegisterKeeps == ASSUME LoginInv, NEW f \in Flows, LoginRegister(f) PROVE LoginInv'
<1>1. LoginTypeOK /\ Values /\ Core
  BY TypesGiveValues DEF LoginInv
<1>2. /\ \A h \in Flows : logins[h] \in Logins
      /\ "answered" \in Stages /\ "pending" \in Statuses /\ "expired" \in Statuses
  BY <1>1 DEF LoginTypeOK, Stages, Statuses
<1>3. /\ [logins[f] EXCEPT !.pc = "answered", !.status = "pending"] \in Logins
      /\ \A h \in Flows : [logins[h] EXCEPT !.status = "expired"] \in Logins
  BY <1>2, LoginEdits
<1>4. LoginTypeOK'
  <2>1. logins' \in [Flows -> Logins]
    BY <1>2, <1>3 DEF LoginRegister
  <2>2. listener' \in MaybeFlow /\ faults' \in Nat
    BY <1>1 DEF LoginRegister, Fault, LoginTypeOK, MaybeFlow, Flows
  <2> QED
    BY <1>1, <2>1, <2>2 DEF LoginRegister, LoginTypeOK
<1>5. /\ logins'[f] = [logins[f] EXCEPT !.pc = "answered", !.status = "pending"]
      /\ \A h \in Flows : h # f =>
             \/ logins'[h] = logins[h]
             \/ logins[h].status = "pending" /\ logins'[h] = [logins[h] EXCEPT !.status = "expired"]
  BY DEF LoginRegister
<1>6. \A h \in Flows : h # f =>
          /\ logins'[h].pc = logins[h].pc /\ logins'[h].gen = logins[h].gen
          /\ logins'[h].id = logins[h].id /\ logins'[h].cancelled = logins[h].cancelled
          /\ \/ logins'[h].status = logins[h].status
             \/ logins'[h].status = "expired" /\ logins[h].status = "pending"
  <2> TAKE h \in Flows
  <2> HAVE h # f
  <2>1. CASE logins'[h] = logins[h]
    BY <2>1
  <2>2. CASE logins[h].status = "pending" /\ logins'[h] = [logins[h] EXCEPT !.status = "expired"]
    BY <1>2, <2>2 DEF Logins
  <2> QED
    BY <1>5, <2>1, <2>2
<1>7. /\ logins'[f].pc = "answered" /\ logins'[f].status = "pending"
      /\ logins'[f].gen = logins[f].gen /\ logins'[f].id = logins[f].id
      /\ logins'[f].cancelled = logins[f].cancelled
  BY <1>2, <1>5 DEF Logins
<1>8. Core'
  BY <1>1, <1>4, <1>6, <1>7, TypesGiveValues, RegisterStep DEF LoginRegister, SameDialog
<1> QED
  BY <1>4, <1>8 DEF LoginInv

-----------------------------------------------------------------------------
(* The steps of the cancel handler. *)

(* The slot is taken from whoever owns it. *)
LEMMA CancelOwnerKeeps == ASSUME LoginInv, NEW x \in cancels, CancelOwner(x) PROVE LoginInv'
<1>1. LoginTypeOK /\ Values /\ Core
  BY TypesGiveValues DEF LoginInv
<1>2. x \in CancelHandlers
  BY <1>1 DEF LoginTypeOK
<1> DEFINE y == [x EXCEPT !.step = "owner"]
<1>3. y \in CancelHandlers /\ y.flow = x.flow /\ y.step = "owner"
  BY <1>2 DEF CancelHandlers
<1>4. OwnerCancelled \in Owners /\ ~OwnerCancelled.active /\ OwnerCancelled.gen >= owner.gen
  BY <1>1 DEF OwnerCancelled, LoginTypeOK, Owners
<1>5. LoginTypeOK'
  BY <1>1, <1>3, <1>4 DEF CancelOwner, LoginTypeOK
<1>6. \A z \in cancels' : z \in cancels \/ z = y
  BY DEF CancelOwner
<1>7. ~owner'.active /\ owner'.gen >= owner.gen
  BY <1>1, <1>4 DEF CancelOwner, Values
<1>8. /\ \A z \in cancels' : \E w \in cancels : z.flow = w.flow
      /\ \A z \in cancels' : z \in cancels \/ z.step = "sent" \/ ~Owns(z.flow)'
  BY <1>3, <1>6, <1>7 DEF Owns
<1>9. Core'
  BY <1>1, <1>5, <1>7, <1>8, TypesGiveValues, OwnerStep DEF CancelOwner, SameDialog
<1> QED
  BY <1>5, <1>9 DEF LoginInv

(* The pending file is removed. *)
LEMMA CancelFileKeeps == ASSUME LoginInv, NEW x \in cancels, CancelFile(x) PROVE LoginInv'
<1>1. LoginTypeOK /\ Values /\ Core
  BY TypesGiveValues DEF LoginInv
<1>2. x \in CancelHandlers
  BY <1>1 DEF LoginTypeOK
<1> DEFINE y == [x EXCEPT !.step = "file"]
<1>3. y \in CancelHandlers /\ y.flow = x.flow /\ y.step = "file"
  BY <1>2 DEF CancelHandlers
<1>4. LoginTypeOK'
  BY <1>1, <1>3, LoginAssumption DEF CancelFile, LoginTypeOK, MaybeFlow
<1>5. ~Owns(x.flow)
  BY <1>1 DEF CancelFile, Core, Disowned
<1>6. \A z \in cancels' : z \in cancels \/ z = y
  BY DEF CancelFile
<1>7. /\ \A z \in cancels' : \E w \in cancels : z.flow = w.flow
      /\ \A z \in cancels' : z \in cancels \/ z.step = "sent" \/ ~Owns(z.flow)'
  BY <1>3, <1>5, <1>6 DEF Owns, CancelFile
<1>8. Core'
  BY <1>1, <1>4, <1>7, TypesGiveValues, OwnerStep DEF CancelFile, SameDialog
<1> QED
  BY <1>4, <1>8 DEF LoginInv

(* The flow is marked. *)
LEMMA CancelFlowKeeps == ASSUME LoginInv, NEW x \in cancels, CancelFlow(x) PROVE LoginInv'
<1>1. LoginTypeOK /\ Values /\ Core
  BY TypesGiveValues DEF LoginInv
<1>2. x.flow \in Flows /\ logins[x.flow] \in Logins /\ "expired" \in Statuses
  BY <1>1 DEF LoginTypeOK, Values, Statuses
<1> DEFINE l == [logins[x.flow] EXCEPT !.status = "expired", !.cancelled = TRUE]
<1>3. l \in Logins
  BY <1>2, LoginEdits
<1>4. \/ logins' = logins
      \/ logins[x.flow].status # "unknown" /\ logins' = [logins EXCEPT ![x.flow] = l]
  BY DEF CancelFlow
<1>5. LoginTypeOK'
  <2>1. logins' \in [Flows -> Logins]
    BY <1>1, <1>2, <1>3, <1>4 DEF LoginTypeOK
  <2> QED
    BY <1>1, <2>1 DEF CancelFlow, LoginTypeOK, proxyVars
<1>6. /\ \A h \in Flows : h # x.flow => logins'[h] = logins[h]
      /\ logins'[x.flow] = logins[x.flow] \/ (logins[x.flow].status # "unknown" /\ logins'[x.flow] = l)
  BY <1>1, <1>2, <1>4 DEF LoginTypeOK
<1>7. l.status = "expired" /\ l.gen = logins[x.flow].gen /\ l.id = logins[x.flow].id /\ l.pc = logins[x.flow].pc
  BY <1>2 DEF Logins
<1>8. \A h \in Flows : logins'[h].gen = logins[h].gen /\ logins'[h].id = logins[h].id
                       /\ logins'[h].pc = logins[h].pc
  BY <1>6, <1>7
<1>9. Core'
  BY <1>1, <1>5, <1>6, <1>7, <1>8, TypesGiveValues, CancelStep DEF CancelFlow, SameDialog, proxyVars
<1> QED
  BY <1>5, <1>9 DEF LoginInv

-----------------------------------------------------------------------------
(* The steps of a grant's handler. *)

(* A handler moves on: its step is the new one, and its flow the old one. *)
LEMMA ReachedType ==
    ASSUME LoginTypeOK, NEW g \in Grants, NEW s \in Steps
    PROVE  /\ Reached(g, s) \in [Grants -> GrantHandlers]
           /\ Reached(g, s)[g].step = s /\ Reached(g, s)[g].flow = grants[g].flow
           /\ \A h \in Grants : h # g => Reached(g, s)[h] = grants[h]
<1> DEFINE r == [grants[g] EXCEPT !.step = s, !.seen = NoGrant.seen]
<1>1. grants[g] \in GrantHandlers /\ grants \in [Grants -> GrantHandlers]
  BY DEF LoginTypeOK
<1>2. r \in GrantHandlers
  BY <1>1, GrantEdits
<1>3. r.step = s /\ r.flow = grants[g].flow
  BY <1>1 DEF GrantHandlers
<1>4. Reached(g, s) = [grants EXCEPT ![g] = r]
  BY DEF Reached
<1> HIDE DEF r
<1> QED
  BY <1>1, <1>2, <1>3, <1>4

(* The same for a handler that keeps the rows it read. *)
LEMMA SteppedType ==
    ASSUME LoginTypeOK, NEW g \in Grants, NEW s \in Steps
    PROVE  /\ [grants EXCEPT ![g].step = s] \in [Grants -> GrantHandlers]
           /\ [grants EXCEPT ![g].step = s][g].step = s
           /\ [grants EXCEPT ![g].step = s][g].flow = grants[g].flow
           /\ \A h \in Grants : h # g => [grants EXCEPT ![g].step = s][h] = grants[h]
<1> DEFINE r == [grants[g] EXCEPT !.step = s]
<1>1. grants[g] \in GrantHandlers /\ grants \in [Grants -> GrantHandlers]
  BY DEF LoginTypeOK
<1>2. r \in GrantHandlers
  BY <1>1, GrantEdits
<1>3. r.step = s /\ r.flow = grants[g].flow
  BY <1>1 DEF GrantHandlers
<1>4. [grants EXCEPT ![g].step = s] = [grants EXCEPT ![g] = r]
  OBVIOUS
<1> HIDE DEF r
<1> QED
  BY <1>1, <1>2, <1>3, <1>4

(* A flow that is marked with a status keeps everything else. *)
LEMMA StatusType ==
    ASSUME LoginTypeOK, NEW f \in Flows, NEW s \in Statuses
    PROVE  LET new == [logins EXCEPT ![f].status = s]
           IN  /\ new \in [Flows -> Logins] /\ new[f].status = s
               /\ \A h \in Flows : h # f => new[h] = logins[h]
               /\ \A h \in Flows : /\ new[h].pc = logins[h].pc /\ new[h].gen = logins[h].gen
                                   /\ new[h].id = logins[h].id /\ new[h].cancelled = logins[h].cancelled
<1> DEFINE l == [logins[f] EXCEPT !.status = s]
<1>1. logins[f] \in Logins /\ logins \in [Flows -> Logins]
  BY DEF LoginTypeOK
<1>2. l \in Logins
  BY <1>1, LoginEdits
<1>3. l.status = s /\ l.pc = logins[f].pc /\ l.gen = logins[f].gen /\ l.id = logins[f].id
      /\ l.cancelled = logins[f].cancelled
  BY <1>1 DEF Logins
<1>4. [logins EXCEPT ![f].status = s] = [logins EXCEPT ![f] = l]
  OBVIOUS
<1> HIDE DEF l
<1> QED
  BY <1>1, <1>2, <1>3, <1>4

(* Something is stored for a flow, and everything else stays. *)
LEMMA StoredType ==
    ASSUME LoginTypeOK, NEW f \in Flows, NEW t \in {"tokens", "row"}
    PROVE  LET new == [logins EXCEPT ![f].stored = @ \union {t}]
           IN  /\ new \in [Flows -> Logins]
               /\ \A h \in Flows : /\ new[h].pc = logins[h].pc /\ new[h].gen = logins[h].gen
                                   /\ new[h].id = logins[h].id /\ new[h].cancelled = logins[h].cancelled
                                   /\ new[h].status = logins[h].status
<1> DEFINE l == [logins[f] EXCEPT !.stored = @ \union {t}]
<1>1. logins[f] \in Logins /\ logins \in [Flows -> Logins]
  BY DEF LoginTypeOK
<1>2. l \in Logins
  BY <1>1, LoginEdits
<1>3. l.status = logins[f].status /\ l.pc = logins[f].pc /\ l.gen = logins[f].gen /\ l.id = logins[f].id
      /\ l.cancelled = logins[f].cancelled
  BY <1>1 DEF Logins
<1>4. [logins EXCEPT ![f].stored = @ \union {t}] = [logins EXCEPT ![f] = l]
  OBVIOUS
<1> HIDE DEF l
<1> QED
  BY <1>1, <1>2, <1>3, <1>4

(* A grant fails: its flow, if the process knows it, is marked with an error. *)
LEMMA CommitFailsKeeps ==
    ASSUME LoginInv, NEW g \in Grants, CommitFails(g), grants[g].step \in Running,
           UNCHANGED <<owner, listener, credentials, cancels, dialog>>,
           pendingFile' \in MaybeFlow, poolRows' \in [LoginIds -> MaybeIdentity],
           reads' = reads, added' = added, faults' \in Nat, restarts' = restarts
    PROVE  LoginInv'
<1>1. LoginTypeOK /\ Values /\ Core /\ grants[g].flow \in Flows
  BY TypesGiveValues DEF LoginInv, Core, Answered
<1>2. "failed" \in Steps /\ "error" \in Statuses
  BY DEF Steps, Statuses
<1>3. /\ grants' \in [Grants -> GrantHandlers] /\ grants'[g].step = "failed" /\ OthersSame(g)
  BY <1>1, <1>2, ReachedType DEF CommitFails, OthersSame
<1>4. logins' \in [Flows -> Logins] /\ SameLogins /\ OnlyErrors
  <2>1. CASE logins[grants[g].flow].status = "unknown"
    BY <1>1, <2>1 DEF CommitFails, setCodexLoginError, LoginTypeOK, SameLogins, OnlyErrors
  <2>2. CASE logins[grants[g].flow].status # "unknown"
    <3>1. logins' = [logins EXCEPT ![grants[g].flow].status = "error"]
      BY <2>2 DEF CommitFails, setCodexLoginError
    <3> QED
      BY <1>1, <1>2, <2>2, <3>1, StatusType DEF SameLogins, OnlyErrors
  <2> QED
    BY <2>1, <2>2
<1>5. LoginTypeOK'
  BY <1>1, <1>3, <1>4 DEF LoginTypeOK
<1>6. Core'
  BY <1>1, <1>3, <1>4, <1>5, TypesGiveValues, GrantStep DEF SameDialog, Running
<1> QED
  BY <1>5, <1>6 DEF LoginInv

(* A grant moves on, nothing else that the invariant reads changes. *)
LEMMA MovesOn ==
    ASSUME LoginInv, NEW g \in Grants, NEW s \in Steps, s \notin {"gated", "persisted", "configured"},
           s \in Running => grants[g].step \in Running,
           grants' \in [Grants -> GrantHandlers], OthersSame(g), grants'[g].step = s,
           grants'[g].flow = grants[g].flow,
           UNCHANGED <<owner, listener, credentials, poolRows, logins, cancels, reads, added, restarts>>,
           pendingFile' \in MaybeFlow, dialog' \in Dialogs, SameDialog, faults' \in Nat
    PROVE  LoginInv'
<1>1. LoginTypeOK /\ Values /\ Core
  BY TypesGiveValues DEF LoginInv
<1>2. LoginTypeOK'
  BY <1>1 DEF LoginTypeOK
<1>3. SameLogins /\ OnlyErrors
  BY DEF SameLogins, OnlyErrors
<1>4. s \in Running => grants'[g].flow \in Flows /\ logins[grants'[g].flow].pc \in {"answered", "shown"}
  BY <1>1 DEF Core, Answered
<1>5. Core'
  BY <1>1, <1>2, <1>3, <1>4, TypesGiveValues, GrantStep
<1> QED
  BY <1>2, <1>5 DEF LoginInv

(* A grant that reaches the proxy names a flow that was answered. *)
LEMMA ArrivesKeeps ==
    ASSUME LoginInv, NEW g \in Grants, NEW r \in GrantHandlers, r.step = "sent", r.flow \in Flows,
           logins[r.flow].pc \in {"answered", "shown"}, grants' = [grants EXCEPT ![g] = r],
           UNCHANGED <<owner, pendingFile, listener, credentials, poolRows, logins, cancels, reads, added,
                       faults, restarts>>,
           dialog' \in Dialogs, SameDialog
    PROVE  LoginInv'
<1>1. LoginTypeOK /\ Values /\ Core
  BY TypesGiveValues DEF LoginInv
<1>2. LoginTypeOK'
  BY <1>1 DEF LoginTypeOK
<1>3. grants'[g] = r /\ OthersSame(g)
  BY <1>1 DEF LoginTypeOK, OthersSame
<1>4. SameLogins /\ OnlyErrors
  BY DEF SameLogins, OnlyErrors
<1>5. Core'
  BY <1>1, <1>2, <1>3, <1>4, TypesGiveValues, GrantStep
<1> QED
  BY <1>2, <1>5 DEF LoginInv

(* A new handler has its type: the callback listener's, *)
LEMMA NewCallback ==
    ASSUME NEW f \in Flows, NEW who \in Identities
    PROVE  LET r == [NoGrant EXCEPT !.step = "sent", !.flow = f, !.who = who]
           IN  r \in GrantHandlers /\ r.step = "sent" /\ r.flow = f
<1>1. f \in MaybeFlow /\ who \in MaybeIdentity /\ "sent" \in Steps
  BY DEF MaybeFlow, Flows, MaybeIdentity, Steps
<1> QED
  BY <1>1, NothingSeen DEF GrantHandlers

(* and the one of a pasted code. *)
LEMMA NewPaste ==
    ASSUME NEW f \in Flows, NEW who \in Identities, NEW n \in Nat
    PROVE  LET r == [NoGrant EXCEPT !.step = "sent", !.flow = f, !.who = who, !.session = n]
           IN  r \in GrantHandlers /\ r.step = "sent" /\ r.flow = f
<1>1. f \in MaybeFlow /\ who \in MaybeIdentity /\ "sent" \in Steps
  BY DEF MaybeFlow, Flows, MaybeIdentity, Steps
<1> QED
  BY <1>1, NothingSeen DEF GrantHandlers

(* The browser comes back to the listener. *)
LEMMA BrowserRedirectKeeps ==
    ASSUME LoginInv, NEW f \in Flows, NEW who \in Identities, BrowserRedirect(f, who) PROVE LoginInv'
<1>1. LoginTypeOK /\ Core /\ listener \in Flows /\ <<f, "browser">> \in Grants
  BY Numbered DEF LoginInv, BrowserRedirect, LoginTypeOK, Grants
<1>2. logins[listener].pc \in {"answered", "shown"}
  BY <1>1, Positive DEF Core, Answered
<1>3. dialog' \in Dialogs /\ SameDialog
  BY <1>1 DEF BrowserRedirect, LoginTypeOK, SameDialog
<1> DEFINE r == [NoGrant EXCEPT !.step = "sent", !.flow = listener, !.who = who]
<1>4. r \in GrantHandlers /\ r.step = "sent" /\ r.flow = listener
  BY <1>1, NewCallback
<1>5. grants' = [grants EXCEPT ![<<f, "browser">>] = r]
  BY DEF BrowserRedirect
<1> HIDE DEF r
<1> QED
  BY <1>1, <1>2, <1>3, <1>4, <1>5, ArrivesKeeps DEF BrowserRedirect

(* The operator pastes a code. *)
LEMMA submitManualCodeKeeps ==
    ASSUME LoginInv, NEW who \in Identities, submitManualCode(who) PROVE LoginInv'
<1>1. LoginTypeOK /\ Core /\ dialog \in Dialogs
  BY DEF LoginInv, LoginTypeOK
<1>2. dialog.flow \in MaybeFlow /\ dialog.flow # 0 /\ dialog.session \in Nat
  BY <1>1 DEF Dialogs, submitManualCode
<1>3. dialog.flow \in Flows /\ <<dialog.flow, "paste">> \in Grants
  BY <1>2, Numbered DEF Grants
<1>4. logins[dialog.flow].pc \in {"answered", "shown"}
  BY <1>1, <1>2 DEF Core, Shown
<1>5. dialog' \in Dialogs /\ SameDialog
  BY <1>1 DEF submitManualCode, Dialogs, SameDialog
<1> DEFINE f == dialog.flow
           n == dialog.session
           r == [NoGrant EXCEPT !.step = "sent", !.flow = f, !.who = who, !.session = n]
<1>6. grants' = [grants EXCEPT ![<<dialog.flow, "paste">>] = r]
  BY DEF submitManualCode
<1>7. f \in Flows /\ n \in Nat
  BY <1>2, <1>3
<1> HIDE DEF f, n
<1>8. r \in GrantHandlers /\ r.step = "sent" /\ r.flow = f
  BY <1>7, NewPaste
<1> HIDE DEF r
<1> QED
  BY <1>3, <1>4, <1>5, <1>6, <1>8, ArrivesKeeps DEF submitManualCode, f

(* The answer of the code POST arrives. *)
LEMMA CodeAnsweredKeeps == ASSUME LoginInv, NEW g \in Grants, CodeAnswered(g) PROVE LoginInv'
<1>1. LoginTypeOK /\ dialog \in Dialogs /\ "over" \in Steps
  BY DEF LoginInv, LoginTypeOK, Steps
<1>2. dialog' \in Dialogs /\ SameDialog
  BY <1>1 DEF CodeAnswered, Dialogs, SameDialog
<1>3. /\ grants' \in [Grants -> GrantHandlers] /\ grants'[g].step = "over"
      /\ grants'[g].flow = grants[g].flow /\ OthersSame(g)
  BY <1>1, SteppedType DEF CodeAnswered, OthersSame
<1> QED
  BY <1>1, <1>2, <1>3, MovesOn DEF CodeAnswered, LoginTypeOK, Running

(* A pasted code is refused. *)
LEMMA CodeRefusedKeeps == ASSUME LoginInv, NEW g \in Grants, CodeRefused(g) PROVE LoginInv'
<1>1. LoginTypeOK /\ "failed" \in Steps
  BY DEF LoginInv, Steps
<1>2. dialog' \in Dialogs /\ SameDialog
  BY <1>1 DEF CodeRefused, LoginTypeOK, SameDialog
<1>3. /\ grants' \in [Grants -> GrantHandlers] /\ grants'[g].step = "failed"
      /\ grants'[g].flow = grants[g].flow /\ OthersSame(g)
  BY <1>1, ReachedType DEF CodeRefused, OthersSame
<1> QED
  BY <1>1, <1>2, <1>3, MovesOn DEF CodeRefused, LoginTypeOK, Running

(* The pending file is read. *)
LEMMA LoadPendingKeeps == ASSUME LoginInv, NEW g \in Grants, LoadPending(g) PROVE LoginInv'
<1>1. LoginTypeOK /\ "loaded" \in Steps /\ grants[g].step \in Running /\ 0 \in MaybeFlow
  BY LoginAssumption DEF LoginInv, Steps, LoadPending, Running, MaybeFlow
<1>2. CASE pendingFile = g[1] /\ grants' = Reached(g, "loaded") /\ UNCHANGED <<pendingFile, logins, faults>>
  <2>1. dialog' \in Dialogs /\ SameDialog
    BY <1>1 DEF LoadPending, LoginTypeOK, SameDialog
  <2>2. /\ grants' \in [Grants -> GrantHandlers] /\ grants'[g].step = "loaded"
        /\ grants'[g].flow = grants[g].flow /\ OthersSame(g)
    BY <1>1, <1>2, ReachedType DEF OthersSame
  <2> QED
    BY <1>1, <1>2, <2>1, <2>2, MovesOn DEF LoadPending, LoginTypeOK
<1>3. CASE CommitFails(g) /\ pendingFile' \in {pendingFile, 0} /\ faults' \in {faults, faults + 1}
  BY <1>1, <1>3, CommitFailsKeeps DEF LoadPending, LoginTypeOK
<1> QED
  BY <1>2, <1>3 DEF LoadPending, CommitFails, Fault

(* The code is exchanged. *)
LEMMA ExchangeKeeps == ASSUME LoginInv, NEW g \in Grants, Exchange(g) PROVE LoginInv'
<1>1. LoginTypeOK /\ "exchanged" \in Steps /\ grants[g].step \in Running /\ 0 \in MaybeFlow
  BY LoginAssumption DEF LoginInv, Steps, Exchange, Running, MaybeFlow
<1> DEFINE r == [grants[g] EXCEPT !.step = "exchanged", !.spent = TRUE]
<1>2. CASE pendingFile' = 0 /\ UNCHANGED <<logins, faults>> /\ grants' = [grants EXCEPT ![g] = r]
  <2>1. dialog' \in Dialogs /\ SameDialog
    BY <1>1 DEF Exchange, LoginTypeOK, SameDialog
  <2>2. r \in GrantHandlers /\ r.step = "exchanged" /\ r.flow = grants[g].flow
    BY <1>1, GrantEdits DEF LoginTypeOK, GrantHandlers
  <2> HIDE DEF r
  <2>3. grants' \in [Grants -> GrantHandlers] /\ grants'[g] = r /\ OthersSame(g)
    BY <1>1, <1>2, <2>2 DEF LoginTypeOK, OthersSame
  <2> QED
    BY <1>1, <1>2, <2>1, <2>2, <2>3, MovesOn DEF Exchange, LoginTypeOK
<1>3. CASE CommitFails(g) /\ UNCHANGED pendingFile /\ faults' = faults + 1
  BY <1>1, <1>3, CommitFailsKeeps DEF Exchange, LoginTypeOK
<1> QED
  BY <1>2, <1>3 DEF Exchange, CommitFails, Fault

(* The login is checked before it is committed. *)
LEMMA CommitCheckKeeps == ASSUME LoginInv, NEW g \in Grants, CommitCheck(g) PROVE LoginInv'
<1>1. LoginTypeOK /\ "checked" \in Steps /\ grants[g].step \in Running
  BY DEF LoginInv, Steps, CommitCheck, Running
<1> DEFINE r == [grants[g] EXCEPT !.step = "checked", !.seen = poolRows]
<1>2. CASE UNCHANGED logins /\ grants' = [grants EXCEPT ![g] = r]
  <2>1. dialog' \in Dialogs /\ SameDialog
    BY <1>1 DEF CommitCheck, LoginTypeOK, SameDialog
  <2>2. grants[g] \in GrantHandlers /\ poolRows \in [LoginIds -> MaybeIdentity]
    BY <1>1 DEF LoginTypeOK
  <2>3. r \in GrantHandlers
    BY <1>1, <2>2, GrantEdits
  <2>4. r.step = "checked" /\ r.flow = grants[g].flow
    BY <2>2 DEF GrantHandlers
  <2> HIDE DEF r
  <2>5. grants' \in [Grants -> GrantHandlers] /\ grants'[g] = r /\ OthersSame(g)
    BY <1>1, <1>2, <2>3 DEF LoginTypeOK, OthersSame
  <2> QED
    BY <1>1, <1>2, <2>1, <2>4, <2>5, MovesOn DEF CommitCheck, LoginTypeOK
<1>3. CASE CommitFails(g)
  BY <1>1, <1>3, CommitFailsKeeps DEF CommitCheck, LoginTypeOK
<1> QED
  BY <1>2, <1>3 DEF CommitCheck

(* The gate is passed, or not. *)
LEMMA CommitGateKeeps == ASSUME LoginInv, NEW g \in Grants, CommitGate(g) PROVE LoginInv'
<1>1. /\ LoginTypeOK /\ Values /\ Core /\ "gated" \in Steps
      /\ grants[g].step = "checked" /\ grants[g].step \in Running
  BY TypesGiveValues DEF LoginInv, Steps, CommitGate, Running
<1>2. CASE Owns(grants[g].flow)
  <2>1. grants' = [grants EXCEPT ![g].step = "gated"] /\ logins' = logins
    BY <1>2 DEF CommitGate
  <2>2. /\ grants' \in [Grants -> GrantHandlers] /\ grants'[g].step = "gated"
        /\ grants'[g].flow = grants[g].flow /\ OthersSame(g)
    BY <1>1, <2>1, SteppedType DEF OthersSame
  <2>3. LoginTypeOK'
    BY <1>1, <2>1, <2>2 DEF CommitGate, LoginTypeOK
  <2>4. Core'
    BY <1>1, <1>2, <2>1, <2>2, <2>3, TypesGiveValues, GateStep DEF CommitGate, SameDialog
  <2> QED
    BY <2>3, <2>4 DEF LoginInv
<1>3. CASE ~Owns(grants[g].flow)
  <2>1. CommitFails(g)
    BY <1>3 DEF CommitGate
  <2> QED
    BY <1>1, <2>1, CommitFailsKeeps DEF CommitGate, LoginTypeOK
<1> QED
  BY <1>2, <1>3

(* The tokens are written, or the write fails. *)
LEMMA CommitPersistKeeps == ASSUME LoginInv, NEW g \in Grants, CommitPersist(g) PROVE LoginInv'
<1> DEFINE f == grants[g].flow
           c == [who |-> grants[g].who, flow |-> f]
<1>1. /\ LoginTypeOK /\ Values /\ Core /\ "persisted" \in Steps
      /\ grants[g].step = "gated" /\ grants[g].step \in Running
  BY TypesGiveValues DEF LoginInv, Steps, CommitPersist, Running
<1>2. f \in Flows /\ logins[f].id \in LoginIds
  BY <1>1 DEF Core, Answered, Named
<1>3. CASE /\ credentials' = [credentials EXCEPT ![logins[f].id] = c]
           /\ logins' = [logins EXCEPT ![f].stored = @ \union {"tokens"}]
           /\ grants' = [grants EXCEPT ![g].step = "persisted"] /\ UNCHANGED faults
  <2>1. c \in Credentials /\ c.flow = f
    BY <1>1 DEF LoginTypeOK, GrantHandlers, Credentials
  <2>2. /\ grants' \in [Grants -> GrantHandlers] /\ grants'[g].step = "persisted"
        /\ grants'[g].flow = grants[g].flow /\ OthersSame(g)
    BY <1>1, <1>3, SteppedType DEF OthersSame
  <2>3. /\ logins' \in [Flows -> Logins] /\ SameLogins
        /\ \A h \in Flows : logins'[h].status = logins[h].status
    BY <1>1, <1>2, <1>3, StoredType DEF SameLogins
  <2> HIDE DEF c, f
  <2>4. /\ credentials' \in [LoginIds -> Credentials] /\ credentials'[logins[f].id] = c
        /\ \A id \in LoginIds : id # logins[f].id => credentials'[id] = credentials[id]
    BY <1>1, <1>2, <1>3, <2>1 DEF LoginTypeOK
  <2>5. LoginTypeOK'
    BY <1>1, <1>3, <2>2, <2>3, <2>4 DEF CommitPersist, LoginTypeOK
  <2>6. Core'
    BY <1>1, <2>1, <2>2, <2>3, <2>4, <2>5, TypesGiveValues, PersistStep DEF CommitPersist, SameDialog, f
  <2> QED
    BY <2>5, <2>6 DEF LoginInv
<1>4. CASE CommitFails(g) /\ UNCHANGED credentials /\ faults' = faults + 1
  BY <1>1, <1>4, CommitFailsKeeps DEF CommitPersist, LoginTypeOK
<1> QED
  BY <1>3, <1>4 DEF CommitPersist, Fault

(* The row is written, or the transaction fails. *)
LEMMA CommitConfigKeeps == ASSUME LoginInv, NEW g \in Grants, CommitConfig(g) PROVE LoginInv'
<1> DEFINE f == grants[g].flow
           written == [grants[g].seen EXCEPT ![logins[f].id] = grants[g].who]
<1>1. /\ LoginTypeOK /\ Values /\ Core /\ "configured" \in Steps
      /\ grants[g].step = "persisted" /\ grants[g].step \in Running
  BY TypesGiveValues DEF LoginInv, Steps, CommitConfig, Running
<1>2. f \in Flows /\ logins[f].pc \in {"answered", "shown"}
  BY <1>1 DEF Core, Answered
<1>3. written \in [LoginIds -> MaybeIdentity]
  BY <1>1 DEF LoginTypeOK, GrantHandlers
<1> HIDE DEF written
<1>4. CASE /\ poolRows' = written /\ grants' = Reached(g, "configured")
           /\ logins' = [logins EXCEPT ![f].stored = @ \union {"row"}] /\ UNCHANGED faults
  <2>1. /\ grants' \in [Grants -> GrantHandlers] /\ grants'[g].step = "configured"
        /\ grants'[g].flow = grants[g].flow /\ OthersSame(g)
    BY <1>1, <1>4, ReachedType DEF OthersSame
  <2>2. logins' \in [Flows -> Logins] /\ SameLogins /\ OnlyErrors
    BY <1>1, <1>2, <1>4, StoredType DEF SameLogins, OnlyErrors
  <2>3. LoginTypeOK'
    BY <1>1, <1>3, <1>4, <2>1, <2>2 DEF CommitConfig, LoginTypeOK
  <2>4. Core'
    BY <1>1, <1>2, <2>1, <2>2, <2>3, TypesGiveValues, GrantStep DEF CommitConfig, SameDialog
  <2> QED
    BY <2>3, <2>4 DEF LoginInv
<1>5. CASE CommitFails(g) /\ poolRows' \in {poolRows, written} /\ faults' = faults + 1
  BY <1>1, <1>3, <1>5, CommitFailsKeeps DEF CommitConfig, LoginTypeOK
<1> QED
  BY <1>4, <1>5 DEF CommitConfig, Fault, written

(* The owner reports done, anyone else fails. *)
LEMMA CommitFinishKeeps == ASSUME LoginInv, NEW g \in Grants, CommitFinish(g) PROVE LoginInv'
<1>1. /\ LoginTypeOK /\ Values /\ Core /\ "done" \in Steps /\ "done" \in Statuses
      /\ grants[g].step = "configured" /\ grants[g].step \in Running
  BY TypesGiveValues DEF LoginInv, Steps, Statuses, CommitFinish, Running
<1>2. grants[g].flow \in Flows
  BY <1>1 DEF Core, Answered
<1>3. CASE Owns(grants[g].flow)
  <2>1. logins' = [logins EXCEPT ![grants[g].flow].status = "done"] /\ grants' = Reached(g, "done")
    BY <1>3 DEF CommitFinish
  <2>2. /\ grants' \in [Grants -> GrantHandlers] /\ grants'[g].step = "done"
        /\ grants'[g].flow = grants[g].flow /\ OthersSame(g)
    BY <1>1, <2>1, ReachedType DEF OthersSame
  <2>3. /\ logins' \in [Flows -> Logins] /\ SameLogins /\ logins'[grants[g].flow].status = "done"
        /\ \A h \in Flows : h # grants[g].flow => logins'[h].status = logins[h].status
    BY <1>1, <1>2, <2>1, StatusType DEF SameLogins
  <2>4. LoginTypeOK'
    BY <1>1, <2>2, <2>3 DEF CommitFinish, LoginTypeOK
  <2>5. Core'
    BY <1>1, <1>3, <2>2, <2>3, <2>4, TypesGiveValues, DoneStep DEF CommitFinish, SameDialog
  <2> QED
    BY <2>4, <2>5 DEF LoginInv
<1>4. CASE ~Owns(grants[g].flow)
  <2>1. CommitFails(g)
    BY <1>4 DEF CommitFinish
  <2> QED
    BY <1>1, <2>1, CommitFailsKeeps DEF CommitFinish, LoginTypeOK
<1> QED
  BY <1>3, <1>4

(* A finished login gives the slot back. *)
LEMMA CommitReleaseKeeps == ASSUME LoginInv, NEW g \in Grants, CommitRelease(g) PROVE LoginInv'
<1>1. LoginTypeOK /\ Values /\ Core /\ "finished" \in Steps
  BY TypesGiveValues DEF LoginInv, Steps
<1>2. owner' \in Owners /\ (owner' = owner \/ (~owner'.active /\ owner'.gen >= owner.gen))
  <2>1. owner \in Owners
    BY <1>1 DEF LoginTypeOK
  <2>2. [owner EXCEPT !.active = FALSE] \in Owners
    BY <2>1 DEF Owners
  <2>3. ~[owner EXCEPT !.active = FALSE].active /\ [owner EXCEPT !.active = FALSE].gen = owner.gen
    BY <2>1 DEF Owners
  <2>4. CASE owner' = owner
    BY <2>1, <2>4
  <2>5. CASE owner' = [owner EXCEPT !.active = FALSE]
    BY <1>1, <2>2, <2>3, <2>5 DEF Values
  <2> QED
    BY <2>4, <2>5 DEF CommitRelease, OwnerReleased
<1>3. /\ grants' \in [Grants -> GrantHandlers] /\ grants'[g].step = "finished"
      /\ grants'[g].flow = grants[g].flow /\ \A h \in Grants : h # g => grants'[h] = grants[h]
  BY <1>1, ReachedType DEF CommitRelease
<1>4. LoginTypeOK'
  BY <1>1, <1>2, <1>3 DEF CommitRelease, LoginTypeOK
<1>5. \A h \in Grants : /\ grants'[h].flow = grants[h].flow
                        /\ \/ grants'[h].step = grants[h].step
                           \/ grants'[h].step = "finished" /\ grants[h].step = "done"
  BY <1>3 DEF CommitRelease
<1>6. Core'
  BY <1>1, <1>2, <1>4, <1>5, TypesGiveValues, OwnerStep DEF CommitRelease, SameDialog
<1> QED
  BY <1>4, <1>6 DEF LoginInv

-----------------------------------------------------------------------------
(* The steps of the dialog. *)

(* A dialog that ends its attempt, or opens a new one, forgets its flow. *)
LEMMA DialogEdits ==
    ASSUME NEW d \in Dialogs
    PROVE  /\ attemptEnded(d) \in Dialogs /\ attemptEnded(d).flow = 0 /\ attemptEnded(d).watching = 0
           /\ [attemptEnded(d) EXCEPT !.open = FALSE, !.post = 0] \in Dialogs
           /\ [attemptEnded(d) EXCEPT !.open = FALSE, !.post = 0].flow = 0
           /\ [attemptEnded(d) EXCEPT !.open = FALSE, !.post = 0].watching = 0
           /\ backToChoosing(attemptEnded(d)) \in Dialogs
           /\ backToChoosing(attemptEnded(d)).flow = 0 /\ backToChoosing(attemptEnded(d)).watching = 0
           /\ \A b \in BOOLEAN : /\ [d EXCEPT !.reading = b] \in Dialogs
                                 /\ [d EXCEPT !.reading = b].flow = d.flow
                                 /\ [d EXCEPT !.reading = b].watching = d.watching
           /\ \A p \in MaybeFlow : /\ [d EXCEPT !.post = p] \in Dialogs
                                   /\ [d EXCEPT !.post = p].flow = d.flow
                                   /\ [d EXCEPT !.post = p].watching = d.watching
<1>1. 0 \in MaybeFlow
  BY LoginAssumption DEF MaybeFlow
<1> DEFINE e == attemptEnded(d)
<1>2. e \in Dialogs /\ e.flow = 0 /\ e.watching = 0
  BY <1>1 DEF attemptEnded, Dialogs
<1> HIDE DEF e
<1>3. /\ [e EXCEPT !.open = FALSE, !.post = 0] \in Dialogs
      /\ [e EXCEPT !.open = FALSE, !.post = 0].flow = 0
      /\ [e EXCEPT !.open = FALSE, !.post = 0].watching = 0
  BY <1>1, <1>2 DEF Dialogs
<1>4. [e EXCEPT !.phase = "choosing"] \in Dialogs /\ [e EXCEPT !.phase = "choosing"].flow = 0
      /\ [e EXCEPT !.phase = "choosing"].watching = 0
  BY <1>2 DEF Dialogs
<1>5. backToChoosing(e) \in Dialogs /\ backToChoosing(e).flow = 0 /\ backToChoosing(e).watching = 0
  BY <1>2, <1>4 DEF backToChoosing
<1>6. \A b \in BOOLEAN : /\ [d EXCEPT !.reading = b] \in Dialogs
                         /\ [d EXCEPT !.reading = b].flow = d.flow
                         /\ [d EXCEPT !.reading = b].watching = d.watching
  BY DEF Dialogs
<1>7. \A p \in MaybeFlow : /\ [d EXCEPT !.post = p] \in Dialogs
                           /\ [d EXCEPT !.post = p].flow = d.flow
                           /\ [d EXCEPT !.post = p].watching = d.watching
  BY DEF Dialogs
<1> QED
  BY <1>2, <1>3, <1>5, <1>6, <1>7 DEF e

(* A dialog that is mounted has its type. *)
LEMMA NewDialog ==
    ASSUME NEW n \in Nat, NEW id \in MaybeId
    PROVE  /\ createLoginAttempt(n, id) \in Dialogs
           /\ createLoginAttempt(n, id).flow = 0 /\ createLoginAttempt(n, id).watching = 0
           /\ [createLoginAttempt(n, id) EXCEPT !.open = FALSE] \in Dialogs
           /\ [createLoginAttempt(n, id) EXCEPT !.open = FALSE].flow = 0
           /\ [createLoginAttempt(n, id) EXCEPT !.open = FALSE].watching = 0
<1>1. 0 \in MaybeFlow
  BY LoginAssumption DEF MaybeFlow
<1> DEFINE d == createLoginAttempt(n, id)
<1>2. d \in Dialogs /\ d.flow = 0 /\ d.watching = 0
  BY <1>1 DEF createLoginAttempt, Dialogs
<1> HIDE DEF d
<1>3. /\ [d EXCEPT !.open = FALSE] \in Dialogs
      /\ [d EXCEPT !.open = FALSE].flow = 0 /\ [d EXCEPT !.open = FALSE].watching = 0
  BY <1>2 DEF Dialogs
<1> QED
  BY <1>2, <1>3 DEF d

(* A step of the dialog alone. *)
LEMMA DialogKeeps ==
    ASSUME LoginInv, dialog' \in Dialogs, dialog'.flow \in {dialog.flow, 0},
           dialog'.watching \in {dialog.watching, 0}, dialog'.flow = 0 => dialog'.watching = 0,
           UNCHANGED <<proxyVars, logins, restarts>>,
           cancels' = cancels \/ (dialog.flow # 0 /\ abandonFlow(dialog.flow)),
           reads' \subseteq StatusReads, added' \subseteq Flows, faults' \in Nat
    PROVE  LoginInv'
<1>1. LoginTypeOK /\ Values /\ Core
  BY TypesGiveValues DEF LoginInv
<1>2. dialog'.watching \in {dialog'.flow, 0}
  BY <1>1 DEF Core, Shown
<1>3. /\ cancels' \subseteq CancelHandlers
      /\ \A x \in cancels' : x \in cancels \/ (dialog.flow # 0 /\ x.flow = dialog.flow /\ x.step = "sent")
  BY <1>1, Numbered DEF LoginTypeOK, abandonFlow, CancelHandlers, Values
<1>4. LoginTypeOK'
  BY <1>1, <1>3 DEF LoginTypeOK, proxyVars
<1>5. Core'
  BY <1>1, <1>2, <1>3, <1>4, TypesGiveValues, DialogStep DEF proxyVars
<1> QED
  BY <1>4, <1>5 DEF LoginInv

(* A dialog opens to add an account. *)
LEMMA OpenToAddKeeps == ASSUME LoginInv, OpenToAdd PROVE LoginInv'
<1>1. LoginTypeOK /\ dialog.session + 1 \in Nat /\ Absent \in MaybeId
  BY DEF LoginInv, LoginTypeOK, Dialogs, MaybeId
<1>2. dialog' \in Dialogs /\ dialog'.flow = 0 /\ dialog'.watching = 0
  BY <1>1, NewDialog DEF OpenToAdd
<1> QED
  BY <1>1, <1>2, DialogKeeps DEF OpenToAdd, LoginTypeOK

(* A login POST goes out. *)
LEMMA requestLoginKeeps ==
    ASSUME LoginInv, NEW d \in Dialogs, NEW id \in LoginIds, NEW b \in BOOLEAN, requestLogin(d, id, b),
           d.flow \in {dialog.flow, 0}, d.watching \in {dialog.watching, 0}, d.flow = 0 => d.watching = 0,
           UNCHANGED <<proxyVars, cancels, reads, added, faults, restarts>>
    PROVE  LoginInv'
<1>1. LoginTypeOK /\ Values /\ Core
  BY TypesGiveValues DEF LoginInv
<1>2. PICK f \in Flows :
          /\ \A g \in Flows : (g < f) <=> (logins[g].pc # "idle")
          /\ logins' = [logins EXCEPT ![f] = [@ EXCEPT !.pc = "sent", !.id = id, !.reauth = b]]
          /\ dialog' = [d EXCEPT !.post = f]
  BY DEF requestLogin
<1>3. logins[f].pc = "idle"
  BY <1>2 DEF Flows
<1>4. f \in MaybeFlow /\ "sent" \in Stages
  BY DEF MaybeFlow, Flows, Stages
<1> DEFINE l == [logins[f] EXCEPT !.pc = "sent", !.id = id, !.reauth = b]
<1>5. logins[f] \in Logins /\ l \in Logins
  BY <1>1, <1>4, LoginEdits DEF LoginTypeOK
<1>6. /\ l.pc = "sent" /\ l.gen = logins[f].gen /\ l.status = logins[f].status /\ l.id = id
      /\ l.cancelled = logins[f].cancelled
  BY <1>5 DEF Logins
<1>7. logins' = [logins EXCEPT ![f] = l]
  BY <1>2
<1> HIDE DEF l
<1>8. dialog' \in Dialogs /\ dialog'.flow = d.flow /\ dialog'.watching = d.watching
  BY <1>2, <1>4, DialogEdits
<1>9. /\ logins' \in [Flows -> Logins] /\ logins'[f] = l
      /\ \A h \in Flows : h # f => logins'[h] = logins[h]
  BY <1>1, <1>5, <1>7 DEF LoginTypeOK
<1>10. LoginTypeOK'
  BY <1>1, <1>8, <1>9 DEF LoginTypeOK, proxyVars
<1>11. dialog'.flow \in {dialog.flow, 0} /\ dialog'.watching \in {dialog'.flow, 0}
  BY <1>1, <1>8 DEF Core, Shown
<1>12. Core'
  BY <1>1, <1>3, <1>6, <1>9, <1>10, <1>11, TypesGiveValues, StageStep DEF proxyVars
<1> QED
  BY <1>10, <1>12 DEF LoginInv

(* A dialog opens to re-authenticate. *)
LEMMA OpenToReauthKeeps == ASSUME LoginInv, NEW id \in LoginIds, OpenToReauth(id) PROVE LoginInv'
<1>1. LoginTypeOK /\ dialog.session + 1 \in Nat /\ id \in MaybeId
  BY DEF LoginInv, LoginTypeOK, Dialogs, MaybeId
<1> DEFINE d == createLoginAttempt(dialog.session + 1, id)
<1>2. d \in Dialogs /\ d.flow = 0 /\ d.watching = 0
  BY <1>1, NewDialog
<1>3. requestLogin(d, id, TRUE)
  BY DEF OpenToReauth
<1> HIDE DEF d
<1> QED
  BY <1>2, <1>3, requestLoginKeeps DEF OpenToReauth

(* The operator starts a login. *)
LEMMA startOAuthKeeps == ASSUME LoginInv, NEW id \in LoginIds, startOAuth(id) PROVE LoginInv'
<1>1. dialog \in Dialogs /\ (dialog.flow = 0 => dialog.watching = 0)
  BY DEF LoginInv, LoginTypeOK, Core, Shown
<1> QED
  BY <1>1, requestLoginKeeps DEF startOAuth

(* The login POST is answered, and the dialog shows its flow. *)
LEMMA watchFlowKeeps == ASSUME LoginInv, watchFlow PROVE LoginInv'
<1> DEFINE f == dialog.post
           d == [dialog EXCEPT !.phase = "authorizing", !.flow = f, !.watching = f, !.reading = FALSE,
                               !.post = 0]
           l == [logins[f] EXCEPT !.pc = "shown"]
<1>1. LoginTypeOK /\ Values /\ Core /\ dialog \in Dialogs
  BY TypesGiveValues DEF LoginInv, LoginTypeOK
<1>2. f \in Flows /\ f \in MaybeFlow /\ 0 \in MaybeFlow /\ "shown" \in Stages
  BY <1>1, Numbered, LoginAssumption DEF watchFlow, Dialogs, MaybeFlow, Stages
<1>3. dialog' = d /\ logins' = [logins EXCEPT ![f] = l] /\ logins[f].pc = "answered"
  BY DEF watchFlow
<1>4. logins[f] \in Logins /\ l \in Logins
  BY <1>1, <1>2, LoginEdits DEF LoginTypeOK
<1>5. /\ l.pc = "shown" /\ l.gen = logins[f].gen /\ l.status = logins[f].status /\ l.id = logins[f].id
      /\ l.cancelled = logins[f].cancelled
  BY <1>4 DEF Logins
<1> HIDE DEF l, f
<1>6. d \in Dialogs /\ d.flow = f /\ d.watching = f
  BY <1>1, <1>2 DEF Dialogs
<1> HIDE DEF d
<1>7. /\ logins' \in [Flows -> Logins] /\ logins'[f] = l
      /\ \A h \in Flows : h # f => logins'[h] = logins[h]
  BY <1>1, <1>2, <1>3, <1>4 DEF LoginTypeOK
<1>8. LoginTypeOK'
  BY <1>1, <1>3, <1>6, <1>7 DEF LoginTypeOK, watchFlow, proxyVars
<1>9. Core'
  BY <1>1, <1>2, <1>3, <1>5, <1>6, <1>7, <1>8, TypesGiveValues, ShowStep DEF watchFlow, proxyVars
<1> QED
  BY <1>8, <1>9 DEF LoginInv

(* The other steps of the dialog. *)
LEMMA DialogActionsKeep ==
    ASSUME LoginInv,
           \/ LoginRefused \/ onLoginWindowClosed \/ closeModal \/ PollTick
           \/ \E r \in reads : ServeStatus(r) \/ StatusRead(r) \/ StatusLost(r)
    PROVE  LoginInv'
<1>1. /\ LoginTypeOK /\ Core /\ dialog \in Dialogs /\ 0 \in MaybeFlow
      /\ (dialog.watching # 0 => dialog.watching = dialog.flow)
  BY LoginAssumption DEF LoginInv, LoginTypeOK, Core, Shown, MaybeFlow
<1>2. reads \subseteq StatusReads /\ {} \subseteq StatusReads /\ added \subseteq Flows /\ faults \in Nat
  BY <1>1 DEF LoginTypeOK
<1>3. CASE LoginRefused
  BY <1>1, <1>2, <1>3, DialogEdits, DialogKeeps DEF LoginRefused
<1>4. CASE onLoginWindowClosed
  <2>1. dialog' \in Dialogs /\ dialog'.flow = 0 /\ dialog'.watching = 0 /\ dialog.flow # 0
    BY <1>1, <1>4, DialogEdits DEF onLoginWindowClosed
  <2> QED
    BY <1>2, <1>4, <2>1, DialogKeeps DEF onLoginWindowClosed, abortReads
<1>5. CASE closeModal
  <2>1. dialog' \in Dialogs /\ dialog'.flow = 0 /\ dialog'.watching = 0
    BY <1>1, <1>5, DialogEdits DEF closeModal
  <2> QED
    BY <1>2, <1>5, <2>1, DialogKeeps DEF closeModal, abortReads
<1>6. CASE PollTick
  <2>1. dialog' \in Dialogs /\ dialog'.flow = dialog.flow /\ dialog'.watching = dialog.watching
    BY <1>1, <1>6, DialogEdits DEF PollTick
  <2>2. dialog.watching \in Flows
    BY <1>1, <1>6, Numbered DEF PollTick, Dialogs
  <2>3. reads' \subseteq StatusReads
    BY <1>2, <1>6, <2>2 DEF PollTick, StatusReads
  <2> QED
    BY <1>1, <1>2, <1>6, <2>1, <2>3, DialogKeeps DEF PollTick
<1>7. ASSUME NEW r \in reads, ServeStatus(r) PROVE LoginInv'
  <2>1. r \in StatusReads
    BY <1>2
  <2>2. r.flow \in Flows
    BY <2>1 DEF StatusReads
  <2>3. logins[r.flow].status \in Statuses
    BY <1>1, <2>2 DEF LoginTypeOK, Logins
  <2>4. \A a \in Statuses : [r EXCEPT !.answer = a] \in StatusReads
    BY <2>1 DEF StatusReads
  <2>5. reads' \subseteq StatusReads
    BY <1>2, <1>7, <2>3, <2>4 DEF ServeStatus, Statuses
  <2> QED
    BY <1>1, <1>2, <1>7, <2>5, DialogKeeps DEF ServeStatus
<1>8. ASSUME NEW r \in reads, StatusRead(r) PROVE LoginInv'
  <2>1. r.flow \in Flows
    BY <1>2 DEF StatusReads
  <2>2. reads' \subseteq StatusReads /\ added' \subseteq Flows
    BY <1>2, <1>8, <2>1 DEF StatusRead, abortReads
  <2>3. CASE r.answer = "pending"
    <3>1. dialog' = [dialog EXCEPT !.reading = FALSE]
      BY <1>8, <2>3 DEF StatusRead
    <3>2. dialog' \in Dialogs /\ dialog'.flow = dialog.flow /\ dialog'.watching = dialog.watching
      BY <1>1, <3>1, DialogEdits
    <3> QED
      BY <1>1, <1>2, <1>8, <2>2, <3>2, DialogKeeps DEF StatusRead
  <2>4. CASE r.answer # "pending"
    <3>1. \/ dialog' = [attemptEnded(dialog) EXCEPT !.open = FALSE, !.post = 0]
          \/ dialog' = backToChoosing(attemptEnded(dialog))
      BY <1>8, <2>4 DEF StatusRead
    <3>2. dialog' \in Dialogs /\ dialog'.flow = 0 /\ dialog'.watching = 0
      BY <1>1, <3>1, DialogEdits
    <3> QED
      BY <1>1, <1>2, <1>8, <2>2, <3>2, DialogKeeps DEF StatusRead
  <2> QED
    BY <2>3, <2>4
<1>9. ASSUME NEW r \in reads, StatusLost(r) PROVE LoginInv'
  <2>1. dialog' \in Dialogs /\ dialog'.flow = dialog.flow /\ dialog'.watching = dialog.watching
    BY <1>1, <1>9, DialogEdits DEF StatusLost
  <2>2. reads' \subseteq StatusReads /\ faults' \in Nat
    BY <1>2, <1>9 DEF StatusLost, Fault
  <2> QED
    BY <1>1, <1>2, <1>9, <2>1, <2>2, DialogKeeps DEF StatusLost
<1> QED
  BY <1>3, <1>4, <1>5, <1>6, <1>7, <1>8, <1>9

-----------------------------------------------------------------------------
(* The proxy restarts. *)
LEMMA RestartKeeps == ASSUME LoginInv, RestartProxy PROVE LoginInv'
<1> DEFINE l(f) == [logins[f] EXCEPT !.gen = 0, !.status = "unknown", !.cancelled = FALSE,
                                     !.pc = IF @ \in {"idle", "shown"} THEN @ ELSE "refused"]
<1>1. LoginTypeOK /\ Values /\ Core /\ dialog \in Dialogs
  BY TypesGiveValues DEF LoginInv, LoginTypeOK
<1>2. ASSUME NEW f \in Flows
      PROVE  /\ l(f) \in Logins /\ l(f).status = "unknown" /\ l(f).gen = 0 /\ l(f).cancelled = FALSE
             /\ l(f).id = logins[f].id
             /\ l(f).pc = IF logins[f].pc \in {"idle", "shown"} THEN logins[f].pc ELSE "refused"
  <2>1. logins[f] \in Logins
    BY <1>1 DEF LoginTypeOK
  <2> QED
    BY <2>1 DEF Logins, Statuses, Stages
<1>3. logins' = [f \in Flows |-> l(f)]
  BY DEF RestartProxy
<1> HIDE DEF l
<1>4. logins' \in [Flows -> Logins] /\ \A f \in Flows : logins'[f] = l(f)
  BY <1>2, <1>3
<1>5. "failed" \in Steps
  BY DEF Steps
<1>6. /\ grants' \in [Grants -> GrantHandlers]
      /\ \A g \in Grants : \/ grants[g].step \in {"none", "over"} /\ grants'[g] = grants[g]
                           \/ grants'[g] = Reached(g, "failed")[g]
  <2>1. \A g \in Grants : Reached(g, "failed")[g] \in GrantHandlers /\ grants[g] \in GrantHandlers
    BY <1>1, <1>5, ReachedType DEF LoginTypeOK
  <2> QED
    BY <2>1 DEF RestartProxy
<1>7. \A g \in Grants : grants'[g].step \notin Running
  BY <1>1, <1>5, <1>6, ReachedType DEF Running
<1>8. dialog' \in Dialogs /\ SameDialog
  BY <1>1, DialogEdits DEF RestartProxy, SameDialog
<1>9. owner' \in Owners /\ owner'.gen = 0 /\ ~owner'.active
  BY DEF RestartProxy, Owners
<1>10. LoginTypeOK'
  <2>1. /\ listener' = 0 /\ cancels' = {} /\ reads' = {} /\ restarts' = restarts + 1
        /\ UNCHANGED <<pendingFile, credentials, poolRows, added, faults>>
    BY DEF RestartProxy
  <2>2. 0 \in MaybeFlow
    BY LoginAssumption DEF MaybeFlow
  <2> QED
    BY <1>1, <1>4, <1>6, <1>8, <1>9, <2>1, <2>2 DEF LoginTypeOK
<1>11. \A f \in Flows : /\ logins'[f].status = "unknown" /\ logins'[f].gen = 0 /\ ~logins'[f].cancelled
                        /\ logins'[f].id = logins[f].id
                        /\ logins'[f].pc = "idle" <=> logins[f].pc = "idle"
                        /\ logins[f].pc = "shown" => logins'[f].pc = "shown"
  BY <1>2, <1>4
<1>12. Core'
  BY <1>1, <1>7, <1>8, <1>9, <1>10, <1>11, TypesGiveValues, RestartStep DEF RestartProxy
<1> QED
  BY <1>10, <1>12 DEF LoginInv

-----------------------------------------------------------------------------
(* The invariant holds at the start. *)
LEMMA LoginInitInv == LoginInit => LoginInv
<1> SUFFICES ASSUME LoginInit PROVE LoginInv
  OBVIOUS
<1>1. NoLogin \in Logins /\ NoLogin.pc = "idle" /\ NoLogin.status = "unknown" /\ NoLogin.gen = 0
      /\ NoLogin.cancelled = FALSE
  BY DEF NoLogin, Logins, Stages, Statuses, MaybeId
<1>2. NoGrant \in GrantHandlers /\ NoGrant.step = "none"
  BY NothingSeen DEF NoGrant
<1>3. 0 \in Nat /\ Absent \in MaybeId /\ 0 \in MaybeFlow
  BY LoginAssumption DEF MaybeId, MaybeFlow
<1>4. dialog \in Dialogs /\ dialog.flow = 0 /\ dialog.watching = 0
  BY <1>3, NewDialog DEF LoginInit
<1>5. \A w \in Identities \union {Absent} : [who |-> w, flow |-> 0] \in Credentials
  BY <1>3 DEF Credentials, MaybeIdentity
<1>6. credentials \in [LoginIds -> Credentials]
  BY <1>5 DEF LoginInit
<1>7. LoginTypeOK
  BY <1>1, <1>2, <1>3, <1>4, <1>6 DEF LoginInit, LoginTypeOK, Owners, MaybeIdentity
<1>8. /\ \A f \in Flows : logins[f] = NoLogin
      /\ \A g \in Grants : grants[g] = NoGrant
  BY DEF LoginInit
<1>9. Core
  <2>1. Ranks /\ Named /\ Answered /\ Shown /\ Disowned /\ CancelledNeverDone /\ OneLock
    BY <1>1, <1>2, <1>4, <1>8
    DEF LoginInit, Ranks, Named, Answered, Shown, Disowned, CancelledNeverDone, OneLock, Running
  <2>2. \A f \in Flows : ~Persisted(f)
    BY <1>1, <1>2, <1>8 DEF Persisted
  <2> QED
    BY <2>1, <2>2 DEF Core, Behind, Newest
<1> QED
  BY <1>7, <1>9 DEF LoginInv

(* Every step keeps it. *)
LEMMA LoginNextInv == LoginInv /\ [LoginNext]_loginVars => LoginInv'
<1> SUFFICES ASSUME LoginInv, [LoginNext]_loginVars PROVE LoginInv'
  OBVIOUS
<1>1. CASE DialogNext
  BY <1>1, OpenToAddKeeps, OpenToReauthKeeps, startOAuthKeeps, watchFlowKeeps, DialogActionsKeep,
     submitManualCodeKeeps DEF DialogNext
<1>2. CASE \E f \in Flows : LoginRefuse(f) \/ LoginSave(f) \/ LoginClaim(f) \/ LoginRegister(f)
  BY <1>2, LoginRefuseKeeps, LoginSaveKeeps, LoginClaimKeeps, LoginRegisterKeeps
<1>3. CASE \E x \in cancels : CancelOwner(x) \/ CancelFile(x) \/ CancelFlow(x)
  BY <1>3, CancelOwnerKeeps, CancelFileKeeps, CancelFlowKeeps
<1>4. CASE \E f \in Flows, who \in Identities : BrowserRedirect(f, who)
  BY <1>4, BrowserRedirectKeeps
<1>5. ASSUME NEW g \in Grants,
             \/ CodeAnswered(g) \/ CodeRefused(g) \/ LoadPending(g) \/ Exchange(g) \/ CommitCheck(g)
             \/ CommitGate(g) \/ CommitPersist(g) \/ CommitConfig(g) \/ CommitFinish(g) \/ CommitRelease(g)
      PROVE  LoginInv'
  BY <1>5, CodeAnsweredKeeps, CodeRefusedKeeps, LoadPendingKeeps, ExchangeKeeps, CommitCheckKeeps,
     CommitGateKeeps, CommitPersistKeeps, CommitConfigKeeps, CommitFinishKeeps, CommitReleaseKeeps
<1>6. CASE RestartProxy
  BY <1>6, RestartKeeps
<1>7. CASE UNCHANGED loginVars
  <2>1. /\ UNCHANGED <<owner, pendingFile, listener, credentials, poolRows, grants>>
        /\ UNCHANGED <<logins, cancels, dialog, reads, added, faults, restarts>>
    BY <1>7 DEF loginVars, proxyVars
  <2>2. LoginTypeOK' /\ dialog' \in Dialogs /\ dialog'.flow = dialog.flow
    BY <2>1 DEF LoginInv, LoginTypeOK
  <2> QED
    BY <2>1, <2>2, DialogKeeps DEF LoginInv, LoginTypeOK, proxyVars, Core, Shown
<1> QED
  BY <1>1, <1>2, <1>3, <1>4, <1>5, <1>6, <1>7 DEF LoginNext, ProxyNext

(* Every variable keeps its type, and the conjuncts above hold, in every state of the      *)
(* login between dialog and proxy.                                                         *)
THEOREM LoginInvariant == LoginSpec => []LoginInv
BY LoginInitInv, LoginNextInv, PTL DEF LoginSpec

(* A login the operator cancelled is never reported done afterwards, whatever its commit   *)
(* had already written and whoever else logs in meanwhile: commitChatGPTLogin and          *)
(* serveCodexAuthLoginCancel agree for any number of logins, grants, faults and restarts.  *)
THEOREM CancelWins == LoginSpec => []CancelledNeverDone
<1>1. LoginInv => CancelledNeverDone
  BY DEF LoginInv, Core
<1> QED
  BY <1>1, LoginInvariant, PTL

(* The credential of an account is never older than its last finished login, whichever     *)
(* superseded commits were on their way to the store: the gate PutChecked asks under the   *)
(* store's lock is enough.                                                                 *)
THEOREM NewestTokensWin == LoginSpec => []NewestTokensStay
<1>1. LoginInv => NewestTokensStay
  BY DEF LoginInv, Core, Newest, Persisted, NewestTokensStay
<1> QED
  BY <1>1, LoginInvariant, PTL

-----------------------------------------------------------------------------
(* What is reported as added was stored: done is only ever said of a login whose two       *)
(* writes went through, and a read carries nothing but what the status was.                *)

Complete(f) == logins[f].stored = {"tokens", "row"}

StoredInv ==
    /\ \A f \in Flows : logins[f].status = "done" => Complete(f)
    /\ \A g \in Grants : grants[g].step \in {"persisted", "configured"} =>
            "tokens" \in logins[grants[g].flow].stored
    /\ \A g \in Grants : grants[g].step = "configured" => Complete(grants[g].flow)
    /\ \A r \in reads : r.answer = "done" => Complete(r.flow)
    /\ AddedIsStored

SameStored == \A f \in Flows : logins'[f].stored = logins[f].stored
NoNewDone == \A f \in Flows : logins'[f].status = "done" => logins[f].status = "done"
NoNewCommit ==
    \A g \in Grants : grants'[g].step \in {"persisted", "configured"} =>
        grants'[g].step = grants[g].step /\ grants'[g].flow = grants[g].flow
ReadsToldSo ==
    /\ \A r \in reads' : r.answer = "done" =>
           r.flow \in Flows /\ (r \in reads \/ logins[r.flow].status = "done")
    /\ \A f \in added' : f \in added \/ \E r \in reads : r.answer = "done" /\ r.flow = f

(* A step that stores nothing, finishes nothing and commits nothing. *)
LEMMA NothingStored ==
    ASSUME LoginInv, LoginInv', StoredInv, SameStored, NoNewDone, NoNewCommit, ReadsToldSo
    PROVE  StoredInv'
<1>1. /\ \A g \in Grants : grants[g].step \in {"persisted", "configured"} => grants[g].flow \in Flows
      /\ reads \subseteq StatusReads /\ added \subseteq Flows
  BY DEF LoginInv, LoginTypeOK, Core, Answered, Running
<1>2. \A r \in reads : r.flow \in Flows
  BY <1>1 DEF StatusReads
<1>3. \A f \in Flows : Complete(f) => Complete(f)'
  BY DEF SameStored, Complete
<1>4. /\ \A f \in Flows : logins'[f].status = "done" => Complete(f)'
      /\ \A g \in Grants : grants'[g].step = "configured" => Complete(grants[g].flow)'
      /\ \A r \in reads' : r.answer = "done" => Complete(r.flow)'
  BY <1>1, <1>2, <1>3 DEF StoredInv, NoNewDone, NoNewCommit, ReadsToldSo
<1>5. \A g \in Grants : grants'[g].step \in {"persisted", "configured"} =>
          /\ "tokens" \in logins'[grants'[g].flow].stored
          /\ grants'[g].step = "configured" => Complete(grants[g].flow)'
  BY <1>1, <1>4 DEF StoredInv, NoNewCommit, SameStored, Complete
<1>6. \A f \in added' : f \in Flows /\ Complete(f)
  BY <1>1, <1>2 DEF StoredInv, AddedIsStored, Complete, ReadsToldSo
<1>7. AddedIsStored'
  BY <1>3, <1>6 DEF AddedIsStored, Complete
<1>8. \A g \in Grants : grants'[g].step = "configured" => Complete(grants[g].flow)'
  BY <1>5
<1> QED
  BY <1>4, <1>5, <1>7, <1>8 DEF StoredInv, Complete

(* One login is edited and keeps what it stored. *)
LEMMA LoginEdited ==
    ASSUME LoginTypeOK, NEW f \in Flows, NEW l, logins' = [logins EXCEPT ![f] = l],
           l.stored = logins[f].stored, l.status = "done" => logins[f].status = "done"
    PROVE  SameStored /\ NoNewDone
BY DEF LoginTypeOK, SameStored, NoNewDone

(* The steps of the login POST and of the cancel handler store nothing. *)
LEMMA PostsStoreNothing ==
    ASSUME LoginTypeOK,
           \/ \E f \in Flows : LoginRefuse(f) \/ LoginSave(f) \/ LoginClaim(f) \/ LoginRegister(f)
           \/ \E x \in cancels : CancelOwner(x) \/ CancelFile(x) \/ CancelFlow(x)
    PROVE  SameStored /\ NoNewDone /\ UNCHANGED <<grants, reads, added>>
<1>0. /\ \A f \in Flows : logins[f] \in Logins
      /\ logins \in [Flows -> Logins] /\ \A x \in cancels : x.flow \in Flows
  BY DEF LoginTypeOK, CancelHandlers
<1>1. ASSUME NEW f \in Flows, LoginRefuse(f) \/ LoginSave(f) PROVE SameStored /\ NoNewDone
  BY <1>0, <1>1 DEF LoginRefuse, LoginSave, Logins, SameStored, NoNewDone
<1>2. ASSUME NEW f \in Flows, LoginClaim(f) PROVE SameStored /\ NoNewDone
  <2> DEFINE l == [logins[f] EXCEPT !.pc = "claimed", !.gen = OwnerClaimed.gen]
  <2>1. l.stored = logins[f].stored /\ l.status = logins[f].status
    BY <1>0 DEF Logins
  <2>2. logins' = [logins EXCEPT ![f] = l]
    BY <1>2 DEF LoginClaim
  <2> HIDE DEF l
  <2> QED
    BY <2>1, <2>2, LoginEdited
<1>3. ASSUME NEW f \in Flows, LoginRegister(f) PROVE SameStored /\ NoNewDone
  <2>1. ASSUME NEW h \in Flows
        PROVE  /\ logins'[h].stored = logins[h].stored
               /\ logins'[h].status = "done" => logins[h].status = "done"
    <3>1. \/ logins'[h] = logins[h]
          \/ logins'[h] = [logins[h] EXCEPT !.pc = "answered", !.status = "pending"]
          \/ logins'[h] = [logins[h] EXCEPT !.status = "expired"]
      BY <1>3 DEF LoginRegister
    <3> QED
      BY <1>0, <3>1 DEF Logins
  <2> QED
    BY <2>1 DEF SameStored, NoNewDone
<1>4. ASSUME NEW x \in cancels, CancelOwner(x) \/ CancelFile(x) PROVE SameStored /\ NoNewDone
  BY <1>4 DEF CancelOwner, CancelFile, SameStored, NoNewDone
<1>5. ASSUME NEW x \in cancels, CancelFlow(x) PROVE SameStored /\ NoNewDone
  <2>1. CASE logins' = logins
    BY <2>1 DEF SameStored, NoNewDone
  <2> DEFINE l == [logins[x.flow] EXCEPT !.status = "expired", !.cancelled = TRUE]
  <2>2. l.stored = logins[x.flow].stored /\ l.status = "expired"
    BY <1>0 DEF Logins
  <2> HIDE DEF l
  <2>3. CASE logins' = [logins EXCEPT ![x.flow] = l]
    BY <1>0, <2>2, <2>3, LoginEdited
  <2> QED
    BY <1>5, <2>1, <2>3 DEF CancelFlow, l
<1> QED
  BY <1>1, <1>2, <1>3, <1>4, <1>5
  DEF LoginRefuse, LoginSave, LoginClaim, LoginRegister, CancelOwner, CancelFile, CancelFlow, proxyVars

(* The steps of the dialog store nothing; a read answers what the status is, and only a    *)
(* read of a done login is reported.                                                       *)
LEMMA DialogStoresNothing ==
    ASSUME LoginTypeOK, DialogNext
    PROVE  SameStored /\ NoNewDone /\ NoNewCommit /\ ReadsToldSo
<1>0. /\ \A f \in Flows : logins[f] \in Logins
      /\ logins \in [Flows -> Logins] /\ reads \subseteq StatusReads /\ dialog \in Dialogs
      /\ grants \in [Grants -> GrantHandlers]
  BY DEF LoginTypeOK
<1>1. \A r \in reads : r.flow \in Flows
  BY <1>0 DEF StatusReads
<1>2. ASSUME NEW d, NEW id, NEW b, requestLogin(d, id, b),
             UNCHANGED <<proxyVars, cancels, reads, added, faults, restarts>>
      PROVE  SameStored /\ NoNewDone /\ NoNewCommit /\ ReadsToldSo
  <2>1. PICK f \in Flows :
            logins' = [logins EXCEPT ![f] = [@ EXCEPT !.pc = "sent", !.id = id, !.reauth = b]]
    BY <1>2 DEF requestLogin
  <2> DEFINE l == [logins[f] EXCEPT !.pc = "sent", !.id = id, !.reauth = b]
  <2>2. l.stored = logins[f].stored /\ l.status = logins[f].status
    BY <1>0 DEF Logins
  <2>3. logins' = [logins EXCEPT ![f] = l]
    BY <2>1
  <2> HIDE DEF l
  <2>4. SameStored /\ NoNewDone
    BY <2>2, <2>3, LoginEdited
  <2> QED
    BY <1>1, <1>2, <2>4 DEF NoNewCommit, ReadsToldSo, proxyVars
<1>3. CASE \E id \in LoginIds : OpenToReauth(id) \/ startOAuth(id)
  BY <1>2, <1>3 DEF OpenToReauth, startOAuth
<1>4. CASE watchFlow
  <2>1. dialog.post \in Flows
    BY <1>0, <1>4, Numbered DEF watchFlow, Dialogs
  <2>2. SameStored /\ NoNewDone
    BY <1>0, <1>4, <2>1 DEF watchFlow, Logins, SameStored, NoNewDone
  <2> QED
    BY <1>1, <1>4, <2>2 DEF watchFlow, NoNewCommit, ReadsToldSo, proxyVars
<1>5. ASSUME UNCHANGED <<logins, grants>> PROVE SameStored /\ NoNewDone /\ NoNewCommit
  BY <1>5 DEF SameStored, NoNewDone, NoNewCommit
<1>6. CASE OpenToAdd \/ LoginRefused \/ onLoginWindowClosed \/ closeModal
  BY <1>1, <1>5, <1>6
  DEF OpenToAdd, LoginRefused, onLoginWindowClosed, closeModal, abortReads, ReadsToldSo, proxyVars
<1>7. CASE PollTick
  <2>1. [flow |-> dialog.watching, answer |-> "none"].answer # "done"
    OBVIOUS
  <2> QED
    BY <1>1, <1>5, <1>7, <2>1 DEF PollTick, ReadsToldSo, proxyVars
<1>8. ASSUME NEW r \in reads, ServeStatus(r) PROVE SameStored /\ NoNewDone /\ NoNewCommit /\ ReadsToldSo
  <2> DEFINE a == IF logins[r.flow].status = "unknown" THEN "expired" ELSE logins[r.flow].status
             q == [r EXCEPT !.answer = a]
  <2>1. q.flow = r.flow /\ q.answer = a
    BY <1>0 DEF StatusReads
  <2>2. a = "done" => logins[r.flow].status = "done"
    OBVIOUS
  <2>3. reads' = (reads \ {r}) \union {q} /\ added' = added
    BY <1>8 DEF ServeStatus
  <2> HIDE DEF q, a
  <2>4. ReadsToldSo
    BY <1>1, <2>1, <2>2, <2>3 DEF ReadsToldSo
  <2> QED
    BY <1>5, <1>8, <2>4 DEF ServeStatus, proxyVars
<1>9. ASSUME NEW r \in reads, StatusRead(r) PROVE SameStored /\ NoNewDone /\ NoNewCommit /\ ReadsToldSo
  <2>1. reads' \subseteq reads /\ (added' # added => r.answer = "done" /\ added' = added \union {r.flow})
    <3>1. CASE r.answer = "pending"
      BY <1>9, <3>1 DEF StatusRead
    <3>2. CASE r.answer = "done"
      BY <1>9, <3>2 DEF StatusRead, abortReads
    <3>3. CASE r.answer \notin {"pending", "done"}
      BY <1>9, <3>3 DEF StatusRead, abortReads
    <3> QED
      BY <3>1, <3>2, <3>3
  <2>2. ReadsToldSo
    BY <1>1, <2>1 DEF ReadsToldSo
  <2> QED
    BY <1>5, <1>9, <2>2 DEF StatusRead, proxyVars
<1>10. ASSUME NEW r \in reads, StatusLost(r) PROVE SameStored /\ NoNewDone /\ NoNewCommit /\ ReadsToldSo
  BY <1>1, <1>5, <1>10 DEF StatusLost, ReadsToldSo, proxyVars
<1>11. ASSUME NEW who \in Identities, submitManualCode(who)
       PROVE  SameStored /\ NoNewDone /\ NoNewCommit /\ ReadsToldSo
  <2> DEFINE f == dialog.flow
             n == dialog.session
             r == [NoGrant EXCEPT !.step = "sent", !.flow = f, !.who = who, !.session = n]
  <2>1. f \in Flows /\ n \in Nat
    BY <1>0, <1>11, Numbered DEF submitManualCode, Dialogs
  <2>2. grants' = [grants EXCEPT ![<<f, "paste">>] = r]
    BY <1>11 DEF submitManualCode
  <2> HIDE DEF f, n
  <2>3. r \in GrantHandlers /\ r.step = "sent" /\ r.flow = f
    BY <2>1, NewPaste
  <2> HIDE DEF r
  <2>4. NoNewCommit
    BY <1>0, <2>2, <2>3 DEF NoNewCommit
  <2> QED
    BY <1>1, <1>11, <2>4 DEF submitManualCode, SameStored, NoNewDone, ReadsToldSo
<1> QED
  BY <1>3, <1>4, <1>6, <1>7, <1>8, <1>9, <1>10, <1>11 DEF DialogNext

(* A grant that moves on by Reached to a step that is no commit. *)
LEMMA ReachedCommitsNothing ==
    ASSUME LoginTypeOK, NEW g \in Grants, NEW s \in Steps, s \notin {"persisted", "configured"},
           grants' = Reached(g, s)
    PROVE  NoNewCommit
BY ReachedType DEF NoNewCommit

(* A grant that gives up stores nothing. *)
LEMMA FailureStoresNothing ==
    ASSUME LoginInv, NEW g \in Grants, grants[g].step \in Running, CommitFails(g)
    PROVE  SameStored /\ NoNewDone /\ NoNewCommit
<1>1. LoginTypeOK /\ grants[g].flow \in Flows /\ logins[grants[g].flow] \in Logins /\ "failed" \in Steps
  BY DEF LoginInv, LoginTypeOK, Core, Answered, Steps
<1>2. NoNewCommit
  BY <1>1, ReachedCommitsNothing DEF CommitFails
<1> DEFINE l == [logins[grants[g].flow] EXCEPT !.status = "error"]
<1>3. l.stored = logins[grants[g].flow].stored /\ l.status = "error"
  BY <1>1 DEF Logins
<1>4. CASE logins' = logins
  BY <1>2, <1>4 DEF SameStored, NoNewDone
<1>5. CASE logins' = [logins EXCEPT ![grants[g].flow] = l]
  BY <1>1, <1>2, <1>3, <1>5, LoginEdited
<1> QED
  BY <1>4, <1>5 DEF CommitFails, setCodexLoginError

(* A grant's step that is not one of the two writes, nor the one that reports done. *)
LEMMA GrantStoresNothing ==
    ASSUME LoginInv,
           \/ \E f \in Flows, who \in Identities : BrowserRedirect(f, who)
           \/ \E g \in Grants : CodeAnswered(g) \/ CodeRefused(g) \/ LoadPending(g) \/ Exchange(g)
                                \/ CommitCheck(g) \/ CommitGate(g) \/ CommitRelease(g)
    PROVE  SameStored /\ NoNewDone /\ NoNewCommit /\ UNCHANGED <<reads, added>>
<1>0. /\ LoginTypeOK /\ grants \in [Grants -> GrantHandlers]
      /\ \A s \in {"failed", "loaded", "exchanged", "checked", "gated", "finished", "over"} : s \in Steps
  BY DEF LoginInv, LoginTypeOK, Steps
<1>1. ASSUME UNCHANGED logins PROVE SameStored /\ NoNewDone
  BY <1>1 DEF SameStored, NoNewDone
<1>2. ASSUME NEW f \in Flows, NEW who \in Identities, BrowserRedirect(f, who)
      PROVE  SameStored /\ NoNewDone /\ NoNewCommit
  <2> DEFINE r == [NoGrant EXCEPT !.step = "sent", !.flow = listener, !.who = who]
  <2>1. listener \in Flows
    BY <1>0, <1>2, Numbered DEF BrowserRedirect, LoginTypeOK
  <2>2. r \in GrantHandlers /\ r.step = "sent" /\ r.flow = listener
    BY <2>1, NewCallback
  <2>3. grants' = [grants EXCEPT ![<<f, "browser">>] = r]
    BY <1>2 DEF BrowserRedirect
  <2> HIDE DEF r
  <2>4. NoNewCommit
    BY <1>0, <2>2, <2>3 DEF NoNewCommit
  <2> QED
    BY <1>1, <1>2, <2>4 DEF BrowserRedirect
<1>3. ASSUME NEW g \in Grants, CodeAnswered(g) PROVE SameStored /\ NoNewDone /\ NoNewCommit
  <2>1. NoNewCommit
    BY <1>0, <1>3, SteppedType DEF CodeAnswered, NoNewCommit
  <2> QED
    BY <1>1, <1>3, <2>1 DEF CodeAnswered
<1>4. ASSUME NEW g \in Grants, CodeRefused(g) PROVE SameStored /\ NoNewDone /\ NoNewCommit
  BY <1>0, <1>1, <1>4, ReachedCommitsNothing DEF CodeRefused
<1>5. ASSUME NEW g \in Grants, LoadPending(g) PROVE SameStored /\ NoNewDone /\ NoNewCommit
  <2>1. CASE CommitFails(g)
    BY <1>5, <2>1, FailureStoresNothing DEF LoadPending, Running
  <2>2. CASE grants' = Reached(g, "loaded") /\ UNCHANGED logins
    BY <1>0, <1>1, <2>2, ReachedCommitsNothing
  <2> QED
    BY <1>5, <2>1, <2>2 DEF LoadPending, CommitFails
<1>6. ASSUME NEW g \in Grants, Exchange(g) PROVE SameStored /\ NoNewDone /\ NoNewCommit
  <2>1. CASE CommitFails(g)
    BY <1>6, <2>1, FailureStoresNothing DEF Exchange, Running
  <2> DEFINE r == [grants[g] EXCEPT !.step = "exchanged", !.spent = TRUE]
  <2>2. r.step = "exchanged"
    BY <1>0 DEF GrantHandlers
  <2> HIDE DEF r
  <2>3. CASE grants' = [grants EXCEPT ![g] = r] /\ UNCHANGED logins
    BY <1>0, <1>1, <2>2, <2>3 DEF NoNewCommit
  <2> QED
    BY <1>6, <2>1, <2>3 DEF Exchange, CommitFails, r
<1>7. ASSUME NEW g \in Grants, CommitCheck(g) PROVE SameStored /\ NoNewDone /\ NoNewCommit
  <2>1. CASE CommitFails(g)
    BY <1>7, <2>1, FailureStoresNothing DEF CommitCheck, Running
  <2> DEFINE r == [grants[g] EXCEPT !.step = "checked", !.seen = poolRows]
  <2>2. r.step = "checked"
    BY <1>0 DEF GrantHandlers
  <2> HIDE DEF r
  <2>3. CASE grants' = [grants EXCEPT ![g] = r] /\ UNCHANGED logins
    BY <1>0, <1>1, <2>2, <2>3 DEF NoNewCommit
  <2> QED
    BY <1>7, <2>1, <2>3 DEF CommitCheck, CommitFails, r
<1>8. ASSUME NEW g \in Grants, CommitGate(g) PROVE SameStored /\ NoNewDone /\ NoNewCommit
  <2>1. CASE CommitFails(g)
    BY <1>8, <2>1, FailureStoresNothing DEF CommitGate, Running
  <2>2. CASE grants' = [grants EXCEPT ![g].step = "gated"] /\ UNCHANGED logins
    BY <1>0, <1>1, <2>2, SteppedType DEF NoNewCommit
  <2> QED
    BY <1>8, <2>1, <2>2 DEF CommitGate
<1>9. ASSUME NEW g \in Grants, CommitRelease(g) PROVE SameStored /\ NoNewDone /\ NoNewCommit
  BY <1>0, <1>1, <1>9, ReachedCommitsNothing DEF CommitRelease
<1>10. UNCHANGED <<reads, added>>
  BY DEF BrowserRedirect, CodeAnswered, CodeRefused, LoadPending, Exchange, CommitCheck, CommitGate,
         CommitRelease
<1> QED
  BY <1>2, <1>3, <1>4, <1>5, <1>6, <1>7, <1>8, <1>9, <1>10

(* A write goes through: what it is about is stored, and nothing is finished. *)
LEMMA WriteStores ==
    ASSUME LoginInv, LoginInv', StoredInv, NEW g \in Grants, NEW t \in {"tokens", "row"},
           NEW s \in {"persisted", "configured"}, grants[g].step \in Running,
           logins' = [logins EXCEPT ![grants[g].flow].stored = @ \union {t}],
           OthersSame(g), grants'[g].step = s, grants'[g].flow = grants[g].flow,
           s = "persisted" => t = "tokens",
           s = "configured" => t = "row" /\ grants[g].step = "persisted",
           UNCHANGED <<reads, added>>
    PROVE  StoredInv'
<1>1. /\ \A h \in Grants : grants[h].step \in {"persisted", "configured"} => grants[h].flow \in Flows
      /\ reads \subseteq StatusReads /\ added \subseteq Flows /\ grants[g].flow \in Flows
      /\ logins \in [Flows -> Logins]
  BY DEF LoginInv, LoginTypeOK, Core, Answered, Running
<1>2. \A r \in reads : r.flow \in Flows
  BY <1>1 DEF StatusReads
<1> DEFINE l == [logins[grants[g].flow] EXCEPT !.stored = @ \union {t}]
<1>3. /\ l.stored = logins[grants[g].flow].stored \union {t} /\ l.status = logins[grants[g].flow].status
      /\ logins' = [logins EXCEPT ![grants[g].flow] = l]
      /\ logins[grants[g].flow].stored \subseteq {"tokens", "row"}
  BY <1>1 DEF Logins
<1> HIDE DEF l
<1>4. /\ logins'[grants[g].flow].stored = logins[grants[g].flow].stored \union {t}
      /\ \A f \in Flows : /\ logins'[f].status = logins[f].status
                          /\ f # grants[g].flow => logins'[f].stored = logins[f].stored
  BY <1>1, <1>3
<1>5. \A f \in Flows : /\ Complete(f) => Complete(f)'
                       /\ "tokens" \in logins[f].stored => "tokens" \in logins'[f].stored
  BY <1>1, <1>3, <1>4 DEF Complete
<1>6. /\ "tokens" \in logins'[grants'[g].flow].stored
      /\ s = "configured" => Complete(grants[g].flow)'
  BY <1>3, <1>4 DEF Complete, StoredInv
<1>7. \A h \in Grants : h # g => /\ grants'[h].step = grants[h].step
                                 /\ grants'[h].flow = grants[h].flow
  BY DEF OthersSame
<1>8. \A h \in Grants : grants'[h].step = "configured" => Complete(grants[h].flow)'
  BY <1>1, <1>5, <1>6, <1>7 DEF StoredInv, Complete
<1>9. \A h \in Grants : grants'[h].step \in {"persisted", "configured"} =>
          "tokens" \in logins'[grants'[h].flow].stored
  BY <1>1, <1>5, <1>6, <1>7 DEF StoredInv
<1>10. AddedIsStored'
  BY <1>1, <1>5 DEF StoredInv, AddedIsStored, Complete
<1>11. /\ \A f \in Flows : logins'[f].status = "done" => Complete(f)'
       /\ \A r \in reads' : r.answer = "done" => Complete(r.flow)'
  BY <1>2, <1>4, <1>5 DEF StoredInv
<1> QED
  BY <1>8, <1>9, <1>10, <1>11 DEF StoredInv

(* A step of the proxy that leaves the reads alone and stores nothing. *)
LEMMA QuietStep ==
    ASSUME LoginInv, LoginInv', StoredInv, SameStored, NoNewDone, NoNewCommit, UNCHANGED <<reads, added>>
    PROVE  StoredInv'
<1>1. reads \subseteq StatusReads
  BY DEF LoginInv, LoginTypeOK
<1>2. ReadsToldSo
  BY <1>1 DEF ReadsToldSo, StatusReads
<1> QED
  BY <1>2, NothingStored

(* The tokens are written, or the write fails. *)
LEMMA CommitPersistStores ==
    ASSUME LoginInv, LoginInv', StoredInv, NEW g \in Grants, CommitPersist(g) PROVE StoredInv'
<1>1. LoginTypeOK /\ grants[g].step \in Running /\ "persisted" \in Steps /\ UNCHANGED <<reads, added>>
  BY DEF LoginInv, CommitPersist, Running, Steps
<1>2. CASE CommitFails(g)
  BY <1>1, <1>2, FailureStoresNothing, QuietStep
<1>3. CASE /\ logins' = [logins EXCEPT ![grants[g].flow].stored = @ \union {"tokens"}]
           /\ grants' = [grants EXCEPT ![g].step = "persisted"]
  <2>1. OthersSame(g) /\ grants'[g].step = "persisted" /\ grants'[g].flow = grants[g].flow
    BY <1>1, <1>3, SteppedType DEF OthersSame
  <2> QED
    BY <1>1, <1>3, <2>1, WriteStores
<1> QED
  BY <1>2, <1>3 DEF CommitPersist

(* The row is written, or the transaction fails. *)
LEMMA CommitConfigStores ==
    ASSUME LoginInv, LoginInv', StoredInv, NEW g \in Grants, CommitConfig(g) PROVE StoredInv'
<1>1. LoginTypeOK /\ grants[g].step \in Running /\ "configured" \in Steps /\ UNCHANGED <<reads, added>>
  BY DEF LoginInv, CommitConfig, Running, Steps
<1>2. CASE CommitFails(g)
  BY <1>1, <1>2, FailureStoresNothing, QuietStep
<1>3. CASE /\ logins' = [logins EXCEPT ![grants[g].flow].stored = @ \union {"row"}]
           /\ grants' = Reached(g, "configured")
  <2>1. OthersSame(g) /\ grants'[g].step = "configured" /\ grants'[g].flow = grants[g].flow
    BY <1>1, <1>3, ReachedType DEF OthersSame
  <2> QED
    BY <1>1, <1>3, <2>1, WriteStores DEF CommitConfig
<1> QED
  BY <1>2, <1>3 DEF CommitConfig

(* Done is reported of a login that wrote both. *)
LEMMA CommitFinishStores ==
    ASSUME LoginInv, LoginInv', StoredInv, NEW g \in Grants, CommitFinish(g) PROVE StoredInv'
<1>1. /\ LoginTypeOK /\ grants[g].step \in Running /\ "done" \in Steps /\ UNCHANGED <<reads, added>>
      /\ grants[g].step = "configured"
  BY DEF LoginInv, CommitFinish, Running, Steps
<1>2. CASE CommitFails(g)
  BY <1>1, <1>2, FailureStoresNothing, QuietStep
<1>3. CASE /\ logins' = [logins EXCEPT ![grants[g].flow].status = "done"]
           /\ grants' = Reached(g, "done")
  <2>1. /\ \A h \in Grants : grants[h].step \in {"persisted", "configured"} => grants[h].flow \in Flows
        /\ reads \subseteq StatusReads /\ added \subseteq Flows /\ grants[g].flow \in Flows
        /\ logins \in [Flows -> Logins]
    BY <1>1 DEF LoginInv, LoginTypeOK, Core, Answered, Running
  <2>2. NoNewCommit
    BY <1>1, <1>3, ReachedCommitsNothing
  <2> DEFINE l == [logins[grants[g].flow] EXCEPT !.status = "done"]
  <2>3. l.stored = logins[grants[g].flow].stored /\ logins' = [logins EXCEPT ![grants[g].flow] = l]
    BY <1>3, <2>1 DEF Logins
  <2> HIDE DEF l
  <2>4. SameStored /\ \A f \in Flows : f # grants[g].flow => logins'[f] = logins[f]
    BY <2>1, <2>3 DEF SameStored
  <2>5. \A f \in Flows : Complete(f) => Complete(f)'
    BY <2>4 DEF SameStored, Complete
  <2>6. \A f \in Flows : logins'[f].status = "done" => Complete(f)'
    BY <1>1, <2>4, <2>5 DEF StoredInv
  <2>7. \A h \in Grants : grants'[h].step = "configured" => Complete(grants[h].flow)'
    BY <2>1, <2>2, <2>5 DEF StoredInv, NoNewCommit, Complete
  <2>8. \A h \in Grants : grants'[h].step \in {"persisted", "configured"} =>
            "tokens" \in logins'[grants'[h].flow].stored
    BY <2>1, <2>2, <2>4 DEF StoredInv, NoNewCommit, SameStored
  <2>9. (\A r \in reads' : r.answer = "done" => Complete(r.flow)') /\ AddedIsStored'
    BY <1>1, <2>1, <2>4, <2>5 DEF StoredInv, StatusReads, AddedIsStored, SameStored
  <2> QED
    BY <2>6, <2>7, <2>8, <2>9 DEF StoredInv
<1> QED
  BY <1>2, <1>3 DEF CommitFinish

(* A restart forgets what was known of the logins, and keeps what they stored. *)
LEMMA RestartStores ==
    ASSUME LoginInv, LoginInv', StoredInv, RestartProxy PROVE StoredInv'
<1>1. LoginTypeOK /\ "failed" \in Steps
  BY DEF LoginInv, Steps
<1>2. ASSUME NEW f \in Flows
      PROVE  logins'[f].stored = logins[f].stored /\ logins'[f].status # "done"
  BY <1>1 DEF RestartProxy, LoginTypeOK, Logins
<1>3. \A g \in Grants : grants'[g].step \notin {"persisted", "configured"}
  BY <1>1, ReachedType DEF RestartProxy
<1>4. SameStored /\ NoNewDone /\ NoNewCommit
  BY <1>2, <1>3 DEF SameStored, NoNewDone, NoNewCommit
<1>5. ReadsToldSo
  BY DEF RestartProxy, ReadsToldSo
<1> QED
  BY <1>4, <1>5, NothingStored

(* What the dialog reports as added has its tokens in the store and its row in the config, *)
(* whichever write, read or process failed on the way, and however many logins, grants,    *)
(* faults and restarts there are.                                                          *)
THEOREM AddedWasStored == LoginSpec => []AddedIsStored
<1>1. LoginInit => StoredInv
  BY DEF LoginInit, StoredInv, AddedIsStored, NoLogin, NoGrant
<1>2. ASSUME LoginInv, LoginInv', StoredInv, [LoginNext]_loginVars PROVE StoredInv'
  <2>1. CASE DialogNext
    BY <1>2, <2>1, DialogStoresNothing, NothingStored DEF LoginInv
  <2>2. CASE \/ \E f \in Flows : LoginRefuse(f) \/ LoginSave(f) \/ LoginClaim(f) \/ LoginRegister(f)
             \/ \E x \in cancels : CancelOwner(x) \/ CancelFile(x) \/ CancelFlow(x)
    <3>1. NoNewCommit
      BY <1>2, <2>2, PostsStoreNothing DEF LoginInv, NoNewCommit
    <3> QED
      BY <1>2, <2>2, <3>1, PostsStoreNothing, QuietStep DEF LoginInv
  <2>3. CASE \/ \E f \in Flows, who \in Identities : BrowserRedirect(f, who)
             \/ \E g \in Grants : CodeAnswered(g) \/ CodeRefused(g) \/ LoadPending(g) \/ Exchange(g)
                                  \/ CommitCheck(g) \/ CommitGate(g) \/ CommitRelease(g)
    BY <1>2, <2>3, GrantStoresNothing, QuietStep
  <2>4. CASE \E g \in Grants : CommitPersist(g) \/ CommitConfig(g) \/ CommitFinish(g)
    BY <1>2, <2>4, CommitPersistStores, CommitConfigStores, CommitFinishStores
  <2>5. CASE RestartProxy
    BY <1>2, <2>5, RestartStores
  <2>6. CASE UNCHANGED loginVars
    <3>1. SameStored /\ NoNewDone /\ NoNewCommit /\ UNCHANGED <<reads, added>>
      BY <2>6 DEF loginVars, proxyVars, SameStored, NoNewDone, NoNewCommit
    <3> QED
      BY <1>2, <3>1, QuietStep
  <2> QED
    BY <1>2, <2>1, <2>2, <2>3, <2>4, <2>5, <2>6 DEF LoginNext, ProxyNext
<1>3. StoredInv => AddedIsStored
  BY DEF StoredInv
<1> QED
  BY <1>1, <1>2, <1>3, LoginInvariant, PTL DEF LoginSpec

-----------------------------------------------------------------------------
(* The dialog watches one flow at a time, and its reads are all of that flow: haltPolling  *)
(* aborts what is open before another flow is watched.                                     *)

WatchInv ==
    /\ dialog.watching # 0 => dialog.open /\ dialog.post = 0 /\ dialog.phase = "authorizing"
    /\ dialog.post # 0 => dialog.open
    /\ \A r \in reads : r.flow = dialog.watching /\ r.answer # "unknown"

(* What the dialog's edits make of the watched flow, its POST and its phase. *)
LEMMA WatchEdits ==
    ASSUME NEW d \in Dialogs
    PROVE  /\ LET e == [attemptEnded(d) EXCEPT !.open = FALSE, !.post = 0]
              IN  e.watching = 0 /\ e.post = 0
           /\ LET e == backToChoosing(attemptEnded(d))
              IN  e.watching = 0 /\ e.post = d.post /\ e.open = d.open
           /\ \A b \in BOOLEAN : LET e == [d EXCEPT !.reading = b]
                                 IN  e.watching = d.watching /\ e.open = d.open /\ e.post = d.post /\ e.phase = d.phase
           /\ \A m : LET e == [d EXCEPT !.manual = m]
                     IN  e.watching = d.watching /\ e.open = d.open /\ e.post = d.post /\ e.phase = d.phase
           /\ \A f \in MaybeFlow :
                  /\ [d EXCEPT !.post = f].watching = d.watching /\ [d EXCEPT !.post = f].post = f
                  /\ [d EXCEPT !.post = f].open = d.open /\ [d EXCEPT !.post = f].phase = d.phase
           /\ \A f : LET e == [d EXCEPT !.phase = "authorizing", !.flow = f, !.watching = f,
                                        !.reading = FALSE, !.post = 0]
                     IN  e.watching = f /\ e.open = d.open /\ e.post = 0 /\ e.phase = "authorizing"
<1>1. LET e == [attemptEnded(d) EXCEPT !.open = FALSE, !.post = 0] IN e.watching = 0 /\ e.post = 0
  BY DEF attemptEnded, Dialogs
<1>2. LET e == backToChoosing(attemptEnded(d))
      IN  e.watching = 0 /\ e.post = d.post /\ e.open = d.open
  BY DEF attemptEnded, backToChoosing, Dialogs
<1> QED
  BY <1>1, <1>2 DEF Dialogs

(* The watched flow stays, and the reads are of it. *)
LEMMA WatchKept ==
    ASSUME WatchInv, dialog' = dialog \/ /\ dialog'.watching = dialog.watching
                                         /\ dialog'.open = dialog.open
                                         /\ dialog'.post = dialog.post /\ dialog'.phase = dialog.phase,
           \A r \in reads' : r.flow = dialog.watching /\ r.answer # "unknown"
    PROVE  WatchInv' /\ dialog'.watching = dialog.watching
BY DEF WatchInv

(* Nothing is watched any more. *)
LEMMA WatchOver ==
    ASSUME WatchInv, dialog'.watching = 0, reads' = {},
           dialog'.post # 0 => dialog'.post = dialog.post /\ dialog'.open = dialog.open
    PROVE  WatchInv'
BY DEF WatchInv

(* An answer ends the watch of the flow it is about, or leaves it. *)
LEMMA AnswersEndTheirWatch ==
    ASSUME LoginTypeOK, WatchInv, NEW r \in reads, StatusRead(r)
    PROVE  /\ WatchInv'
           /\ \/ dialog'.watching = dialog.watching
              \/ r.flow = dialog.watching /\ r.answer \in {"done", "error", "expired"}
<1>1. dialog \in Dialogs /\ r \in StatusReads /\ r.flow = dialog.watching
  BY DEF LoginTypeOK, WatchInv
<1>2. CASE r.answer = "pending"
  <2>1. dialog' = [dialog EXCEPT !.reading = FALSE] /\ reads' \subseteq reads
    BY <1>2 DEF StatusRead
  <2>2. /\ dialog'.watching = dialog.watching /\ dialog'.open = dialog.open
        /\ dialog'.post = dialog.post /\ dialog'.phase = dialog.phase
    BY <1>1, <2>1, WatchEdits
  <2> QED
    BY <2>1, <2>2, WatchKept DEF WatchInv
<1>3. CASE r.answer # "pending"
  <2>1. /\ reads' = {} /\ dialog'.watching = 0
        /\ dialog'.post # 0 => dialog'.post = dialog.post /\ dialog'.open = dialog.open
    BY <1>1, <1>3, WatchEdits DEF StatusRead, abortReads
  <2>2. r.answer \in {"done", "error", "expired"}
    BY <1>1, <1>3 DEF StatusRead, StatusReads, Statuses, WatchInv
  <2> QED
    BY <1>1, <2>1, <2>2, WatchOver
<1> QED
  BY <1>2, <1>3

(* The dialog opens, or is closed, over no watched flow. *)
LEMMA OpeningWatchesNothing ==
    ASSUME LoginTypeOK, WatchInv,
           \/ OpenToAdd \/ closeModal \/ onLoginWindowClosed
           \/ \E id \in LoginIds : OpenToReauth(id) \/ startOAuth(id)
    PROVE  WatchInv' /\ dialog'.watching = 0
<1>1. /\ dialog \in Dialogs /\ dialog.watching \in MaybeFlow /\ 0 \notin Flows
      /\ \A f \in Flows : f \in MaybeFlow
  BY LoginAssumption DEF LoginTypeOK, Dialogs, MaybeFlow, Flows
<1>2. dialog.watching = 0 => reads = {}
  <2>1. \A r \in reads : r.flow \in Flows
    BY DEF LoginTypeOK, StatusReads
  <2> QED
    BY <1>1, <2>1 DEF WatchInv
<1>3. CASE OpenToAdd
  BY <1>1, <1>2, <1>3 DEF OpenToAdd, WatchInv, createLoginAttempt
<1>4. CASE closeModal
  BY <1>1, <1>4, WatchEdits, WatchOver DEF closeModal, abortReads
<1>5. CASE onLoginWindowClosed
  BY <1>1, <1>5, WatchEdits, WatchOver DEF onLoginWindowClosed, abortReads
<1>6. ASSUME NEW id \in LoginIds, OpenToReauth(id) PROVE WatchInv' /\ dialog'.watching = 0
  <2> DEFINE d == createLoginAttempt(dialog.session + 1, id)
  <2>1. dialog.session + 1 \in Nat /\ id \in MaybeId
    BY <1>1 DEF Dialogs, MaybeId
  <2>2. d \in Dialogs /\ d.flow = 0 /\ d.watching = 0
    BY <2>1, NewDialog
  <2>3. \E f \in Flows : dialog' = [d EXCEPT !.post = f]
    BY <1>6 DEF OpenToReauth, requestLogin
  <2> HIDE DEF d
  <2>4. dialog'.watching = 0 /\ dialog'.open
    BY <1>1, <2>2, <2>3, WatchEdits DEF d, createLoginAttempt
  <2> QED
    BY <1>2, <1>6, <2>4 DEF OpenToReauth, WatchInv
<1>7. ASSUME NEW id \in LoginIds, startOAuth(id) PROVE WatchInv' /\ dialog'.watching = 0
  <2>1. dialog.watching = 0
    BY <1>7 DEF startOAuth, WatchInv
  <2>2. \E f \in Flows : dialog' = [dialog EXCEPT !.post = f]
    BY <1>7 DEF startOAuth, requestLogin
  <2>3. dialog'.watching = 0 /\ dialog'.open
    BY <1>1, <1>7, <2>1, <2>2, WatchEdits DEF startOAuth
  <2> QED
    BY <1>2, <1>7, <2>1, <2>3 DEF startOAuth, WatchInv
<1> QED
  BY <1>3, <1>4, <1>5, <1>6, <1>7

(* The dialog gives its flow up with a word to the proxy. *)
LEMMA GivenUpIsSaid ==
    ASSUME LoginInv, NEW f \in Flows, dialog.watching = f, closeModal \/ onLoginWindowClosed
    PROVE  [flow |-> f, step |-> "sent"] \in cancels'
<1>1. dialog.flow = f /\ dialog.flow # 0
  BY Positive DEF LoginInv, Core, Shown
<1> QED
  BY <1>1 DEF closeModal, onLoginWindowClosed, abandonFlow

(* Every other step leaves the watched flow and what its reads say. *)
LEMMA OthersKeepTheWatch ==
    ASSUME LoginInv, WatchInv,
           \/ watchFlow \/ LoginRefused \/ PollTick
           \/ \E r \in reads : ServeStatus(r) \/ StatusLost(r)
           \/ \E who \in Identities : submitManualCode(who)
           \/ ProxyNext \/ UNCHANGED loginVars
    PROVE  WatchInv' /\ (dialog'.watching = dialog.watching \/ dialog.watching = 0)
<1>1. /\ dialog \in Dialogs /\ dialog.watching \in MaybeFlow /\ reads \subseteq StatusReads
      /\ \A f \in Flows : f \in MaybeFlow /\ f # 0
      /\ LoginTypeOK /\ 0 \in MaybeFlow
  BY LoginAssumption DEF LoginInv, LoginTypeOK, Dialogs, MaybeFlow, Flows
<1>2. dialog.watching = 0 => reads = {}
  BY <1>1 DEF WatchInv, StatusReads
<1>3. CASE watchFlow
  <2>1. dialog.watching = 0 /\ reads' = {}
    BY <1>1, <1>2, <1>3 DEF watchFlow, WatchInv
  <2>2. dialog'.open /\ dialog'.post = 0 /\ dialog'.phase = "authorizing"
    <3>1. dialog' = [dialog EXCEPT !.phase = "authorizing", !.flow = dialog.post, !.watching = dialog.post,
                                   !.reading = FALSE, !.post = 0]
      BY <1>3 DEF watchFlow
    <3> QED
      BY <1>1, <1>3, <3>1, WatchEdits DEF watchFlow, WatchInv
  <2> QED
    BY <2>1, <2>2 DEF WatchInv
<1>4. CASE LoginRefused
  <2>1. dialog.watching = 0 /\ reads' = {}
    BY <1>1, <1>2, <1>4 DEF LoginRefused, WatchInv
  <2>2. dialog'.watching = dialog.watching /\ dialog'.post = 0
    BY <1>1, <1>4, WatchEdits DEF LoginRefused
  <2> QED
    BY <2>1, <2>2 DEF WatchInv
<1>5. CASE PollTick
  <2>1. /\ dialog'.watching = dialog.watching /\ dialog'.open = dialog.open
        /\ dialog'.post = dialog.post /\ dialog'.phase = dialog.phase
    BY <1>1, <1>5, WatchEdits DEF PollTick
  <2>2. \A r \in reads' : r.flow = dialog.watching /\ r.answer # "unknown"
    BY <1>5 DEF PollTick, WatchInv
  <2> QED
    BY <2>1, <2>2, WatchKept
<1>6. ASSUME NEW r \in reads, ServeStatus(r)
      PROVE  WatchInv' /\ dialog'.watching = dialog.watching
  <2> DEFINE a == IF logins[r.flow].status = "unknown" THEN "expired" ELSE logins[r.flow].status
             q == [r EXCEPT !.answer = a]
  <2>1. q.flow = r.flow /\ q.answer = a /\ a # "unknown"
    BY <1>1 DEF StatusReads
  <2>2. reads' = (reads \ {r}) \union {q} /\ dialog' = dialog
    BY <1>6 DEF ServeStatus
  <2> HIDE DEF q, a
  <2> QED
    BY <2>1, <2>2, WatchKept DEF WatchInv
<1>7. ASSUME NEW r \in reads, StatusLost(r)
      PROVE  WatchInv' /\ dialog'.watching = dialog.watching
  <2>1. /\ dialog'.watching = dialog.watching /\ dialog'.open = dialog.open
        /\ dialog'.post = dialog.post /\ dialog'.phase = dialog.phase
    BY <1>1, <1>7, WatchEdits DEF StatusLost
  <2> QED
    BY <1>7, <2>1, WatchKept DEF StatusLost, WatchInv
<1>8. ASSUME dialog' = dialog, reads' = reads
      PROVE  WatchInv' /\ dialog'.watching = dialog.watching
  BY <1>8 DEF WatchInv
<1>9. ASSUME NEW m, dialog' = [dialog EXCEPT !.manual = m], reads' = reads
      PROVE  WatchInv' /\ dialog'.watching = dialog.watching
  <2>1. /\ dialog'.watching = dialog.watching /\ dialog'.open = dialog.open
        /\ dialog'.post = dialog.post /\ dialog'.phase = dialog.phase
    BY <1>1, <1>9, WatchEdits
  <2> QED
    BY <1>9, <2>1, WatchKept DEF WatchInv
<1>10. CASE \E who \in Identities : submitManualCode(who)
  BY <1>9, <1>10 DEF submitManualCode
<1>11. ASSUME NEW g \in Grants, CodeAnswered(g)
       PROVE  WatchInv' /\ dialog'.watching = dialog.watching
  BY <1>8, <1>9, <1>11 DEF CodeAnswered
<1>12. CASE RestartProxy
  <2>1. /\ dialog'.watching = dialog.watching /\ dialog'.open = dialog.open
        /\ dialog'.post = dialog.post /\ dialog'.phase = dialog.phase
    BY <1>1, <1>12, WatchEdits DEF RestartProxy
  <2> QED
    BY <1>12, <2>1, WatchKept DEF RestartProxy
<1>13. CASE \/ \E f \in Flows : LoginRefuse(f) \/ LoginSave(f) \/ LoginClaim(f) \/ LoginRegister(f)
            \/ \E x \in cancels : CancelOwner(x) \/ CancelFile(x) \/ CancelFlow(x)
            \/ \E f \in Flows, who \in Identities : BrowserRedirect(f, who)
            \/ UNCHANGED loginVars
  BY <1>8, <1>13
  DEF LoginRefuse, LoginSave, LoginClaim, LoginRegister, CancelOwner, CancelFile, CancelFlow,
      BrowserRedirect, loginVars
<1>14. CASE \E g \in Grants :
              \/ CodeRefused(g) \/ LoadPending(g) \/ Exchange(g) \/ CommitCheck(g)
              \/ CommitGate(g) \/ CommitPersist(g) \/ CommitConfig(g) \/ CommitFinish(g) \/ CommitRelease(g)
  BY <1>8, <1>14
  DEF CodeRefused, LoadPending, Exchange, CommitCheck, CommitGate, CommitPersist, CommitConfig,
      CommitFinish, CommitRelease
<1>15. CASE ProxyNext
  BY <1>11, <1>12, <1>13, <1>14, <1>15 DEF ProxyNext
<1> QED
  BY <1>3, <1>4, <1>5, <1>6, <1>7, <1>10, <1>13, <1>15

(* The dialog stops watching a flow only for a cause: it gave the flow up and told the     *)
(* proxy, or an answer about this very flow said that it ended, whatever reads, restarts   *)
(* and re-opened dialogs were in between.                                                  *)
THEOREM WatchEndsWithCause == LoginSpec => WatchEndsForCause
<1>1. LoginInit => WatchInv
  BY DEF LoginInit, WatchInv, createLoginAttempt
<1>2. ASSUME LoginInv, WatchInv, [LoginNext]_loginVars
      PROVE  /\ WatchInv'
             /\ \A f \in Flows : dialog.watching = f /\ dialog'.watching # f =>
                    \/ [flow |-> f, step |-> "sent"] \in cancels'
                    \/ \E r \in reads : r.flow = f /\ r.answer \in {"done", "error", "expired"}
  <2>1. LoginTypeOK
    BY <1>2 DEF LoginInv
  <2>2. CASE closeModal \/ onLoginWindowClosed
    BY <1>2, <2>1, <2>2, OpeningWatchesNothing, GivenUpIsSaid
  <2>3. CASE OpenToAdd \/ \E id \in LoginIds : OpenToReauth(id) \/ startOAuth(id)
    <3>1. dialog.watching = 0
      BY <1>2, <2>3 DEF OpenToAdd, OpenToReauth, startOAuth, WatchInv
    <3> QED
      BY <1>2, <2>1, <2>3, <3>1, Positive, OpeningWatchesNothing
  <2>4. CASE \E r \in reads : StatusRead(r)
    BY <1>2, <2>1, <2>4, AnswersEndTheirWatch
  <2>5. CASE \/ watchFlow \/ LoginRefused \/ PollTick
             \/ \E r \in reads : ServeStatus(r) \/ StatusLost(r)
             \/ \E who \in Identities : submitManualCode(who)
             \/ ProxyNext \/ UNCHANGED loginVars
    BY <1>2, <2>5, Positive, OthersKeepTheWatch
  <2> QED
    BY <1>2, <2>2, <2>3, <2>4, <2>5 DEF LoginNext, DialogNext
<1> QED
  BY <1>1, <1>2, LoginInvariant, PTL DEF LoginSpec, WatchEndsForCause
=============================================================================
