--------------------------- MODULE Release_proofs ---------------------------
(***************************************************************************)
(* Proofs about Release for any versions, maintainers, runs, outages and   *)
(* interference: only audited commits get out, and the coordinator         *)
(* implements ReleaseLedger.                                               *)
(*                                                                         *)
(* What is public is decided by a run on a snapshot it read earlier, so    *)
(* the inductive invariant says what a snapshot and a plan still mean      *)
(* later: the registry, the tags, CI and the branch only move forward, and *)
(* a plan was made from facts that cannot be taken back.                   *)
(***************************************************************************)
EXTENDS Release, TLAPS

(* The branch: its commits are numbered below "commits", and the tip is one of them. *)
BranchOK == commits \in Shas /\ origin \subseteq 1 .. commits /\ head \in origin

(* A cut that runs has a version. *)
CutOK(c) == c.pc # "idle" => c.version \in Releases

(* A dispatched run has a version and a commit of the branch, the audited one once it works. *)
PinnedOK(r, o) ==
    /\ r.version \in Releases /\ r.sha \in o /\ r.expected \in Shas
    /\ r.state \in Working => r.sha = r.expected

(* What a run read is still so. *)
SnapshotOK(r, c, n, t) ==
    /\ r.snapshot.ciPush => "push" \in c[r.sha]
    /\ r.snapshot.npmHasVersion => n[r.version] # 0
    /\ r.snapshot.npmGitHead # 0 => r.snapshot.npmGitHead = n[r.version]
    /\ r.snapshot.tagSha # 0 => r.snapshot.tagSha = t[r.version]

(* What a run relies on for the mutations it has left. *)
PlanOK(r, p, c, n, t) ==
    r.state = "planned" =>
        /\ "stage-npm" \in r.mutations => p[r.sha] = r.version /\ "push" \in c[r.sha]
        /\ "stage-npm" \notin r.mutations => n[r.version] = r.sha
        /\ ("stage-npm" \notin r.mutations /\ "create-tag" \notin r.mutations)
              => t[r.version] = r.sha

RunOK(r, p, o, c, n, t) ==
    r.state # "none" => PinnedOK(r, o) /\ SnapshotOK(r, c, n, t) /\ PlanOK(r, p, c, n, t)

ReleaseInv ==
    /\ ReleaseTypeOK /\ BranchOK
    /\ \A m \in Maintainers : CutOK(clone[m])
    /\ \A i \in RunIds : RunOK(runs[i], pkg, origin, ci, npm, tags)
    /\ OnlyAuditedGetsOut

(* Nothing a run has read is taken back, and a dispatched run keeps its identity. *)
Forward ==
    /\ \A s \in origin : s \in origin' /\ pkg'[s] = pkg[s]
    /\ \A s \in Shas : ci[s] \subseteq ci'[s]
    /\ \A v \in Releases : /\ npm[v] # 0 => npm'[v] = npm[v]
                           /\ tags[v] # 0 => tags'[v] = tags[v]
SameIds ==
    \A i \in RunIds : runs[i].state # "none" =>
        /\ runs'[i].state # "none"
        /\ runs'[i].version = runs[i].version /\ runs'[i].expected = runs[i].expected

-----------------------------------------------------------------------------
(* An empty snapshot is well typed. *)
LEMMA NoSnapshotType == NoSnapshot \in Snapshot
<1>1. 0 \in 0 .. MaxSha
  BY ReleaseAssumption
<1> QED
  BY <1>1 DEF NoSnapshot, Snapshot, ReleaseStates

(* A run that was never dispatched is well typed. *)
LEMMA NoRunType == NoRun \in Runs
<1>1. 0 \in 0 .. MaxSha
  BY ReleaseAssumption
<1> QED
  BY <1>1, NoSnapshotType DEF NoRun, Runs, RunStates

(* A run that ends keeps its identity and forgets its snapshot and its plan. *)
LEMMA EndRunType ==
    ASSUME NEW r \in Runs, NEW st \in RunStates
    PROVE  /\ EndRun(r, st) \in Runs
           /\ EndRun(r, st).state = st /\ EndRun(r, st).version = r.version
           /\ EndRun(r, st).sha = r.sha /\ EndRun(r, st).expected = r.expected
           /\ EndRun(r, st).snapshot = NoSnapshot
BY NoSnapshotType DEF EndRun, Runs

(* An idle clone is well typed. *)
LEMMA IdleCloneType ==
    ASSUME NEW s \in Shas, NEW d \in BOOLEAN
    PROVE  IdleClone(s, d) \in Clones /\ CutOK(IdleClone(s, d))
BY DEF IdleClone, Clones, CutOK

(* The initial state satisfies the invariant. *)
LEMMA InitInv == ReleaseInit => ReleaseInv
<1> SUFFICES ASSUME ReleaseInit PROVE ReleaseInv
  OBVIOUS
<1>0. 1 \in Shas /\ 0 \in 0 .. MaxSha
  BY ReleaseAssumption DEF Shas
<1>1. ReleaseTypeOK
  <2>1. clone \in [Maintainers -> Clones] /\ runs \in [RunIds -> Runs]
    BY <1>0, NoRunType, IdleCloneType DEF ReleaseInit
  <2>2. gitHead \in [Releases -> BOOLEAN] /\ pkg \in [Shas -> Releases \cup {0}]
    BY DEF ReleaseInit
  <2>3. ci \in [Shas -> SUBSET {"push", "pr"}] /\ staged \subseteq Releases \X Shas
    BY DEF ReleaseInit
  <2>4. npm \in [Releases -> 0 .. MaxSha] /\ tags \in [Releases -> 0 .. MaxSha]
    BY <1>0 DEF ReleaseInit
  <2>5. ghRelease \in [Releases -> ReleaseStates] /\ distTag \in Releases \cup {0}
    BY DEF ReleaseInit, ReleaseStates
  <2>6. commits \in Shas /\ origin \subseteq Shas /\ head \in Shas /\ outages \in Nat /\ byHand \in Nat
    BY <1>0 DEF ReleaseInit
  <2> QED
    BY <2>1, <2>2, <2>3, <2>4, <2>5, <2>6 DEF ReleaseTypeOK
<1>2. BranchOK
  BY <1>0 DEF ReleaseInit, BranchOK
<1>3. \A m \in Maintainers : CutOK(clone[m])
  BY DEF ReleaseInit, CutOK, IdleClone
<1>4. \A i \in RunIds : RunOK(runs[i], pkg, origin, ci, npm, tags)
  BY DEF ReleaseInit, RunOK, NoRun
<1>5. OnlyAuditedGetsOut
  BY DEF ReleaseInit, OnlyAuditedGetsOut
<1> QED
  BY <1>1, <1>2, <1>3, <1>4, <1>5 DEF ReleaseInv

-----------------------------------------------------------------------------
(* What holds of a run goes on to hold when the world moves forward. *)
LEMMA RunForward ==
    ASSUME ReleaseTypeOK, Forward, NEW r \in Runs, BranchOK,
           RunOK(r, pkg, origin, ci, npm, tags)
    PROVE  RunOK(r, pkg', origin', ci', npm', tags')
<1> SUFFICES ASSUME r.state # "none"
             PROVE  /\ PinnedOK(r, origin') /\ SnapshotOK(r, ci', npm', tags')
                    /\ PlanOK(r, pkg', ci', npm', tags')
  BY DEF RunOK
<1>1. PinnedOK(r, origin) /\ SnapshotOK(r, ci, npm, tags) /\ PlanOK(r, pkg, ci, npm, tags)
  BY DEF RunOK
<1>2. r.version \in Releases /\ r.sha \in origin /\ r.sha \in Shas
  BY <1>1 DEF PinnedOK, ReleaseTypeOK
<1>3. r.sha \in origin' /\ pkg'[r.sha] = pkg[r.sha] /\ ci[r.sha] \subseteq ci'[r.sha]
  BY <1>2 DEF Forward
<1>4. /\ npm[r.version] # 0 => npm'[r.version] = npm[r.version]
      /\ tags[r.version] # 0 => tags'[r.version] = tags[r.version]
  BY <1>2 DEF Forward
<1>5. r.sha # 0
  BY <1>2 DEF Shas
<1>6. PinnedOK(r, origin')
  BY <1>1, <1>3 DEF PinnedOK
<1>7. SnapshotOK(r, ci', npm', tags')
  BY <1>1, <1>3, <1>4 DEF SnapshotOK
<1>8. PlanOK(r, pkg', ci', npm', tags')
  BY <1>1, <1>3, <1>4, <1>5 DEF PlanOK
<1> QED
  BY <1>6, <1>7, <1>8

(* A commit once audited stays audited. *)
LEMMA AuditedForward ==
    ASSUME ReleaseTypeOK, Forward, SameIds, NEW v, NEW s, Audited(v, s)
    PROVE  Audited(v, s)'
<1>1. s \in origin /\ s \in Shas
  BY DEF Audited, ReleaseTypeOK
<1>2. s \in origin' /\ pkg'[s] = pkg[s] /\ ci[s] \subseteq ci'[s]
  BY <1>1 DEF Forward
<1>3. PICK i \in RunIds : runs[i].state # "none" /\ runs[i].version = v /\ runs[i].expected = s
  BY DEF Audited
<1>4. runs'[i].state # "none" /\ runs'[i].version = v /\ runs'[i].expected = s
  BY <1>3 DEF SameIds
<1> QED
  BY <1>2, <1>4 DEF Audited

(* A step keeps the invariant when it moves forward and what it adds is in order. *)
LEMMA StepInv ==
    ASSUME ReleaseInv, ReleaseTypeOK', BranchOK', Forward, SameIds,
           \A m \in Maintainers : CutOK(clone'[m]),
           \A i \in RunIds : \/ runs'[i] = runs[i]
                             \/ RunOK(runs'[i], pkg, origin, ci, npm, tags)
                             \/ RunOK(runs'[i], pkg', origin', ci', npm', tags'),
           \A p \in staged' : p \in staged \/ Audited(p[1], p[2]),
           \A v \in Releases : npm'[v] # 0 => npm'[v] = npm[v] \/ <<v, npm'[v]>> \in staged
    PROVE  ReleaseInv'
<1>1. \A i \in RunIds : RunOK(runs'[i], pkg', origin', ci', npm', tags')
  <2> SUFFICES ASSUME NEW i \in RunIds
               PROVE  RunOK(runs'[i], pkg', origin', ci', npm', tags')
    OBVIOUS
  <2>1. runs'[i] \in Runs /\ BranchOK /\ ReleaseTypeOK
    BY DEF ReleaseTypeOK, ReleaseInv
  <2>2. RunOK(runs[i], pkg, origin, ci, npm, tags)
    BY DEF ReleaseInv
  <2>3. \/ RunOK(runs'[i], pkg, origin, ci, npm, tags)
        \/ RunOK(runs'[i], pkg', origin', ci', npm', tags')
    BY <2>2
  <2> QED
    BY <2>1, <2>3, RunForward
<1>2. OnlyAuditedGetsOut'
  <2>1. \A p \in staged : Audited(p[1], p[2])
    BY DEF ReleaseInv, OnlyAuditedGetsOut
  <2>2. \A v \in Releases : npm[v] # 0 => Audited(v, npm[v])
    BY DEF ReleaseInv, OnlyAuditedGetsOut
  <2>3. ASSUME NEW p \in staged' PROVE Audited(p[1], p[2])'
    <3>1. Audited(p[1], p[2]) /\ ReleaseTypeOK
      BY <2>1, <2>3 DEF ReleaseInv
    <3> QED
      BY <3>1, AuditedForward
  <2>4. ASSUME NEW v \in Releases, npm'[v] # 0 PROVE Audited(v, npm[v])'
    <3>1. PICK s : s = npm'[v]
      OBVIOUS
    <3>2. Audited(v, s)
      <4>1. CASE s = npm[v]
        BY <2>2, <2>4, <3>1, <4>1
      <4>2. CASE <<v, s>> \in staged
        BY <2>1, <4>2
      <4> QED
        BY <2>4, <3>1, <4>1, <4>2
    <3>3. Audited(v, s)'
      BY <3>2, AuditedForward DEF ReleaseInv
    <3> QED
      BY <3>1, <3>3 DEF Audited
  <2> QED
    BY <2>3, <2>4 DEF OnlyAuditedGetsOut
<1> QED
  BY <1>1, <1>2 DEF ReleaseInv

-----------------------------------------------------------------------------
(* Runs.                                                                   *)

(* A run that ends relies on nothing any more. *)
LEMMA EndRunOK ==
    ASSUME NEW r \in Runs, r.state # "none", RunOK(r, pkg, origin, ci, npm, tags),
           NEW st \in {"failed", "ended"}
    PROVE  /\ RunOK(EndRun(r, st), pkg, origin, ci, npm, tags)
           /\ EndRun(r, st) \in Runs /\ EndRun(r, st).state # "none"
           /\ EndRun(r, st).version = r.version /\ EndRun(r, st).expected = r.expected
<1> DEFINE e == EndRun(r, st)
<1>1. /\ e \in Runs /\ e.state = st /\ e.version = r.version
      /\ e.sha = r.sha /\ e.expected = r.expected /\ e.snapshot = NoSnapshot
  BY EndRunType DEF RunStates
<1>2. PinnedOK(e, origin)
  BY <1>1 DEF PinnedOK, RunOK, Working
<1>3. SnapshotOK(e, ci, npm, tags)
  BY <1>1 DEF SnapshotOK, NoSnapshot
<1>4. PlanOK(e, pkg, ci, npm, tags)
  BY <1>1 DEF PlanOK
<1> QED
  BY <1>1, <1>2, <1>3, <1>4 DEF RunOK

(* A step of one run, which may stage a package, make a tag and make a release. *)
LEMMA RunStep ==
    ASSUME ReleaseInv, NEW i \in RunIds, NEW r \in Runs, runs' = [runs EXCEPT ![i] = r],
           runs[i].state # "none", r.state # "none",
           r.version = runs[i].version, r.expected = runs[i].expected,
           RunOK(r, pkg, origin, ci, npm, tags) \/ RunOK(r, pkg, origin, ci, npm, tags'),
           UNCHANGED <<branch, npm, gitHead, distTag, clone, byHand>>, outages' \in Nat,
           tags' \in [Releases -> 0 .. MaxSha],
           \A v \in Releases : tags[v] # 0 => tags'[v] = tags[v],
           ghRelease' \in [Releases -> ReleaseStates], staged' \subseteq Releases \X Shas,
           \A p \in staged' : p \in staged \/ Audited(p[1], p[2])
    PROVE  ReleaseInv'
<1>1. ReleaseTypeOK /\ BranchOK /\ \A m \in Maintainers : CutOK(clone[m])
  BY DEF ReleaseInv
<1>2. runs' \in [RunIds -> Runs] /\ \A j \in RunIds : runs'[j] = IF j = i THEN r ELSE runs[j]
  BY <1>1 DEF ReleaseTypeOK
<1>3. ReleaseTypeOK'
  BY <1>1, <1>2 DEF ReleaseTypeOK, branch
<1>4. BranchOK'
  BY <1>1 DEF BranchOK, branch
<1>5. Forward
  BY DEF Forward, branch
<1>6. SameIds
  BY <1>2 DEF SameIds
<1>7. \A j \in RunIds : \/ runs'[j] = runs[j]
                        \/ RunOK(runs'[j], pkg, origin, ci, npm, tags)
                        \/ RunOK(runs'[j], pkg', origin', ci', npm', tags')
  BY <1>2 DEF branch
<1>8. \A m \in Maintainers : CutOK(clone'[m])
  BY <1>1
<1>9. \A v \in Releases : npm'[v] # 0 => npm'[v] = npm[v] \/ <<v, npm'[v]>> \in staged
  OBVIOUS
<1> QED
  BY <1>3, <1>4, <1>5, <1>6, <1>7, <1>8, <1>9, StepInv

(* A step of one run that touches nothing but the run. *)
LEMMA QuietRunStep ==
    ASSUME ReleaseInv, NEW i \in RunIds, NEW r \in Runs, runs' = [runs EXCEPT ![i] = r],
           runs[i].state # "none", r.state # "none",
           r.version = runs[i].version, r.expected = runs[i].expected,
           RunOK(r, pkg, origin, ci, npm, tags),
           UNCHANGED <<branch, registry, github, clone, byHand>>, outages' \in Nat
    PROVE  ReleaseInv'
<1>1. ReleaseTypeOK
  BY DEF ReleaseInv
<1>2. /\ UNCHANGED <<branch, npm, gitHead, distTag, clone, byHand>>
      /\ staged' = staged /\ tags' = tags /\ ghRelease' = ghRelease
  BY DEF registry, github
<1> QED
  BY <1>1, <1>2, RunStep DEF ReleaseTypeOK

(* What the invariant says of one run. *)
LEMMA RunFacts ==
    ASSUME ReleaseInv, NEW i \in RunIds
    PROVE  /\ ReleaseTypeOK /\ BranchOK
           /\ runs[i] \in Runs /\ RunOK(runs[i], pkg, origin, ci, npm, tags)
           /\ runs[i].state # "none" =>
                 /\ PinnedOK(runs[i], origin) /\ SnapshotOK(runs[i], ci, npm, tags)
                 /\ PlanOK(runs[i], pkg, ci, npm, tags)
                 /\ runs[i].version \in Releases /\ runs[i].sha \in origin
                 /\ runs[i].sha \in Shas /\ runs[i].sha # 0
<1>1. ReleaseTypeOK /\ BranchOK /\ RunOK(runs[i], pkg, origin, ci, npm, tags) /\ runs[i] \in Runs
  BY DEF ReleaseInv, ReleaseTypeOK
<1>2. ASSUME runs[i].state # "none"
      PROVE  /\ PinnedOK(runs[i], origin) /\ SnapshotOK(runs[i], ci, npm, tags)
             /\ PlanOK(runs[i], pkg, ci, npm, tags)
  BY <1>1, <1>2 DEF RunOK
<1>3. ASSUME PinnedOK(runs[i], origin)
      PROVE  /\ runs[i].version \in Releases /\ runs[i].sha \in origin
             /\ runs[i].sha \in Shas /\ runs[i].sha # 0
  <2>1. runs[i].version \in Releases /\ runs[i].sha \in origin
    BY <1>3 DEF PinnedOK
  <2>2. origin \subseteq Shas /\ 0 \notin Shas
    BY <1>1, ReleaseAssumption DEF ReleaseTypeOK, Shas
  <2> QED
    BY <2>1, <2>2
<1> QED
  BY <1>1, <1>2, <1>3

(* Start keeps the invariant: the guards let only the audited commit through. *)
LEMMA StartInv ==
    ASSUME ReleaseInv, NEW i \in RunIds, Start(i) PROVE ReleaseInv'
<1> DEFINE r == runs[i]
           r2 == [r EXCEPT !.state = "reading", !.unread = Reads]
<1>1. /\ r \in Runs /\ r.state = "queued" /\ RunOK(r, pkg, origin, ci, npm, tags)
      /\ PinnedOK(r, origin) /\ SnapshotOK(r, ci, npm, tags) /\ outages \in Nat
  BY RunFacts DEF Start, ReleaseTypeOK
<1>2. CASE r.sha # r.expected
  <2>1. runs' = [runs EXCEPT ![i] = EndRun(r, "failed")]
    BY <1>2 DEF Start
  <2> QED
    BY <1>1, <2>1, EndRunOK, QuietRunStep DEF Start
<1>3. CASE r.sha = r.expected
  <2>1. runs' = [runs EXCEPT ![i] = r2]
    BY <1>3 DEF Start
  <2>2. r2 \in Runs
    BY <1>1 DEF Runs, RunStates
  <2>3. /\ r2.state = "reading" /\ r2.version = r.version /\ r2.sha = r.sha
        /\ r2.expected = r.expected /\ r2.snapshot = r.snapshot
    BY <1>1 DEF Runs
  <2>4. RunOK(r2, pkg, origin, ci, npm, tags)
    BY <1>1, <1>3, <2>3 DEF RunOK, PinnedOK, SnapshotOK, PlanOK
  <2> QED
    BY <1>1, <2>1, <2>2, <2>3, <2>4, QuietRunStep DEF Start
<1> QED
  BY <1>2, <1>3

(* VerifyRelease ends the run. *)
LEMMA VerifyReleaseInv ==
    ASSUME ReleaseInv, NEW i \in RunIds, VerifyRelease(i) PROVE ReleaseInv'
<1>1. /\ runs[i] \in Runs /\ runs[i].state = "verifying"
      /\ RunOK(runs[i], pkg, origin, ci, npm, tags) /\ outages' \in Nat
  BY RunFacts DEF VerifyRelease, ReleaseTypeOK
<1>2. PICK st \in {"failed", "ended"} : runs' = [runs EXCEPT ![i] = EndRun(runs[i], st)]
  BY DEF VerifyRelease
<1> QED
  BY <1>1, <1>2, EndRunOK, QuietRunStep DEF VerifyRelease

(* RunOutage ends the run. *)
LEMMA RunOutageInv ==
    ASSUME ReleaseInv, NEW i \in RunIds, RunOutage(i) PROVE ReleaseInv'
<1>1. /\ runs[i] \in Runs /\ runs[i].state # "none"
      /\ RunOK(runs[i], pkg, origin, ci, npm, tags) /\ outages' \in Nat
  BY RunFacts DEF RunOutage, ReleaseTypeOK, Working
<1>2. runs' = [runs EXCEPT ![i] = EndRun(runs[i], "failed")]
  BY DEF RunOutage
<1> QED
  BY <1>1, <1>2, EndRunOK, QuietRunStep DEF RunOutage

(* ReadPublic: what it adds to the snapshot is so when it is read. *)
LEMMA ReadPublicInv ==
    ASSUME ReleaseInv, NEW i \in RunIds, NEW read \in Reads, ReadPublic(i, read)
    PROVE  ReleaseInv'
<1> DEFINE r == runs[i]
           snap == Observed(r.snapshot, r.version, r.sha, read)
           r2 == [r EXCEPT !.unread = @ \ {read}, !.snapshot = snap]
<1>1. /\ r \in Runs /\ r.state = "reading" /\ RunOK(r, pkg, origin, ci, npm, tags)
      /\ PinnedOK(r, origin) /\ SnapshotOK(r, ci, npm, tags) /\ outages' \in Nat
      /\ r.version \in Releases /\ r.sha \in Shas /\ r.snapshot \in Snapshot /\ ReleaseTypeOK
  BY RunFacts DEF ReadPublic, ReleaseTypeOK, Runs
<1>2. /\ npm[r.version] \in 0 .. MaxSha /\ tags[r.version] \in 0 .. MaxSha
      /\ ghRelease[r.version] \in ReleaseStates /\ distTag \in Releases \cup {0}
  BY <1>1 DEF ReleaseTypeOK
<1>3. 0 \in 0 .. MaxSha
  BY ReleaseAssumption
<1>4. snap \in Snapshot /\ SnapshotOK(r2, ci, npm, tags)
  <2>1. CASE read = "version"
    <3>1. snap = [r.snapshot EXCEPT !.npmHasVersion = npm[r.version] # 0]
      BY <2>1 DEF Observed
    <3>2. snap \in Snapshot
      BY <1>1, <3>1 DEF Snapshot
    <3>3. SnapshotOK(r2, ci, npm, tags)
      BY <1>1, <3>1 DEF SnapshotOK, Snapshot, Runs
    <3> QED
      BY <3>2, <3>3
  <2>2. CASE read = "registry"
    <3>1. snap = [r.snapshot EXCEPT !.npmGitHead = IF gitHead[r.version] THEN npm[r.version] ELSE 0,
                                    !.distTags = distTag]
      BY <2>2 DEF Observed
    <3>2. snap \in Snapshot
      BY <1>1, <1>2, <1>3, <3>1 DEF Snapshot
    <3>3. SnapshotOK(r2, ci, npm, tags)
      BY <1>1, <3>1 DEF SnapshotOK, Snapshot, Runs
    <3> QED
      BY <3>2, <3>3
  <2>3. CASE read = "github"
    <3>1. snap = [r.snapshot EXCEPT !.tagSha = tags[r.version],
                                    !.githubRelease = ghRelease[r.version],
                                    !.ciPush = ciPushUrl(r.sha)]
      BY <2>3 DEF Observed
    <3>0. ciPushUrl(r.sha) \in BOOLEAN
      BY SMT DEF ciPushUrl
    <3>2. snap \in Snapshot
      BY <1>1, <1>2, <3>0, <3>1 DEF Snapshot
    <3>3. SnapshotOK(r2, ci, npm, tags)
      BY <1>1, <3>1 DEF SnapshotOK, Snapshot, Runs, ciPushUrl
    <3> QED
      BY <3>2, <3>3
  <2> QED
    BY <2>1, <2>2, <2>3 DEF Reads
<1>5. runs' = [runs EXCEPT ![i] = r2]
  BY DEF ReadPublic
<1>6. /\ r2 \in Runs /\ r2.state = "reading" /\ r2.version = r.version /\ r2.sha = r.sha
      /\ r2.expected = r.expected
  BY <1>1, <1>4 DEF Runs
<1>7. RunOK(r2, pkg, origin, ci, npm, tags)
  BY <1>1, <1>4, <1>6 DEF RunOK, PinnedOK, PlanOK, Working
<1> QED
  BY <1>1, <1>5, <1>6, <1>7, QuietRunStep DEF ReadPublic

(* Plan: a plan is accepted only on a snapshot that allows each of its mutations. *)
LEMMA PlanInv ==
    ASSUME ReleaseInv, NEW i \in RunIds, Plan(i) PROVE ReleaseInv'
<1> DEFINE r == runs[i]
           muts == publicMutations(r.snapshot)
           r2 == [r EXCEPT !.state = "planned", !.mutations = muts]
<1>1. /\ r \in Runs /\ r.state = "reading" /\ RunOK(r, pkg, origin, ci, npm, tags)
      /\ PinnedOK(r, origin) /\ SnapshotOK(r, ci, npm, tags) /\ outages' \in Nat
      /\ r.sha # 0 /\ r.snapshot \in Snapshot
  BY RunFacts DEF Plan, ReleaseTypeOK, Runs
<1>2. CASE \E st \in {"failed", "ended"} : runs' = [runs EXCEPT ![i] = EndRun(r, st)]
  <2>1. PICK st \in {"failed", "ended"} : runs' = [runs EXCEPT ![i] = EndRun(r, st)]
    BY <1>2
  <2>2. /\ EndRun(r, st) \in Runs /\ EndRun(r, st).state # "none"
        /\ RunOK(EndRun(r, st), pkg, origin, ci, npm, tags)
        /\ EndRun(r, st).version = r.version /\ EndRun(r, st).expected = r.expected
    BY <1>1, EndRunOK
  <2> QED
    BY <1>1, <2>1, <2>2, QuietRunStep DEF Plan
<1>3. CASE planAccepted(r) /\ runs' = [runs EXCEPT ![i] = r2]
  <2>1. muts \in SUBSET NpmMutations
    BY DEF publicMutations, NpmMutations
  <2>2. /\ r2 \in Runs /\ r2.state = "planned" /\ r2.version = r.version /\ r2.sha = r.sha
        /\ r2.expected = r.expected /\ r2.snapshot = r.snapshot /\ r2.mutations = muts
    BY <1>1, <2>1 DEF Runs, RunStates
  <2>3. pkg[r.sha] = r.version /\ "push" \in ci[r.sha]
    BY <1>1, <1>3 DEF planAccepted, assertCiEvidence, SnapshotOK
  <2>4. "stage-npm" \notin muts => npm[r.version] = r.sha
    BY <1>1, <1>3 DEF planAccepted, publicConflict, publicMutations, SnapshotOK
  <2>5. "create-tag" \notin muts => tags[r.version] = r.sha
    BY <1>1, <1>3 DEF planAccepted, publicConflict, publicMutations, SnapshotOK
  <2>6. PlanOK(r2, pkg, ci, npm, tags)
    BY <2>2, <2>3, <2>4, <2>5 DEF PlanOK
  <2>7. PinnedOK(r2, origin) /\ SnapshotOK(r2, ci, npm, tags)
    BY <1>1, <2>2 DEF PinnedOK, SnapshotOK, Working
  <2>8. RunOK(r2, pkg, origin, ci, npm, tags)
    BY <2>6, <2>7 DEF RunOK
  <2> QED
    BY <1>1, <1>3, <2>2, <2>8, QuietRunStep DEF Plan
<1>4. \/ \E st \in {"failed", "ended"} : runs' = [runs EXCEPT ![i] = EndRun(r, st)]
      \/ planAccepted(r) /\ runs' = [runs EXCEPT ![i] = r2]
  BY DEF Plan
<1> QED
  BY <1>2, <1>3, <1>4

(* Stage: what is staged is the commit the run was pinned to, with its own CI. *)
LEMMA StageInv ==
    ASSUME ReleaseInv, NEW i \in RunIds, Stage(i) PROVE ReleaseInv'
<1> DEFINE r == runs[i]
<1>1. /\ r \in Runs /\ r.state = "planned" /\ RunOK(r, pkg, origin, ci, npm, tags)
      /\ PinnedOK(r, origin) /\ PlanOK(r, pkg, ci, npm, tags) /\ ReleaseTypeOK
      /\ r.version \in Releases /\ r.sha \in Shas
  BY RunFacts DEF Stage
<1>2. Audited(r.version, r.sha)
  BY <1>1 DEF Audited, PinnedOK, PlanOK, Stage, Working
<1>3. PICK st \in {"failed", "ended"} : runs' = [runs EXCEPT ![i] = EndRun(r, st)]
  BY DEF Stage
<1>4. \A p \in staged' : p \in staged \/ p = <<r.version, r.sha>>
  BY DEF Stage
<1>5. staged' \subseteq Releases \X Shas /\ \A p \in staged' : p \in staged \/ Audited(p[1], p[2])
  BY <1>1, <1>2, <1>4 DEF ReleaseTypeOK
<1>6. /\ UNCHANGED <<branch, npm, gitHead, distTag, clone, byHand>>
      /\ outages' = outages /\ tags' = tags /\ ghRelease' = ghRelease
  BY DEF Stage, github
<1>7. /\ outages' \in Nat /\ tags' \in [Releases -> 0 .. MaxSha]
      /\ ghRelease' \in [Releases -> ReleaseStates]
  BY <1>1, <1>6 DEF ReleaseTypeOK
<1>8. \A v \in Releases : tags[v] # 0 => tags'[v] = tags[v]
  BY <1>6
<1> QED
  BY <1>1, <1>3, <1>5, <1>6, <1>7, <1>8, EndRunOK, RunStep

(* CreateTag: a run goes on only when the tag names its commit. *)
LEMMA CreateTagInv ==
    ASSUME ReleaseInv, NEW i \in RunIds, CreateTag(i) PROVE ReleaseInv'
<1> DEFINE r == runs[i]
           r2 == [r EXCEPT !.mutations = @ \ {"create-tag"}]
<1>1. /\ r \in Runs /\ r.state = "planned" /\ RunOK(r, pkg, origin, ci, npm, tags)
      /\ PinnedOK(r, origin) /\ PlanOK(r, pkg, ci, npm, tags) /\ SnapshotOK(r, ci, npm, tags)
      /\ ReleaseTypeOK /\ r.version \in Releases /\ r.sha \in Shas /\ r.sha \in 0 .. MaxSha
  BY RunFacts DEF CreateTag, Runs
<1>2. /\ tags' = [tags EXCEPT ![r.version] = IF @ = 0 THEN r.sha ELSE @]
      /\ UNCHANGED <<branch, npm, gitHead, distTag, clone, byHand>>
      /\ outages' = outages /\ ghRelease' = ghRelease /\ staged' = staged
  BY DEF CreateTag, registry
<1>3. tags' \in [Releases -> 0 .. MaxSha] /\ \A v \in Releases : tags[v] # 0 => tags'[v] = tags[v]
  BY <1>1, <1>2 DEF ReleaseTypeOK
<1>4. /\ outages' \in Nat /\ ghRelease' \in [Releases -> ReleaseStates]
      /\ staged' \subseteq Releases \X Shas
      /\ \A p \in staged' : p \in staged \/ Audited(p[1], p[2])
  BY <1>1, <1>2 DEF ReleaseTypeOK
<1>5. CASE \E st \in {"failed", "ended"} : runs' = [runs EXCEPT ![i] = EndRun(r, st)]
  <2>1. PICK st \in {"failed", "ended"} : runs' = [runs EXCEPT ![i] = EndRun(r, st)]
    BY <1>5
  <2>2. /\ EndRun(r, st) \in Runs /\ EndRun(r, st).state # "none"
        /\ RunOK(EndRun(r, st), pkg, origin, ci, npm, tags)
        /\ EndRun(r, st).version = r.version /\ EndRun(r, st).expected = r.expected
    BY <1>1, EndRunOK
  <2> QED
    BY <1>1, <1>2, <1>3, <1>4, <2>1, <2>2, RunStep
<1>6. CASE tags[r.version] \in {0, r.sha} /\ runs' = [runs EXCEPT ![i] = r2]
  <2>1. /\ r2 \in Runs /\ r2.state = "planned" /\ r2.version = r.version /\ r2.sha = r.sha
        /\ r2.expected = r.expected /\ r2.snapshot = r.snapshot
        /\ r2.mutations = r.mutations \ {"create-tag"}
    BY <1>1 DEF Runs
  <2>2. tags'[r.version] = r.sha
    BY <1>1, <1>2, <1>6 DEF ReleaseTypeOK
  <2>3. "stage-npm" \notin r.mutations /\ npm[r.version] = r.sha
    BY <1>1 DEF CreateTag, PlanOK
  <2>4. PlanOK(r2, pkg, ci, npm, tags')
    BY <2>1, <2>2, <2>3 DEF PlanOK
  <2>5. PinnedOK(r2, origin)
    BY <1>1, <2>1 DEF PinnedOK, Working
  <2>6. SnapshotOK(r2, ci, npm, tags')
    BY <1>1, <1>3, <2>1 DEF SnapshotOK
  <2>7. RunOK(r2, pkg, origin, ci, npm, tags')
    BY <2>4, <2>5, <2>6 DEF RunOK
  <2> QED
    BY <1>1, <1>2, <1>3, <1>4, <1>6, <2>1, <2>7, RunStep
<1>7. \/ \E st \in {"failed", "ended"} : runs' = [runs EXCEPT ![i] = EndRun(r, st)]
      \/ tags[r.version] \in {0, r.sha} /\ runs' = [runs EXCEPT ![i] = r2]
  BY DEF CreateTag, AfterTag
<1> QED
  BY <1>5, <1>6, <1>7

(* CreateGithubRelease keeps the invariant. *)
LEMMA CreateGithubReleaseInv ==
    ASSUME ReleaseInv, NEW i \in RunIds, CreateGithubRelease(i) PROVE ReleaseInv'
<1> DEFINE r == runs[i]
           r2 == [r EXCEPT !.state = "verifying"]
<1>1. /\ r \in Runs /\ r.state = "planned" /\ RunOK(r, pkg, origin, ci, npm, tags)
      /\ PinnedOK(r, origin) /\ SnapshotOK(r, ci, npm, tags) /\ ReleaseTypeOK
      /\ r.version \in Releases
  BY RunFacts DEF CreateGithubRelease
<1>2. /\ runs' = [runs EXCEPT ![i] = r2]
      /\ ghRelease' = [ghRelease EXCEPT ![r.version] = IF @ = "none" THEN "published" ELSE @]
      /\ UNCHANGED <<branch, npm, gitHead, distTag, clone, byHand>>
      /\ outages' = outages /\ tags' = tags /\ staged' = staged
  BY DEF CreateGithubRelease, registry
<1>3. /\ r2 \in Runs /\ r2.state = "verifying" /\ r2.version = r.version /\ r2.sha = r.sha
      /\ r2.expected = r.expected /\ r2.snapshot = r.snapshot
  BY <1>1 DEF Runs, RunStates
<1>4. RunOK(r2, pkg, origin, ci, npm, tags)
  BY <1>1, <1>3 DEF RunOK, PinnedOK, SnapshotOK, PlanOK, Working
<1>5. ghRelease' \in [Releases -> ReleaseStates]
  BY <1>1, <1>2 DEF ReleaseTypeOK, ReleaseStates
<1>6. /\ outages' \in Nat /\ tags' \in [Releases -> 0 .. MaxSha]
      /\ staged' \subseteq Releases \X Shas
      /\ \A p \in staged' : p \in staged \/ Audited(p[1], p[2])
      /\ \A v \in Releases : tags[v] # 0 => tags'[v] = tags[v]
  BY <1>1, <1>2 DEF ReleaseTypeOK
<1> QED
  BY <1>1, <1>2, <1>3, <1>4, <1>5, <1>6, RunStep

(* A run that is superseded ends; all others stay. *)
LEMMA SupersededOK ==
    ASSUME ReleaseInv
    PROVE  /\ Superseded \in [RunIds -> Runs]
           /\ \A j \in RunIds :
                 /\ Superseded[j] = runs[j] \/ RunOK(Superseded[j], pkg, origin, ci, npm, tags)
                 /\ runs[j].state # "none" =>
                       /\ Superseded[j].state # "none" /\ Superseded[j].version = runs[j].version
                       /\ Superseded[j].expected = runs[j].expected
                 /\ runs[j].state \in {"none", "failed", "ended"} => Superseded[j] = runs[j]
<1> SUFFICES ASSUME NEW j \in RunIds
             PROVE  /\ Superseded[j] \in Runs
                    /\ Superseded[j] = runs[j] \/ RunOK(Superseded[j], pkg, origin, ci, npm, tags)
                    /\ runs[j].state # "none" =>
                          /\ Superseded[j].state # "none"
                          /\ Superseded[j].version = runs[j].version
                          /\ Superseded[j].expected = runs[j].expected
                    /\ runs[j].state \in {"none", "failed", "ended"} => Superseded[j] = runs[j]
  BY DEF Superseded
<1>1. runs[j] \in Runs /\ RunOK(runs[j], pkg, origin, ci, npm, tags)
  BY RunFacts
<1>2. CASE runs[j].state = "queued"
  <2>1. Superseded[j] = EndRun(runs[j], "failed")
    BY <1>2 DEF Superseded
  <2> QED
    BY <1>1, <1>2, <2>1, EndRunOK
<1>3. CASE runs[j].state # "queued"
  BY <1>1, <1>3 DEF Superseded
<1> QED
  BY <1>2, <1>3

(* A step that changes runs and clones only. *)
LEMMA QueueStep ==
    ASSUME ReleaseInv, runs' \in [RunIds -> Runs], SameIds,
           \A i \in RunIds : runs'[i] = runs[i] \/ RunOK(runs'[i], pkg, origin, ci, npm, tags),
           clone' \in [Maintainers -> Clones], \A m \in Maintainers : CutOK(clone'[m]),
           UNCHANGED <<branch, registry, github, byHand>>, outages' \in Nat
    PROVE  ReleaseInv'
<1>1. ReleaseTypeOK /\ BranchOK
  BY DEF ReleaseInv
<1>2. ReleaseTypeOK'
  BY <1>1 DEF ReleaseTypeOK, branch, registry, github
<1>3. BranchOK'
  BY <1>1 DEF BranchOK, branch
<1>4. Forward
  BY DEF Forward, branch, registry, github
<1>5. /\ \A p \in staged' : p \in staged \/ Audited(p[1], p[2])
      /\ \A v \in Releases : npm'[v] # 0 => npm'[v] = npm[v] \/ <<v, npm'[v]>> \in staged
  BY DEF registry
<1> QED
  BY <1>2, <1>3, <1>4, <1>5, StepInv

(* Rerun puts an old run back into the queue. *)
LEMMA RerunInv ==
    ASSUME ReleaseInv, NEW i \in RunIds, Rerun(i) PROVE ReleaseInv'
<1> DEFINE r == runs[i]
           r2 == [r EXCEPT !.state = "queued"]
<1>1. /\ r \in Runs /\ r.state \in {"failed", "ended"} /\ PinnedOK(r, origin)
      /\ SnapshotOK(r, ci, npm, tags) /\ ReleaseTypeOK
  BY RunFacts DEF Rerun
<1>2. /\ r2 \in Runs /\ r2.state = "queued" /\ r2.version = r.version /\ r2.sha = r.sha
      /\ r2.expected = r.expected /\ r2.snapshot = r.snapshot
  BY <1>1 DEF Runs, RunStates
<1>3. RunOK(r2, pkg, origin, ci, npm, tags)
  BY <1>1, <1>2 DEF RunOK, PinnedOK, SnapshotOK, PlanOK, Working
<1>4. runs' = [Superseded EXCEPT ![i] = r2]
  <2>1. Superseded[i] = r /\ runs' = [Superseded EXCEPT ![i].state = "queued"]
    BY <1>1, SupersededOK DEF Rerun
  <2> QED
    BY <2>1
<1>5. /\ runs' \in [RunIds -> Runs]
      /\ \A j \in RunIds : runs'[j] = IF j = i THEN r2 ELSE Superseded[j]
  BY <1>2, <1>4, SupersededOK
<1>6. SameIds
  BY <1>2, <1>5, SupersededOK DEF SameIds
<1>7. \A j \in RunIds : runs'[j] = runs[j] \/ RunOK(runs'[j], pkg, origin, ci, npm, tags)
  BY <1>3, <1>5, SupersededOK
<1>8. /\ clone' \in [Maintainers -> Clones] /\ \A m \in Maintainers : CutOK(clone'[m])
      /\ UNCHANGED <<branch, registry, github, byHand>> /\ outages' \in Nat
  BY <1>1 DEF Rerun, ReleaseInv, ReleaseTypeOK
<1> QED
  BY <1>5, <1>6, <1>7, <1>8, QueueStep

(* DispatchRelease pins the run to the tip and to the commit of the cut. *)
LEMMA DispatchReleaseInv ==
    ASSUME ReleaseInv, NEW m \in Maintainers, NEW i \in RunIds, DispatchRelease(m, i)
    PROVE  ReleaseInv'
<1> DEFINE c == clone[m]
           d == ~c.publish
           r2 == [state |-> "queued", version |-> c.version, sha |-> head, expected |-> c.head,
                  dryRun |-> d, unread |-> {}, snapshot |-> NoSnapshot, mutations |-> {}]
<1>1. /\ ReleaseTypeOK /\ BranchOK /\ runs[i].state = "none" /\ c \in Clones
      /\ c.pc = "dispatching" /\ c.version \in Releases
  BY DEF DispatchRelease, ReleaseInv, ReleaseTypeOK, CutOK
<1>2. head \in origin /\ head \in 0 .. MaxSha /\ c.head \in Shas /\ c.head \in 0 .. MaxSha
  BY <1>1, ReleaseAssumption DEF BranchOK, ReleaseTypeOK, Clones, Shas
<1>3. d \in BOOLEAN
  BY SMT
<1>4. r2 \in Runs
  BY <1>1, <1>2, <1>3, NoSnapshotType DEF Runs, RunStates
<1>5. RunOK(r2, pkg, origin, ci, npm, tags)
  BY <1>1, <1>2 DEF RunOK, PinnedOK, SnapshotOK, PlanOK, Working, NoSnapshot
<1>6. /\ runs' \in [RunIds -> Runs]
      /\ \A j \in RunIds : runs'[j] = IF j = i THEN r2 ELSE Superseded[j]
  BY <1>4, SupersededOK DEF DispatchRelease
<1>7. SameIds
  BY <1>1, <1>6, SupersededOK DEF SameIds
<1>8. \A j \in RunIds : runs'[j] = runs[j] \/ RunOK(runs'[j], pkg, origin, ci, npm, tags)
  BY <1>5, <1>6, SupersededOK
<1>9. IdleClone(c.head, c.dirty) \in Clones /\ CutOK(IdleClone(c.head, c.dirty))
  BY <1>1, IdleCloneType DEF Clones
<1>10. clone' \in [Maintainers -> Clones] /\ \A n \in Maintainers : CutOK(clone'[n])
  BY <1>1, <1>9 DEF DispatchRelease, ReleaseInv, ReleaseTypeOK
<1>11. UNCHANGED <<branch, registry, github, byHand>> /\ outages' \in Nat
  BY <1>1 DEF DispatchRelease, ReleaseTypeOK
<1> QED
  BY <1>6, <1>7, <1>8, <1>10, <1>11, QueueStep

-----------------------------------------------------------------------------
(* The cut.                                                                *)

(* A step of a cut that changes its clone only. *)
LEMMA CloneStep ==
    ASSUME ReleaseInv, NEW m \in Maintainers, NEW c \in Clones, CutOK(c),
           clone' = [clone EXCEPT ![m] = c], outages' \in Nat,
           UNCHANGED <<branch, registry, github, runs, byHand>>
    PROVE  ReleaseInv'
<1>1. ReleaseTypeOK
  BY DEF ReleaseInv
<1>2. clone' \in [Maintainers -> Clones] /\ \A n \in Maintainers : CutOK(clone'[n])
  BY <1>1 DEF ReleaseInv, ReleaseTypeOK
<1>3. runs' \in [RunIds -> Runs] /\ SameIds
  BY <1>1 DEF SameIds, ReleaseTypeOK
<1>4. \A i \in RunIds : runs'[i] = runs[i] \/ RunOK(runs'[i], pkg, origin, ci, npm, tags)
  OBVIOUS
<1> QED
  BY <1>2, <1>3, <1>4, QueueStep

(* Every step of a cut up to its dispatch, except the push. *)
LEMMA CutInv ==
    ASSUME ReleaseInv, NEW m \in Maintainers,
           \/ BumpPackageVersion(m) \/ CheckHead(m) \/ CiTimeout(m) \/ CutOutage(m) \/ SyncClone(m)
           \/ \E v \in Releases, publish \in BOOLEAN : CutAudit(m, v, publish)
    PROVE  ReleaseInv'
<1> DEFINE c == clone[m]
<1>1. /\ ReleaseTypeOK /\ c \in Clones /\ CutOK(c) /\ c.head \in Shas /\ c.dirty \in BOOLEAN
      /\ head \in Shas /\ outages \in Nat
  BY DEF ReleaseInv, ReleaseTypeOK, Clones
<1>2. CASE \E s \in Shas, d \in BOOLEAN :
              /\ clone' = [clone EXCEPT ![m] = IdleClone(s, d)] /\ outages' \in Nat
              /\ UNCHANGED <<branch, registry, github, runs, byHand>>
  <2>1. PICK s \in Shas, d \in BOOLEAN :
              /\ clone' = [clone EXCEPT ![m] = IdleClone(s, d)] /\ outages' \in Nat
              /\ UNCHANGED <<branch, registry, github, runs, byHand>>
    BY <1>2
  <2>2. IdleClone(s, d) \in Clones /\ CutOK(IdleClone(s, d))
    BY IdleCloneType
  <2> QED
    BY <2>1, <2>2, CloneStep
<1>3. CASE BumpPackageVersion(m)
  <2>1. /\ clone' = [clone EXCEPT ![m] = [c EXCEPT !.pc = "committing", !.dirty = TRUE]]
        /\ c.pc = "bumping" /\ UNCHANGED <<branch, registry, github, runs, outages, byHand>>
    BY <1>1, <1>3 DEF BumpPackageVersion, ReleaseTypeOK
  <2>2. [c EXCEPT !.pc = "committing", !.dirty = TRUE] \in Clones
    BY <1>1 DEF Clones
  <2>3. CutOK([c EXCEPT !.pc = "committing", !.dirty = TRUE])
    BY <1>1, <2>1 DEF Clones, CutOK
  <2> QED
    BY <1>1, <2>1, <2>2, <2>3, CloneStep
<1>4. CASE CheckHead(m)
  <2>1. CASE head # c.head
    BY <1>1, <1>2, <1>4, <2>1 DEF CheckHead
  <2>2. CASE head = c.head
    <3>1. /\ clone' = [clone EXCEPT ![m] = [c EXCEPT !.pc = "dispatching"]]
          /\ c.pc = "waiting" /\ UNCHANGED <<branch, registry, github, runs, outages, byHand>>
      BY <1>1, <1>4, <2>2 DEF CheckHead, ReleaseTypeOK
    <3>2. [c EXCEPT !.pc = "dispatching"] \in Clones /\ CutOK([c EXCEPT !.pc = "dispatching"])
      BY <1>1, <3>1 DEF Clones, CutOK
    <3> QED
      BY <1>1, <3>1, <3>2, CloneStep
  <2> QED
    BY <2>1, <2>2
<1>5. CASE CiTimeout(m)
  BY <1>1, <1>2, <1>5 DEF CiTimeout
<1>6. CASE CutOutage(m)
  <2>1. outages' \in Nat
    BY <1>1, <1>6 DEF CutOutage
  <2> QED
    BY <1>1, <1>2, <1>6, <2>1 DEF CutOutage
<1>7. CASE SyncClone(m)
  BY <1>1, <1>2, <1>7 DEF SyncClone
<1>8. ASSUME NEW v \in Releases, NEW publish \in BOOLEAN, CutAudit(m, v, publish)
      PROVE  ReleaseInv'
  <2> DEFINE p == IF pkg[c.head] = v THEN "waiting" ELSE "bumping"
             c2 == [c EXCEPT !.pc = p, !.version = v, !.publish = publish]
  <2>1. /\ clone' = [clone EXCEPT ![m] = c2]
        /\ UNCHANGED <<branch, registry, github, runs, outages, byHand>>
    BY <1>1, <1>8 DEF CutAudit, ReleaseTypeOK
  <2>2. c2 \in Clones /\ c2.version = v
    BY <1>1 DEF Clones
  <2> QED
    BY <1>1, <2>1, <2>2, CloneStep DEF CutOK
<1> QED
  BY <1>3, <1>4, <1>5, <1>6, <1>7, <1>8

(* A step that adds a commit to the branch or beside it. *)
LEMMA CommitStep ==
    ASSUME ReleaseInv, commits < MaxSha, commits' = commits + 1,
           NEW w \in Releases \cup {0}, pkg' = [pkg EXCEPT ![commits + 1] = w],
           \/ head' = head /\ origin' = origin
           \/ head' = commits + 1 /\ origin' = origin \cup {commits + 1},
           clone' \in [Maintainers -> Clones], \A m \in Maintainers : CutOK(clone'[m]),
           outages' \in Nat, UNCHANGED <<ci, registry, github, runs, byHand>>
    PROVE  ReleaseInv'
<1>1. ReleaseTypeOK /\ BranchOK
  BY DEF ReleaseInv
<1>2. /\ commits + 1 \in Shas /\ commits + 1 \notin origin /\ commits \in Nat
      /\ 1 .. commits \subseteq 1 .. commits + 1
  BY <1>1, ReleaseAssumption DEF BranchOK, Shas
<1>3. pkg' \in [Shas -> Releases \cup {0}] /\ \A s \in origin : pkg'[s] = pkg[s]
  BY <1>1, <1>2 DEF ReleaseTypeOK
<1>4. commits' \in Shas /\ origin' \subseteq Shas /\ head' \in Shas
  BY <1>1, <1>2 DEF ReleaseTypeOK
<1>5. ReleaseTypeOK'
  BY <1>1, <1>3, <1>4 DEF ReleaseTypeOK, registry, github
<1>6. BranchOK'
  BY <1>1, <1>2, <1>4 DEF BranchOK
<1>7. Forward
  BY <1>3 DEF Forward, registry, github
<1>8. SameIds
  BY DEF SameIds
<1>9. /\ \A p \in staged' : p \in staged \/ Audited(p[1], p[2])
      /\ \A v \in Releases : npm'[v] # 0 => npm'[v] = npm[v] \/ <<v, npm'[v]>> \in staged
  BY DEF registry
<1> QED
  BY <1>5, <1>6, <1>7, <1>8, <1>9, StepInv

(* CommitAndPush keeps the invariant, whether or not the push is a fast-forward. *)
LEMMA CommitAndPushInv ==
    ASSUME ReleaseInv, NEW m \in Maintainers, CommitAndPush(m) PROVE ReleaseInv'
<1> DEFINE c == clone[m]
           sha == commits + 1
           c1 == [c EXCEPT !.head = sha, !.dirty = FALSE, !.pc = "waiting"]
           c2 == IF c.head = head THEN c1 ELSE IdleClone(sha, FALSE)
<1>1. ReleaseTypeOK /\ c \in Clones /\ CutOK(c) /\ c.pc = "committing" /\ c.version \in Releases
  BY DEF ReleaseInv, ReleaseTypeOK, CommitAndPush, CutOK
<1>2. sha \in Shas
  BY <1>1, ReleaseAssumption DEF CommitAndPush, ReleaseTypeOK, Shas
<1>3. c1 \in Clones /\ c1.version \in Releases
  BY <1>1, <1>2 DEF Clones
<1>4. c2 \in Clones /\ CutOK(c2)
  BY <1>2, <1>3, IdleCloneType DEF CutOK
<1>5. clone' = [clone EXCEPT ![m] = c2]
  BY DEF CommitAndPush
<1>6. clone' \in [Maintainers -> Clones] /\ \A n \in Maintainers : CutOK(clone'[n])
  BY <1>1, <1>4, <1>5 DEF ReleaseInv, ReleaseTypeOK
<1>7. outages' \in Nat
  BY <1>1 DEF CommitAndPush, ReleaseTypeOK
<1> QED
  BY <1>1, <1>6, <1>7, CommitStep DEF CommitAndPush

(* PushFails keeps the invariant. *)
LEMMA PushFailsInv ==
    ASSUME ReleaseInv, NEW m \in Maintainers, PushFails(m) PROVE ReleaseInv'
<1> DEFINE c == clone[m]
           c2 == IdleClone(commits + 1, FALSE)
<1>1. ReleaseTypeOK /\ CutOK(c) /\ c.version \in Releases
  BY DEF ReleaseInv, PushFails, CutOK
<1>2. commits + 1 \in Shas
  BY <1>1, ReleaseAssumption DEF PushFails, ReleaseTypeOK, Shas
<1>3. c2 \in Clones /\ CutOK(c2)
  BY <1>2, IdleCloneType DEF CutOK
<1>4. clone' = [clone EXCEPT ![m] = c2]
  BY DEF PushFails
<1>5. clone' \in [Maintainers -> Clones] /\ \A n \in Maintainers : CutOK(clone'[n])
  BY <1>1, <1>3, <1>4 DEF ReleaseInv, ReleaseTypeOK
<1>6. outages' \in Nat
  BY <1>1 DEF PushFails, ReleaseTypeOK
<1> QED
  BY <1>1, <1>5, <1>6, CommitStep DEF PushFails

(* OtherPush keeps the invariant. *)
LEMMA OtherPushInv ==
    ASSUME ReleaseInv, OtherPush PROVE ReleaseInv'
<1>1. pkg[head] \in Releases \cup {0} /\ ReleaseTypeOK
  BY DEF ReleaseInv, ReleaseTypeOK
<1>2. clone' \in [Maintainers -> Clones] /\ \A m \in Maintainers : CutOK(clone'[m])
  BY <1>1 DEF OtherPush, ReleaseInv, ReleaseTypeOK
<1>3. outages' \in Nat
  BY <1>1 DEF OtherPush, ReleaseTypeOK
<1> QED
  BY <1>1, <1>2, <1>3, CommitStep DEF OtherPush

-----------------------------------------------------------------------------
(* The world.                                                              *)

(* A step of the world that leaves branch, clones and runs alone. *)
LEMMA WorldStep ==
    ASSUME ReleaseInv, ReleaseTypeOK', UNCHANGED <<pkg, commits, origin, head, clone, runs>>,
           \A s \in Shas : ci[s] \subseteq ci'[s],
           \A v \in Releases : /\ npm[v] # 0 => npm'[v] = npm[v]
                               /\ tags[v] # 0 => tags'[v] = tags[v]
                               /\ npm'[v] # 0 => npm'[v] = npm[v] \/ <<v, npm'[v]>> \in staged,
           staged' \subseteq staged
    PROVE  ReleaseInv'
<1>1. BranchOK' /\ \A m \in Maintainers : CutOK(clone'[m])
  BY DEF ReleaseInv, BranchOK
<1>2. Forward
  BY DEF Forward
<1>3. SameIds
  BY DEF SameIds
<1>4. \A p \in staged' : p \in staged \/ Audited(p[1], p[2])
  OBVIOUS
<1> QED
  BY <1>1, <1>2, <1>3, <1>4, StepInv

(* CI, the registry, approvals and interference by hand keep the invariant. *)
LEMMA WorldInv ==
    ASSUME ReleaseInv,
           \/ \E s \in Shas : \/ \E event \in {"push", "pr"} : CiSucceeds(s, event)
                              \/ \E v \in Releases : Approve(v, s) \/ ByHand(v, s)
           \/ \E v \in Releases : ShowGitHead(v)
    PROVE  ReleaseInv'
<1>1. ReleaseTypeOK
  BY DEF ReleaseInv
<1>2. ASSUME NEW s \in Shas, NEW event \in {"push", "pr"}, CiSucceeds(s, event) PROVE ReleaseInv'
  <2>1. ci' \in [Shas -> SUBSET {"push", "pr"}] /\ \A x \in Shas : ci[x] \subseteq ci'[x]
    BY <1>1, <1>2 DEF ReleaseTypeOK, CiSucceeds
  <2>2. ReleaseTypeOK'
    BY <1>1, <1>2, <2>1 DEF ReleaseTypeOK, CiSucceeds, registry, github
  <2> QED
    BY <1>2, <2>1, <2>2, WorldStep DEF CiSucceeds, registry, github
<1>3. ASSUME NEW s \in Shas, NEW v \in Releases, Approve(v, s) PROVE ReleaseInv'
  <2>1. s \in 0 .. MaxSha
    BY ReleaseAssumption DEF Shas
  <2>2. npm' \in [Releases -> 0 .. MaxSha] /\ staged' \subseteq staged
    BY <1>1, <1>3, <2>1 DEF ReleaseTypeOK, Approve
  <2>3. ReleaseTypeOK'
    BY <1>1, <1>3, <2>2 DEF ReleaseTypeOK, Approve, branch, github
  <2>4. \A w \in Releases :
            /\ npm[w] # 0 => npm'[w] = npm[w]
            /\ npm'[w] # 0 => npm'[w] = npm[w] \/ <<w, npm'[w]>> \in staged
    BY <1>1, <1>3 DEF ReleaseTypeOK, Approve
  <2> QED
    BY <1>3, <2>2, <2>3, <2>4, WorldStep DEF Approve, branch, github
<1>4. ASSUME NEW s \in Shas, NEW v \in Releases, ByHand(v, s) PROVE ReleaseInv'
  <2>1. s \in 0 .. MaxSha
    BY ReleaseAssumption DEF Shas
  <2>2. /\ tags' \in [Releases -> 0 .. MaxSha] /\ ghRelease' \in [Releases -> ReleaseStates]
        /\ \A w \in Releases : tags[w] # 0 => tags'[w] = tags[w]
    BY <1>1, <1>4, <2>1 DEF ReleaseTypeOK, ByHand, ReleaseStates
  <2>3. byHand' \in Nat
    BY <1>1, <1>4 DEF ReleaseTypeOK, ByHand
  <2>4. ReleaseTypeOK'
    BY <1>1, <1>4, <2>2, <2>3 DEF ReleaseTypeOK, ByHand, branch, registry
  <2> QED
    BY <1>4, <2>2, <2>4, WorldStep DEF ByHand, branch, registry
<1>5. ASSUME NEW v \in Releases, ShowGitHead(v) PROVE ReleaseInv'
  <2>1. gitHead' \in [Releases -> BOOLEAN]
    BY <1>1, <1>5 DEF ReleaseTypeOK, ShowGitHead
  <2>2. ReleaseTypeOK'
    BY <1>1, <1>5, <2>1 DEF ReleaseTypeOK, ShowGitHead, branch, github
  <2> QED
    BY <1>5, <2>2, WorldStep DEF ShowGitHead, branch, github
<1> QED
  BY <1>2, <1>3, <1>4, <1>5

-----------------------------------------------------------------------------
(* Every step of the coordinator and of the world keeps the invariant. *)
LEMMA NextInv == ReleaseInv /\ [ReleaseNext]_releaseVars => ReleaseInv'
<1> SUFFICES ASSUME ReleaseInv, [ReleaseNext]_releaseVars PROVE ReleaseInv'
  OBVIOUS
<1>1. ASSUME NEW i \in RunIds,
             \/ Start(i) \/ Plan(i) \/ Stage(i) \/ CreateTag(i) \/ CreateGithubRelease(i)
             \/ VerifyRelease(i) \/ RunOutage(i) \/ Rerun(i)
             \/ \E read \in Reads : ReadPublic(i, read)
             \/ \E m \in Maintainers : DispatchRelease(m, i)
      PROVE  ReleaseInv'
  BY <1>1, StartInv, PlanInv, StageInv, CreateTagInv, CreateGithubReleaseInv, VerifyReleaseInv,
     RunOutageInv, RerunInv, ReadPublicInv, DispatchReleaseInv
<1>2. ASSUME NEW m \in Maintainers,
             \/ BumpPackageVersion(m) \/ CommitAndPush(m) \/ CheckHead(m) \/ CiTimeout(m)
             \/ PushFails(m) \/ CutOutage(m) \/ SyncClone(m)
             \/ \E v \in Releases, publish \in BOOLEAN : CutAudit(m, v, publish)
      PROVE  ReleaseInv'
  BY <1>2, CutInv, CommitAndPushInv, PushFailsInv
<1>3. CASE \/ \E s \in Shas : \/ \E event \in {"push", "pr"} : CiSucceeds(s, event)
                             \/ \E v \in Releases : Approve(v, s) \/ ByHand(v, s)
           \/ \E v \in Releases : ShowGitHead(v)
  BY <1>3, WorldInv
<1>4. CASE OtherPush
  BY <1>4, OtherPushInv
<1>5. CASE UNCHANGED releaseVars
  BY <1>5 DEF releaseVars, ReleaseInv, ReleaseTypeOK, BranchOK, OnlyAuditedGetsOut, Audited
<1> QED
  BY <1>1, <1>2, <1>3, <1>4, <1>5 DEF ReleaseNext

(***************************************************************************)
(* The inductive invariant holds for any versions, maintainers, runs,      *)
(* outages and interference by hand.                                       *)
(***************************************************************************)
THEOREM ReleaseInvariant == ReleaseSpec => []ReleaseInv
BY InitInv, NextInv, PTL DEF ReleaseSpec

(* The release coordinator's state keeps its shape. *)
THEOREM ReleaseTypeCorrect == ReleaseSpec => []ReleaseTypeOK
<1>1. ReleaseInv => ReleaseTypeOK
  BY DEF ReleaseInv
<1> QED
  BY <1>1, ReleaseInvariant, PTL

(***************************************************************************)
(* What is staged or public was audited: it is the commit some cut named,  *)
(* carries the version, is on the branch and passed CI as a push.          *)
(***************************************************************************)
THEOREM OnlyAudited == ReleaseSpec => []OnlyAuditedGetsOut
<1>1. ReleaseInv => OnlyAuditedGetsOut
  BY DEF ReleaseInv
<1> QED
  BY <1>1, ReleaseInvariant, PTL

-----------------------------------------------------------------------------
(* The ledger.                                                             *)

Tagged == [v \in Releases |-> npm[v] # 0 /\ tags[v] = npm[v]]
Released == [v \in Releases |-> ghRelease[v] = "published"]

(* A step that leaves npm, tags and releases alone is none of the ledger's. *)
LEMMA LedgerStutter ==
    ASSUME UNCHANGED <<npm, tags, ghRelease>>
    PROVE  UNCHANGED Ledger!ledgerVars
BY DEF Ledger!ledgerVars

(* Approve is MakePublic; a tag at the commit may be there before it. *)
LEMMA ApproveLedger ==
    ASSUME ReleaseInv, NEW v \in Releases, NEW s \in Shas, Approve(v, s)
    PROVE  Ledger!LedgerNext
<1>1. ReleaseTypeOK
  BY DEF ReleaseInv
<1>2. npm[v] = 0 /\ npm' = [npm EXCEPT ![v] = s] /\ tags' = tags /\ ghRelease' = ghRelease
  BY DEF Approve, github
<1>3. Tagged' = [Tagged EXCEPT ![v] = (s # 0 /\ tags[v] = s)]
  BY <1>1, <1>2 DEF Tagged, ReleaseTypeOK
<1>4. (s # 0 /\ tags[v] = s) \in BOOLEAN
  BY SMT
<1>5. Released' = Released
  BY <1>2 DEF Released
<1>6. Ledger!MakePublic(v, s)
  BY <1>2, <1>3, <1>4, <1>5 DEF Ledger!MakePublic, Tagged, Released
<1> QED
  BY <1>6 DEF Ledger!LedgerNext

(* A tag made for a version is MakeTag when it names the public commit, and nothing otherwise. *)
LEMMA TagLedger ==
    ASSUME ReleaseInv, NEW v \in Releases, NEW s \in Shas, tags[v] = 0,
           tags' = [tags EXCEPT ![v] = s], UNCHANGED <<npm, ghRelease>>
    PROVE  Ledger!LedgerNext \/ UNCHANGED Ledger!ledgerVars
<1>1. ReleaseTypeOK
  BY DEF ReleaseInv
<1>2. Released' = Released /\ npm' = npm
  BY DEF Released
<1>3. CASE npm[v] = s /\ s # 0
  <2>1. Tagged' = [Tagged EXCEPT ![v] = TRUE]
    <3>1. \A w \in Releases : tags'[w] = IF w = v THEN s ELSE tags[w]
      BY <1>1 DEF ReleaseTypeOK
    <3>2. ASSUME NEW w \in Releases
          PROVE  (npm'[w] # 0 /\ tags'[w] = npm'[w])
                    = (IF w = v THEN TRUE ELSE npm[w] # 0 /\ tags[w] = npm[w])
      BY <1>2, <1>3, <3>1
    <3> QED
      BY <3>2 DEF Tagged
  <2>2. ~Tagged[v]
    BY <1>3 DEF Tagged
  <2>3. Ledger!MakeTag(v)
    BY <1>2, <1>3, <2>1, <2>2 DEF Ledger!MakeTag, Tagged, Released
  <2> QED
    BY <2>3 DEF Ledger!LedgerNext
<1>4. CASE ~(npm[v] = s /\ s # 0)
  <2>1. Tagged' = Tagged
    BY <1>1, <1>4 DEF Tagged, ReleaseTypeOK
  <2> QED
    BY <1>2, <2>1 DEF Ledger!ledgerVars, Tagged, Released
<1> QED
  BY <1>3, <1>4

(* A run makes the GitHub Release only once the tag names the public commit. *)
LEMMA ReleaseLedgerStep ==
    ASSUME ReleaseInv, NEW i \in RunIds, CreateGithubRelease(i)
    PROVE  Ledger!LedgerNext \/ UNCHANGED Ledger!ledgerVars
<1> DEFINE r == runs[i]
<1>0. /\ ReleaseTypeOK /\ r.state = "planned" /\ r.mutations = {"create-github-release"}
      /\ PlanOK(r, pkg, ci, npm, tags) /\ r.version \in Releases /\ r.sha # 0
  BY RunFacts DEF CreateGithubRelease
<1>1. PICK v \in Releases : v = r.version
  BY <1>0
<1>2. npm[v] = r.sha /\ tags[v] = r.sha /\ npm[v] # 0
  BY <1>0, <1>1 DEF PlanOK
<1>3. /\ ghRelease' = [ghRelease EXCEPT ![v] = IF @ = "none" THEN "published" ELSE @]
      /\ npm' = npm /\ tags' = tags
  BY <1>1 DEF CreateGithubRelease, registry
<1>4. Tagged' = Tagged
  BY <1>3 DEF Tagged
<1>5. CASE ghRelease[v] = "none"
  <2>1. Released' = [Released EXCEPT ![v] = TRUE]
    BY <1>0, <1>3, <1>5 DEF Released, ReleaseTypeOK
  <2>2. Tagged[v] /\ ~Released[v]
    BY <1>2, <1>5 DEF Tagged, Released
  <2>3. Ledger!MakeRelease(v)
    BY <1>2, <1>3, <1>4, <2>1, <2>2 DEF Ledger!MakeRelease, Tagged, Released
  <2> QED
    BY <2>3 DEF Ledger!LedgerNext
<1>6. CASE ghRelease[v] # "none"
  <2>1. ghRelease' = ghRelease
    BY <1>0, <1>3, <1>6 DEF ReleaseTypeOK
  <2> QED
    BY <1>3, <2>1, LedgerStutter
<1> QED
  BY <1>5, <1>6

(* Every step is a step of the ledger, or none of its business. *)
LEMMA LedgerStep ==
    ReleaseInv /\ [ReleaseNext]_releaseVars => [Ledger!LedgerNext]_Ledger!ledgerVars
<1> SUFFICES ASSUME ReleaseInv, [ReleaseNext]_releaseVars
             PROVE  Ledger!LedgerNext \/ UNCHANGED Ledger!ledgerVars
  OBVIOUS
<1>0. ReleaseTypeOK
  BY DEF ReleaseInv
<1>1. CASE UNCHANGED <<npm, tags, ghRelease>>
  BY <1>1, LedgerStutter
<1>2. ASSUME NEW i \in RunIds, CreateTag(i)
      PROVE  Ledger!LedgerNext \/ UNCHANGED Ledger!ledgerVars
  <2> DEFINE r == runs[i]
  <2>1. r.version \in Releases /\ r.sha \in Shas
    BY <1>2, RunFacts DEF CreateTag
  <2>2. /\ tags' = [tags EXCEPT ![r.version] = IF @ = 0 THEN r.sha ELSE @]
        /\ npm' = npm /\ ghRelease' = ghRelease
    BY <1>2 DEF CreateTag, registry
  <2>3. CASE tags[r.version] = 0
    BY <2>1, <2>2, <2>3, TagLedger
  <2>4. CASE tags[r.version] # 0
    <3>1. tags' = tags
      BY <1>0, <2>1, <2>2, <2>4 DEF ReleaseTypeOK
    <3> QED
      BY <2>2, <3>1, LedgerStutter
  <2> QED
    BY <2>3, <2>4
<1>3. ASSUME NEW i \in RunIds, CreateGithubRelease(i)
      PROVE  Ledger!LedgerNext \/ UNCHANGED Ledger!ledgerVars
  BY <1>3, ReleaseLedgerStep
<1>4. ASSUME NEW v \in Releases, NEW s \in Shas, Approve(v, s)
      PROVE  Ledger!LedgerNext \/ UNCHANGED Ledger!ledgerVars
  BY <1>4, ApproveLedger
<1>5. ASSUME NEW v \in Releases, NEW s \in Shas, ByHand(v, s)
      PROVE  Ledger!LedgerNext \/ UNCHANGED Ledger!ledgerVars
  <2>1. CASE tags[v] = 0 /\ tags' = [tags EXCEPT ![v] = s] /\ UNCHANGED <<npm, ghRelease>>
    BY <2>1, TagLedger
  <2>2. CASE /\ ghRelease[v] = "none" /\ ghRelease' = [ghRelease EXCEPT ![v] = "draft"]
             /\ UNCHANGED <<npm, tags>>
    <3>1. Released' = Released
      BY <1>0, <2>2 DEF Released, ReleaseTypeOK
    <3> QED
      BY <2>2, <3>1 DEF Ledger!ledgerVars, Released
  <2> QED
    BY <1>5, <2>1, <2>2 DEF ByHand, registry
<1>6. ASSUME NEW i \in RunIds,
             \/ Start(i) \/ Plan(i) \/ Stage(i) \/ VerifyRelease(i) \/ RunOutage(i) \/ Rerun(i)
             \/ \E read \in Reads : ReadPublic(i, read)
             \/ \E m \in Maintainers : DispatchRelease(m, i)
      PROVE  UNCHANGED <<npm, tags, ghRelease>>
  BY <1>6 DEF Start, Plan, Stage, VerifyRelease, RunOutage, Rerun, ReadPublic, DispatchRelease,
              registry, github
<1>7. ASSUME NEW m \in Maintainers,
             \/ BumpPackageVersion(m) \/ CommitAndPush(m) \/ CheckHead(m) \/ CiTimeout(m)
             \/ PushFails(m) \/ CutOutage(m) \/ SyncClone(m)
             \/ \E v \in Releases, publish \in BOOLEAN : CutAudit(m, v, publish)
      PROVE  UNCHANGED <<npm, tags, ghRelease>>
  BY <1>7 DEF BumpPackageVersion, CommitAndPush, PushFails, CheckHead, CiTimeout, CutOutage, SyncClone,
              CutAudit, registry, github
<1>8. CASE \/ \E s \in Shas, event \in {"push", "pr"} : CiSucceeds(s, event)
           \/ \E v \in Releases : ShowGitHead(v)
           \/ OtherPush \/ UNCHANGED releaseVars
  <2>1. UNCHANGED <<npm, tags, ghRelease>>
    BY <1>8 DEF CiSucceeds, ShowGitHead, OtherPush, releaseVars, registry, github
  <2> QED
    BY <2>1, <1>1
<1> QED
  BY <1>1, <1>2, <1>3, <1>4, <1>5, <1>6, <1>7, <1>8 DEF ReleaseNext

(***************************************************************************)
(* The coordinator implements the ledger: for any versions, maintainers,   *)
(* runs, outages and interference by hand, a version is public once, from  *)
(* one commit, and its GitHub Release follows a tag at that commit.        *)
(***************************************************************************)
THEOREM ReleaseImplementsLedger == ReleaseSpec => ImplementsLedger
<1>1. ReleaseInit => Ledger!LedgerInit
  BY DEF ReleaseInit, Ledger!LedgerInit
<1> QED
  BY <1>1, ReleaseInvariant, LedgerStep, PTL DEF ReleaseSpec, ImplementsLedger, Ledger!LedgerSpec
=============================================================================
