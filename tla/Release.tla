------------------------------- MODULE Release -------------------------------
(***************************************************************************)
(* The release coordinator (scripts/release.ts and scripts/lib/release/):  *)
(* a maintainer's "cut", which bumps the version, waits for CI and         *)
(* dispatches the workflow; the workflow runs that execute "publish" on    *)
(* the audited commit; and the world both act on, which others change too: *)
(* the release branch, CI, the npm registry with its staged packages, the  *)
(* Git tags and the GitHub Releases.  One release branch and its dist-tag  *)
(* are modelled; versions are numbered in the order of                     *)
(* compareReleaseVersions.                                                 *)
(*                                                                         *)
(* Any command of either program can fail: an Outage ends the program      *)
(* between two of its effects, and the run may be rerun or the cut         *)
(* repeated.  The workflow's concurrency group lets one run work at a time *)
(* and keeps only the newest one waiting.                                  *)
(***************************************************************************)
EXTENDS Naturals

CONSTANTS Releases,    \* the versions that can be released
          MaxSha,      \* bound: commits
          MaxRuns,     \* bound: workflow runs that can be dispatched
          Maintainers,
          MaxOutages,  \* bound: commands that fail
          MaxByHand    \* bound: tags or draft releases made by hand

ASSUME ReleaseAssumption ==
    /\ Releases \subseteq Nat \ {0} /\ MaxSha \in Nat \ {0} /\ MaxRuns \in Nat
    /\ MaxOutages \in Nat /\ MaxByHand \in Nat

VARIABLES pkg,       \* package.json's version at each commit, 0 before the first bump
          commits,   \* how many commits exist
          origin,    \* the commits of the release branch on origin
          head,      \* its tip
          ci,        \* per commit the events with a successful CI run
          npm,       \* per version the published commit, 0 for none
          gitHead,   \* whether the registry shows the gitHead of the version
          staged,    \* packages staged and not approved: <<version, commit>>
          distTag,   \* the version the dist-tag names, 0 for none
          tags,      \* per version the commit its Git tag names, 0 for none
          ghRelease, \* per version the state of its GitHub Release
          clone,     \* per maintainer the clone and the cut that runs in it
          runs,      \* the workflow runs
          outages, byHand

releaseVars == <<pkg, commits, origin, head, ci, npm, gitHead, staged, distTag, tags, ghRelease,
                 clone, runs, outages, byHand>>

registry == <<npm, gitHead, staged, distTag>>
github == <<tags, ghRelease>>
branch == <<pkg, commits, origin, head, ci>>

Shas == 1 .. MaxSha
RunIds == 1 .. MaxRuns
(* The requests of one snapshot, by what can change between two of them. *)
Reads == {"version", "registry", "github"}
NoSnapshot == [npmHasVersion |-> FALSE, npmGitHead |-> 0, distTags |-> 0, tagSha |-> 0,
               githubRelease |-> "none", ciPush |-> FALSE]
NoRun == [state |-> "none", version |-> 0, sha |-> 0, expected |-> 0, dryRun |-> FALSE,
          unread |-> {}, snapshot |-> NoSnapshot, mutations |-> {}]

IdleClone(sha, dirty) ==
    [head |-> sha, dirty |-> dirty, pc |-> "idle", version |-> 0, publish |-> FALSE]

ReleaseInit ==
    /\ pkg = [s \in Shas |-> 0] /\ commits = 1 /\ origin = {1} /\ head = 1
    /\ ci = [s \in Shas |-> {}]
    /\ npm = [v \in Releases |-> 0] /\ gitHead = [v \in Releases |-> FALSE]
    /\ staged = {} /\ distTag = 0
    /\ tags = [v \in Releases |-> 0] /\ ghRelease = [v \in Releases |-> "none"]
    /\ clone = [m \in Maintainers |-> IdleClone(1, FALSE)]
    /\ runs = [i \in RunIds |-> NoRun]
    /\ outages = 0 /\ byHand = 0

-----------------------------------------------------------------------------
(* plan.ts                                                                 *)

githubReleaseMismatch(release) == release # "published"

(* Mutant: a release that got as far as its tag is taken for a conflict. *)
conflictWhenPartial(s, sha) == s.tagSha # 0 \/ (s.npmHasVersion /\ s.npmGitHead # sha)

(* classifyPublic's conflicts. *)
publicConflict(s, sha) ==
    \/ s.tagSha # 0 /\ s.tagSha # sha
    \/ s.npmHasVersion /\ s.npmGitHead # sha
    \/ s.githubRelease # "none" /\ githubReleaseMismatch(s.githubRelease)
    \/ s.githubRelease # "none" /\ ~s.npmHasVersion /\ s.tagSha = 0

(* classifyPublic's mutations, executed in the order stage, tag, release. *)
publicMutations(s) ==
    (IF s.npmHasVersion THEN {} ELSE {"stage-npm"})
        \cup (IF s.tagSha # 0 THEN {} ELSE {"create-tag"})
        \cup (IF s.githubRelease # "none" THEN {} ELSE {"create-github-release"})

assertDistTagAdvance(version, tip, willPublishNpm) ==
    willPublishNpm => (tip = 0 \/ version > tip)

assertCiEvidence(s) == s.ciPush

(* assemblePublicationPlan does not throw. *)
planAccepted(r) ==
    /\ pkg[r.sha] = r.version
    /\ ~publicConflict(r.snapshot, r.sha)
    /\ assertCiEvidence(r.snapshot)
    /\ assertDistTagAdvance(r.version, r.snapshot.distTags,
                            "stage-npm" \in publicMutations(r.snapshot))

-----------------------------------------------------------------------------
(* The workflow run: release.yml and runPublish.                           *)

Working == {"reading", "planned", "verifying"}

EndRun(r, state) ==
    [state |-> state, version |-> r.version, sha |-> r.sha, expected |-> r.expected,
     dryRun |-> r.dryRun, unread |-> {}, snapshot |-> NoSnapshot, mutations |-> {}]

(* A run that joins the concurrency group replaces the one that waits there. *)
Superseded ==
    [j \in RunIds |-> IF runs[j].state = "queued" THEN EndRun(runs[j], "failed") ELSE runs[j]]

(* The concurrency group admits the run; the guards compare the commit with the audited one. *)
Start(i) ==
    /\ runs[i].state = "queued" /\ \A j \in RunIds : runs[j].state \notin Working
    /\ runs' = [runs EXCEPT ![i] = IF @.sha # @.expected THEN EndRun(@, "failed")
                                   ELSE [@ EXCEPT !.state = "reading", !.unread = Reads]]
    /\ UNCHANGED <<branch, registry, github, clone, outages, byHand>>

(* Mutant: CI of the pull request is evidence enough. *)
ciAnyUrl(sha) == ci[sha] # {}

(* Whether there is a successful CI run of the push of the commit. *)
ciPushUrl(sha) == "push" \in ci[sha]

(* One of the requests of readPublicSnapshot, which run side by side. *)
Observed(snapshot, v, sha, read) ==
    CASE read = "version" -> [snapshot EXCEPT !.npmHasVersion = npm[v] # 0]
      [] read = "registry" -> [snapshot EXCEPT !.npmGitHead = IF gitHead[v] THEN npm[v] ELSE 0,
                                               !.distTags = distTag]
      [] read = "github" -> [snapshot EXCEPT !.tagSha = tags[v], !.githubRelease = ghRelease[v],
                                             !.ciPush = ciPushUrl(sha)]

ReadPublic(i, read) ==
    LET r == runs[i] IN
    /\ r.state = "reading" /\ read \in r.unread
    /\ runs' = [runs EXCEPT ![i] = [r EXCEPT !.unread = @ \ {read},
                                             !.snapshot = Observed(@, r.version, r.sha, read)]]
    /\ UNCHANGED <<branch, registry, github, clone, outages, byHand>>

(* assemblePublicationPlan, then executePlan up to its first mutation. *)
Plan(i) ==
    LET r == runs[i]
        mutations == publicMutations(r.snapshot)
    IN  /\ r.state = "reading" /\ r.unread = {}
        /\ runs' = [runs EXCEPT ![i] =
                      IF ~planAccepted(r) THEN EndRun(r, "failed")
                      ELSE IF r.dryRun \/ mutations = {} THEN EndRun(r, "ended")
                      ELSE [r EXCEPT !.state = "planned", !.mutations = mutations]]
        /\ UNCHANGED <<branch, registry, github, clone, outages, byHand>>

(* stage-npm: staged and done, unless the registry has the version by now. *)
Stage(i) ==
    LET r == runs[i] IN
    /\ r.state = "planned" /\ "stage-npm" \in r.mutations
    /\ staged' = IF npm[r.version] = 0 THEN staged \cup {<<r.version, r.sha>>} ELSE staged
    /\ runs' = [runs EXCEPT ![i] = EndRun(r, IF npm[r.version] = 0 THEN "ended" ELSE "failed")]
    /\ UNCHANGED <<branch, npm, gitHead, distTag, github, clone, outages, byHand>>

AfterTag(r) == IF r.mutations = {"create-tag"} THEN EndRun(r, "ended")
               ELSE [r EXCEPT !.mutations = @ \ {"create-tag"}]

(* Mutant: an existing tag is taken for the tag of this commit. *)
createTagAnyExisting(i) ==
    LET r == runs[i] IN
    /\ r.state = "planned" /\ "stage-npm" \notin r.mutations /\ "create-tag" \in r.mutations
    /\ tags' = [tags EXCEPT ![r.version] = IF @ = 0 THEN r.sha ELSE @]
    /\ runs' = [runs EXCEPT ![i] = AfterTag(r)]
    /\ UNCHANGED <<branch, registry, ghRelease, clone, outages, byHand>>

(* createTag: an existing tag will do when it names this commit. *)
CreateTag(i) ==
    LET r == runs[i] IN
    /\ r.state = "planned" /\ "stage-npm" \notin r.mutations /\ "create-tag" \in r.mutations
    /\ tags' = [tags EXCEPT ![r.version] = IF @ = 0 THEN r.sha ELSE @]
    /\ runs' = [runs EXCEPT ![i] = IF tags[r.version] \in {0, r.sha} THEN AfterTag(r)
                                   ELSE EndRun(r, "failed")]
    /\ UNCHANGED <<branch, registry, ghRelease, clone, outages, byHand>>

(* createGithubRelease: an existing one is left to the verification. *)
CreateGithubRelease(i) ==
    LET r == runs[i] IN
    /\ r.state = "planned" /\ r.mutations = {"create-github-release"}
    /\ ghRelease' = [ghRelease EXCEPT ![r.version] = IF @ = "none" THEN "published" ELSE @]
    /\ runs' = [runs EXCEPT ![i].state = "verifying"]
    /\ UNCHANGED <<branch, registry, tags, clone, outages, byHand>>

(* executePlan reads the release back and compares it with the identity. *)
VerifyRelease(i) ==
    LET r == runs[i] IN
    /\ r.state = "verifying"
    /\ runs' = [runs EXCEPT ![i] =
                  EndRun(r, IF githubReleaseMismatch(ghRelease[r.version]) THEN "failed" ELSE "ended")]
    /\ UNCHANGED <<branch, registry, github, clone, outages, byHand>>

(* A command of the run fails or its runner dies: what it did stays done. *)
RunOutage(i) ==
    /\ runs[i].state \in Working /\ outages < MaxOutages
    /\ runs' = [runs EXCEPT ![i] = EndRun(@, "failed")]
    /\ outages' = outages + 1
    /\ UNCHANGED <<branch, registry, github, clone, byHand>>

(* "rerun this exact release workflow": the same commit and inputs again. *)
Rerun(i) ==
    /\ runs[i].state \in {"failed", "ended"}
    /\ runs' = [Superseded EXCEPT ![i].state = "queued"]
    /\ UNCHANGED <<branch, registry, github, clone, outages, byHand>>

-----------------------------------------------------------------------------
(* The maintainer's cut: runCut.                                           *)

(* approvedStageReadyToFinalize, or nothing of this version is public yet. *)
cutAllowed(v, atVersion) ==
    LET unused == npm[v] = 0 /\ tags[v] = 0 /\ ghRelease[v] = "none"
        approved == atVersion /\ npm[v] # 0 /\ tags[v] = 0 /\ ghRelease[v] = "none"
    IN  /\ unused \/ approved
        /\ assertDistTagAdvance(v, distTag, npm[v] = 0)

(* runCut up to its first effect: a clean tree, the public state, the local checks. *)
CutAudit(m, v, publish) ==
    LET c == clone[m] IN
    /\ c.pc = "idle" /\ ~c.dirty
    /\ cutAllowed(v, pkg[c.head] = v)
    /\ clone' = [clone EXCEPT ![m].pc = IF pkg[c.head] = v THEN "waiting" ELSE "bumping",
                              ![m].version = v, ![m].publish = publish]
    /\ UNCHANGED <<branch, registry, github, runs, outages, byHand>>

(* npm version rewrites package.json in the working tree. *)
BumpPackageVersion(m) ==
    /\ clone[m].pc = "bumping"
    /\ clone' = [clone EXCEPT ![m].pc = "committing", ![m].dirty = TRUE]
    /\ UNCHANGED <<branch, registry, github, runs, outages, byHand>>

(* git commit and git push: a push that is no fast-forward fails and leaves the commit. *)
CommitAndPush(m) ==
    LET c == clone[m]
        sha == commits + 1
        pushed == c.head = head
    IN  /\ c.pc = "committing" /\ commits < MaxSha
        /\ commits' = sha
        /\ pkg' = [pkg EXCEPT ![sha] = c.version]
        /\ head' = IF pushed THEN sha ELSE head
        /\ origin' = IF pushed THEN origin \cup {sha} ELSE origin
        /\ clone' = [clone EXCEPT ![m] =
                       IF pushed THEN [c EXCEPT !.head = sha, !.dirty = FALSE, !.pc = "waiting"]
                       ELSE IdleClone(sha, FALSE)]
        /\ UNCHANGED <<ci, registry, github, runs, outages, byHand>>

(* git push fails for want of a network: the commit stays in the clone. *)
PushFails(m) ==
    LET c == clone[m] IN
    /\ c.pc = "committing" /\ commits < MaxSha /\ outages < MaxOutages
    /\ commits' = commits + 1
    /\ pkg' = [pkg EXCEPT ![commits + 1] = c.version]
    /\ clone' = [clone EXCEPT ![m] = IdleClone(commits + 1, FALSE)]
    /\ outages' = outages + 1
    /\ UNCHANGED <<origin, head, ci, registry, github, runs, byHand>>

(* waitForWorkflow looks at runs of any event; then the tip must still be this commit. *)
CheckHead(m) ==
    LET c == clone[m] IN
    /\ c.pc = "waiting" /\ ci[c.head] # {}
    /\ clone' = [clone EXCEPT ![m] = IF head = c.head THEN [c EXCEPT !.pc = "dispatching"]
                                    ELSE IdleClone(c.head, FALSE)]
    /\ UNCHANGED <<branch, registry, github, runs, outages, byHand>>

(* dispatchRelease on the branch: GitHub takes the tip it has by now. *)
DispatchRelease(m, i) ==
    LET c == clone[m] IN
    /\ c.pc = "dispatching"
    /\ runs[i].state = "none" /\ \A j \in 1 .. i - 1 : runs[j].state # "none"
    /\ runs' = [Superseded EXCEPT ![i] =
                  [state |-> "queued", version |-> c.version, sha |-> head, expected |-> c.head,
                   dryRun |-> ~c.publish, unread |-> {}, snapshot |-> NoSnapshot, mutations |-> {}]]
    /\ clone' = [clone EXCEPT ![m] = IdleClone(@.head, @.dirty)]
    /\ UNCHANGED <<branch, registry, github, outages, byHand>>

(* ci_failed or ci_timeout. *)
CiTimeout(m) ==
    /\ clone[m].pc = "waiting"
    /\ clone' = [clone EXCEPT ![m] = IdleClone(@.head, @.dirty)]
    /\ UNCHANGED <<branch, registry, github, runs, outages, byHand>>

(* A command of the cut fails or its terminal is closed. *)
CutOutage(m) ==
    /\ clone[m].pc # "idle" /\ outages < MaxOutages
    /\ clone' = [clone EXCEPT ![m] = IdleClone(@.head, @.dirty)]
    /\ outages' = outages + 1
    /\ UNCHANGED <<branch, registry, github, runs, byHand>>

(* The maintainer discards local changes and takes the tip of the branch. *)
SyncClone(m) ==
    /\ clone[m].pc = "idle" /\ (clone[m].dirty \/ clone[m].head # head)
    /\ clone' = [clone EXCEPT ![m] = IdleClone(head, FALSE)]
    /\ UNCHANGED <<branch, registry, github, runs, outages, byHand>>

-----------------------------------------------------------------------------
(* The world around both (GitHub, npm, other maintainers).                 *)

(* Somebody merges into the release branch; the version stays what it was. *)
OtherPush ==
    /\ commits < MaxSha /\ commits' = commits + 1
    /\ pkg' = [pkg EXCEPT ![commits + 1] = pkg[head]]
    /\ head' = commits + 1 /\ origin' = origin \cup {head'}
    /\ UNCHANGED <<ci, registry, github, clone, runs, outages, byHand>>

(* CI succeeds for a commit: of a push of the branch, or of a pull request.  CI of the
   commits before the first bump decides nothing and is left out. *)
CiSucceeds(s, event) ==
    /\ s \in origin /\ pkg[s] # 0 /\ event \notin ci[s]
    /\ ci' = [ci EXCEPT ![s] = @ \cup {event}]
    /\ UNCHANGED <<pkg, commits, origin, head, registry, github, clone, runs, outages, byHand>>

(* A maintainer approves a staged package with 2FA: it is public under the dist-tag. *)
Approve(v, s) ==
    /\ <<v, s>> \in staged /\ npm[v] = 0
    /\ npm' = [npm EXCEPT ![v] = s] /\ distTag' = v
    /\ staged' = staged \ {<<v, s>>}
    /\ UNCHANGED <<branch, gitHead, github, clone, runs, outages, byHand>>

ShowGitHead(v) ==
    /\ npm[v] # 0 /\ ~gitHead[v]
    /\ gitHead' = [gitHead EXCEPT ![v] = TRUE]
    /\ UNCHANGED <<branch, npm, staged, distTag, github, clone, runs, outages, byHand>>

(* Somebody pushes a tag, or drafts a release, by hand. *)
ByHand(v, s) ==
    /\ byHand < MaxByHand /\ byHand' = byHand + 1
    /\ \/ tags[v] = 0 /\ tags' = [tags EXCEPT ![v] = s] /\ UNCHANGED ghRelease
       \/ ghRelease[v] = "none" /\ ghRelease' = [ghRelease EXCEPT ![v] = "draft"] /\ UNCHANGED tags
    /\ UNCHANGED <<branch, registry, clone, runs, outages>>

ReleaseNext ==
    \/ \E i \in RunIds :
          \/ Start(i) \/ Plan(i) \/ Stage(i) \/ CreateTag(i) \/ CreateGithubRelease(i)
          \/ VerifyRelease(i) \/ RunOutage(i) \/ Rerun(i)
          \/ \E read \in Reads : ReadPublic(i, read)
          \/ \E m \in Maintainers : DispatchRelease(m, i)
    \/ \E m \in Maintainers :
          \/ BumpPackageVersion(m) \/ CommitAndPush(m) \/ CheckHead(m) \/ CiTimeout(m)
          \/ PushFails(m) \/ CutOutage(m) \/ SyncClone(m)
          \/ \E v \in Releases, publish \in BOOLEAN : CutAudit(m, v, publish)
    \/ \E s \in Shas : \/ \E event \in {"push", "pr"} : CiSucceeds(s, event)
                       \/ \E v \in Releases : Approve(v, s) \/ ByHand(v, s)
    \/ \E v \in Releases : ShowGitHead(v)
    \/ OtherPush

ReleaseSpec == ReleaseInit /\ [][ReleaseNext]_releaseVars

(***************************************************************************)
(* Programs that run go on, the registry shows a gitHead in the end, GitHub *)
(* starts a waiting run sooner or later, and maintainers rerun runs, as    *)
(* MAINTAINERS.md asks them to.  Nobody has to cut, push or approve.       *)
(***************************************************************************)
ReleaseFairness ==
    /\ \A i \in RunIds :
          /\ WF_releaseVars(\/ Plan(i) \/ Stage(i) \/ CreateTag(i) \/ CreateGithubRelease(i)
                            \/ VerifyRelease(i) \/ \E read \in Reads : ReadPublic(i, read))
          /\ SF_releaseVars(Start(i)) /\ SF_releaseVars(Rerun(i))
    /\ \A v \in Releases : WF_releaseVars(ShowGitHead(v))

-----------------------------------------------------------------------------
RunStates == {"none", "queued", "reading", "planned", "verifying", "failed", "ended"}
NpmMutations == {"stage-npm", "create-tag", "create-github-release"}
ReleaseStates == {"none", "draft", "published"}
Snapshot == [npmHasVersion : BOOLEAN, npmGitHead : 0 .. MaxSha, distTags : Releases \cup {0},
             tagSha : 0 .. MaxSha, githubRelease : ReleaseStates, ciPush : BOOLEAN]

Clones == [head : Shas, dirty : BOOLEAN, version : Releases \cup {0}, publish : BOOLEAN,
           pc : {"idle", "bumping", "committing", "waiting", "dispatching"}]
Runs == [state : RunStates, version : Releases \cup {0}, sha : 0 .. MaxSha,
         expected : 0 .. MaxSha, dryRun : BOOLEAN, unread : SUBSET Reads, snapshot : Snapshot,
         mutations : SUBSET NpmMutations]

(* The state has the shape the code gives it. *)
ReleaseTypeOK ==
    /\ commits \in Shas /\ origin \subseteq Shas /\ head \in Shas
    /\ pkg \in [Shas -> Releases \cup {0}] /\ ci \in [Shas -> SUBSET {"push", "pr"}]
    /\ npm \in [Releases -> 0 .. MaxSha] /\ gitHead \in [Releases -> BOOLEAN]
    /\ staged \subseteq Releases \X Shas /\ distTag \in Releases \cup {0}
    /\ tags \in [Releases -> 0 .. MaxSha] /\ ghRelease \in [Releases -> ReleaseStates]
    /\ clone \in [Maintainers -> Clones] /\ runs \in [RunIds -> Runs]
    /\ outages \in Nat /\ byHand \in Nat

(***************************************************************************)
(* Only audited commits get out.  Whatever is staged or public was the     *)
(* commit a maintainer's cut named when it dispatched the run, carries the *)
(* version in its package.json, is on the release branch, and has its own  *)
(* successful CI run of the push: although the branch moves between every  *)
(* two steps of cut and run, and a pull request's CI satisfies the cut.    *)
(***************************************************************************)
Audited(v, s) ==
    /\ pkg[s] = v /\ s \in origin /\ "push" \in ci[s]
    /\ \E i \in RunIds : runs[i].state # "none" /\ runs[i].version = v /\ runs[i].expected = s
OnlyAuditedGetsOut ==
    /\ \A p \in staged : Audited(p[1], p[2])
    /\ \A v \in Releases : npm[v] # 0 => Audited(v, npm[v])

(***************************************************************************)
(* Runs, reruns, outages and interference by hand implement the ledger: a  *)
(* version is public once and for one commit, and the GitHub Release is    *)
(* made only for a public version whose tag names that very commit.        *)
(***************************************************************************)
Ledger == INSTANCE ReleaseLedger WITH
             public <- npm,
             tagged <- [v \in Releases |-> npm[v] # 0 /\ tags[v] = npm[v]],
             released <- [v \in Releases |-> ghRelease[v] = "published"]
ImplementsLedger == Ledger!LedgerSpec

(***************************************************************************)
(* An approved package is finalized: outages between its steps and the     *)
(* lag of the registry delay the tag and the GitHub Release and never lose *)
(* them, unless somebody made another tag or a draft by hand.              *)
(***************************************************************************)
ApprovedGetsFinalized ==
    \A v \in Releases :
        npm[v] # 0 ~> \/ ghRelease[v] # "none" \/ tags[v] \notin {0, npm[v]}
=============================================================================
