---------------------------- MODULE FabricClients ----------------------------
(***************************************************************************)
(* The Fabric kernel under every order of calls its exported operations    *)
(* allow: an API caller that may present any claim ever handed out, a      *)
(* canceller (CancelTask reads the log, gives the lock up, and only then   *)
(* cancels), restarts, and RecoverOrphans, which runs once per process     *)
(* before anything else (ensureRecovered).                                 *)
(***************************************************************************)
EXTENDS FabricKernel

CONSTANT Ops  \* which operations the callers of an instance use

AllOps == {"mark", "session", "close", "fail_run", "remove", "lifecycle", "progress",
           "input", "begin", "end", "to_child", "to_parent", "reconcile", "cancel"}

ASSUME OpsAssumption == Ops \subseteq AllOps
ASSUME CallersAssumption == {"api", "cancel", "boot"} \subseteq Callers

VARIABLES issued,   \* every claim an operation has returned
          snapshot, \* what CancelTask read before it gave Repo.mu up
          booted    \* recoverOnce has run in this process

vars == <<kernelVars, issued, snapshot, booted>>

NoSnapshot == [pending |-> FALSE, claim |-> NoClaim]

TypeOK ==
    /\ KernelTypeOK
    /\ issued \subseteq Claim
    /\ snapshot \in [pending: BOOLEAN, claim: Claim]
    /\ booted \in BOOLEAN

Init ==
    /\ KernelInit
    /\ issued = {}
    /\ snapshot = NoSnapshot
    /\ booted = FALSE

(* The claims an API caller may present: any it was given, or none. *)
Presented == issued \cup {NoClaim}

ApiCall ==
    /\ booted
    /\ \/ Create("api")
       \/ \E p \in PrimaryOwners :
             \/ "mark" \in Ops /\ StartRun("api", "mark", p)
             \/ "session" \in Ops /\ StartRun("api", "session", p)
             \/ "begin" \in Ops /\ BeginExecute("api", p)
       \/ "close" \in Ops /\ CloseRun("api", "RunCompleted")
       \/ "fail_run" \in Ops /\ CloseRun("api", "RunFailed")
       \/ "remove" \in Ops /\ (Remove("api", FALSE, NoClaim)
                               \/ \E k \in Presented : Remove("api", TRUE, k))
       \/ \E k \in Presented :
             \/ "lifecycle" \in Ops /\ AppendLifecycle("api", "TaskCompleted", k)
             \/ "progress" \in Ops /\ RecordProgress("api", k)
             \/ \E t \in InputEvents : "input" \in Ops /\ InitialInput("api", t, k)
             \/ \E t \in RunTerminals : "end" \in Ops /\ TerminalExecute("api", k, t)
             \/ "to_child" \in Ops /\ BeginChildHandoff("api", k)
             \/ \E t \in ChildTerminals, p \in PrimaryOwners :
                   "to_parent" \in Ops /\ TerminalChildHandoff("api", k, p, t)
             \/ "reconcile" \in Ops /\ k.run # 0 /\ Reconcile("api", k.run)
    /\ UNCHANGED <<snapshot, booted>>

(* CancelTask, first half: read the log under the lock and release it. *)
CancelRead ==
    /\ "cancel" \in Ops /\ booted /\ op = Idle /\ ~snapshot.pending
    /\ Readable(log) /\ Active(log) /\ log.run.id # 0
    /\ snapshot' = [pending |-> TRUE, claim |-> CancelClaim(log)]
    /\ UNCHANGED <<kernelVars, booted>>

(* Second half: CancelExecute with the claim read before. *)
CancelWrite ==
    /\ snapshot.pending
    /\ TerminalExecute("cancel", snapshot.claim, "RunCancelled")
    /\ snapshot' = NoSnapshot
    /\ UNCHANGED booted

(* CancelTask when it read no fenced run: appendLifecycle checks again. *)
CancelLifecycle ==
    /\ "cancel" \in Ops /\ booted /\ ~snapshot.pending
    /\ \E k \in Presented : AppendLifecycle("cancel", "TaskCancelled", k)
    /\ UNCHANGED <<snapshot, booted>>

(* ensureRecovered: RecoverOrphans, its error ignored, once per process. *)
RecoverOrphans ==
    /\ ~booted /\ ~ret["boot"].done
    /\ Reconcile("boot", 0)
    /\ UNCHANGED <<snapshot, booted>>

Recovered ==
    /\ ~booted /\ ret["boot"].done
    /\ booted' = TRUE
    /\ UNCHANGED <<kernelVars, snapshot>>

Work == KernelStep /\ UNCHANGED <<snapshot, booted>>

Crash ==
    /\ KernelCrash
    /\ snapshot' = NoSnapshot
    /\ booted' = FALSE

(* What the callers get to know. *)
Record ==
    issued' = issued \cup {ret'[c].claim : c \in {d \in Callers : ret'[d].ok
                                                  /\ ret'[d].claim # NoClaim}}

(* The sequential code that runs without waiting for any caller. *)
Progress == (Work \/ RecoverOrphans \/ Recovered) /\ Record

Requests == (ApiCall \/ CancelRead \/ CancelWrite \/ CancelLifecycle \/ Crash) /\ Record

Next == Progress \/ Requests

Spec == Init /\ [][Next]_vars

(***************************************************************************)
(* Fairness: an operation that holds Repo.mu runs to its end, and a process *)
(* that started recovers before it serves: neither waits for anyone.       *)
(***************************************************************************)
LiveSpec == Spec /\ WF_vars(Progress)

-----------------------------------------------------------------------------
(***************************************************************************)
(* A fenced run that is active can be taken over: whatever write was       *)
(* refused and wherever the process died, the lease is one that            *)
(* recoverAuthorityClaim finds an explanation for in the log ("half-commits *)
(* are left recoverable from event history + lease", handoff.go).  Two     *)
(* writes are outside, where the code does not keep this when they are     *)
(* made and answered with an error: RunStarted, whose error path releases  *)
(* the lease under the run (execute.go:93), and the CAS of a handoff,      *)
(* whose error path closes the proposal that explains the new lease        *)
(* (handoff.go:109).  Every other write may fail after it was made.        *)
(***************************************************************************)
HalfCommitsRecoverable ==
    unsynced \cap {"RunStarted", "CommitHandoffFrom"} = {} =>
        (op = Idle /\ ActiveExecute(log) /\ log.valid => RecoverAuthorityClaim(log, lease))

(***************************************************************************)
(* No sequence of calls, refusals and crashes makes the kernel write a log *)
(* that its own validateHandoffFenceProgression refuses to rebuild, which  *)
(* would make the task unreadable for good.  A HandoffProposed written and *)
(* answered with an error is outside: its caller keeps a valid claim, and  *)
(* with it the code proposes again over the open proposal (handoff.go:102).*)
(***************************************************************************)
LogStaysReadable == "HandoffProposed" \notin unsynced => log.valid

(***************************************************************************)
(* The log never runs ahead of the lease: a fence that an event records    *)
(* was reached by the lease first, so no reader of the log can obtain a    *)
(* claim from the future; and an open proposal is at most one ahead.       *)
(***************************************************************************)
LogBehindLease ==
    /\ log.fence <= lease.fence
    /\ log.run.fence <= lease.fence
    /\ log.child.fence <= lease.fence
    /\ log.commit.fence <= lease.fence
    /\ log.prop.next <= lease.fence + 1

(***************************************************************************)
(* Authority is exclusive: of all the claims ever handed out, to primary   *)
(* runs and to children, at most one passes CheckOwnerAndFence.            *)
(***************************************************************************)
OneAuthority ==
    \A j, k \in issued : Holds(j) /\ Holds(k) => j = k

(***************************************************************************)
(* A claim ends no fenced run but its own: whatever was cancelled,         *)
(* interrupted or restarted between handing a claim out (or CancelTask     *)
(* reading it) and its use, the terminal it writes is that of the run it   *)
(* was issued for.  A run of MarkStarted or StartRun has no id to compare; *)
(* a claim of an earlier run can end one, but only once something failed   *)
(* (a Release that was lost leaves that claim the lease): no order of      *)
(* calls alone does it.                                                    *)
(***************************************************************************)
ClaimEndsOwnRun ==
    op.kind = "end" /\ op.pc \in {"child", "terminal"}
        => \/ op.claim.run = log.run.id
           \/ log.run.id = 0 /\ faults > 0

(***************************************************************************)
(* The kernel implements FabricAuthority under any interleaving of calls,  *)
(* refusals and crashes: BeginExecute and the handoffs move the lease in   *)
(* one step and record it in another, recovery writes on behalf of owners  *)
(* it never spoke to.  Still the token only grows, no start and no commit  *)
(* names one the lease has not or has no longer, and no run starts behind  *)
(* a check that went stale.                                                *)
(***************************************************************************)
Authority == INSTANCE FabricAuthority WITH
                token <- lease.fence,
                holder <- lease.owner,
                acknowledged <- log.check.fence,
                current <- IF Active(log) THEN log.run ELSE NoRun,
                over <- log.terminal
ImplementsAuthority == Authority!AuthoritySpec

(***************************************************************************)
(* A run never starts over another, whichever of BeginExecute, MarkStarted *)
(* and StartRun asks, and once the task is terminal nothing starts any     *)
(* more: a BeginExecute that checked, moved the lease and only then        *)
(* appends RunStarted included.                                            *)
(***************************************************************************)
RunsAreSequential ==
    [][Active(log') /\ log'.run # log.run => ~Active(log) /\ ~log.terminal]_vars

(***************************************************************************)
(* RecoverOrphans converges: a fenced run that a crash left active is      *)
(* closed once the next process has started.                               *)
(***************************************************************************)
RecoveryConverges ==
    ~booted /\ ActiveExecute(log) ~> ~ActiveExecute(log)
=============================================================================
