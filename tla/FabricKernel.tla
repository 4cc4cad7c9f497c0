---------------------------- MODULE FabricKernel ----------------------------
(***************************************************************************)
(* The Fabric task kernel (internal/sidecar/fabric): one task's event log, *)
(* its write lease, and the operations of Repo on them.                    *)
(*                                                                         *)
(* Repo.mu serialises the operations, so one operation runs at a time.     *)
(* Operations that write once are single actions.  The operations that     *)
(* write several times (BeginExecute, terminalExecute, the two handoffs,   *)
(* reconcile) run as programs in op, one durable write per step, because   *)
(* each write can be refused by the storage and the process can crash      *)
(* between any two of them.  An operation leaves its result in ret[caller].*)
(*                                                                         *)
(* A write that crashes is either absent or complete: a torn last line of  *)
(* the log, which makes All fail, is outside the model.  A write may be    *)
(* complete and still be answered with an error: Log.Append returns what   *)
(* f.Sync() says of the line it has written, atomicfile.Write what the     *)
(* directory's Sync() says of the rename it has made.                      *)
(***************************************************************************)
EXTENDS FabricLog

CONSTANTS Callers,     \* the goroutines that call Repo
          MaxRuns,     \* bound: execute runs started
          MaxHandoffs, \* bound: handoffs proposed
          MaxFaults    \* bound: refused writes, failed syncs and crashes

ASSUME BoundsAssumption == MaxRuns \in Nat /\ MaxHandoffs \in Nat /\ MaxFaults \in Nat

VARIABLES log,       \* the events of the task, as FabricLog folds them
          lease,     \* leaseState: owner and fencing token
          op,        \* the operation that holds Repo.mu, and where it is
          ret,       \* per caller, the result of its last call
          runs,      \* run ids handed out (newRunID)
          handoffs,  \* handoff ids handed out (newHandoffID, newChildID)
          faults,    \* refused writes, failed syncs and crashes so far
          unsynced   \* history: the writes that answered with an error after they
                     \* had been made (an append by its event's type)

kernelVars == <<log, lease, op, ret, runs, handoffs, faults, unsynced>>

Pcs == {"none", "started", "abandon", "child", "terminal", "release",
        "propose", "cas", "cas_failed", "commit", "child_start", "child_start_failed",
        "rollback", "child_interrupt", "interrupt"}

Kinds == {"none", "begin", "end", "to_child", "to_parent", "reconcile"}

(* The methods of Leases by which the kernel moves the lease. *)
LeaseWrites == {"CommitHandoff", "CommitHandoffFrom", "Release"}

Idle == [kind |-> "none", pc |-> "none", caller |-> "none", claim |-> NoClaim, type |-> "none",
         handoff |-> 0, to |-> NoOwner]

NoResult == [done |-> FALSE, ok |-> FALSE, claim |-> NoClaim]
Failed == [done |-> TRUE, ok |-> FALSE, claim |-> NoClaim]
Done(claim) == [done |-> TRUE, ok |-> TRUE, claim |-> claim]

KernelTypeOK ==
    /\ log \in Log
    /\ lease \in [owner: Owner, fence: Nat]
    /\ op \in [kind: Kinds, pc: Pcs, caller: Callers \cup {"none"}, claim: Claim,
               type: EventTypes \cup {"none"}, handoff: Nat, to: Owner]
    /\ ret \in [Callers -> [done: BOOLEAN, ok: BOOLEAN, claim: Claim]]
    /\ runs \in 0..MaxRuns
    /\ handoffs \in 0..MaxHandoffs
    /\ faults \in 0..MaxFaults
    /\ unsynced \subseteq EventTypes \cup LeaseWrites

KernelInit ==
    /\ log = EmptyLog
    /\ lease = [owner |-> NoOwner, fence |-> 0]
    /\ op = Idle
    /\ ret = [c \in Callers |-> NoResult]
    /\ runs = 0
    /\ handoffs = 0
    /\ faults = 0
    /\ unsynced = {}

-----------------------------------------------------------------------------
(* Mutant: the owner is compared and the fencing token is not. *)
HoldsByOwner(claim) == claim.owner = lease.owner

(***************************************************************************)
(* Building blocks.  Holds is CheckOwnerAndFence.                          *)
(***************************************************************************)
Holds(claim) == claim.owner = lease.owner /\ claim.fence = lease.fence

Return(c, result) == op' = Idle /\ ret' = [ret EXCEPT ![c] = result]
Goto(pc) == op' = [op EXCEPT !.pc = pc] /\ UNCHANGED ret

(* The storage answers a durable write with an error. *)
Refused == faults < MaxFaults /\ faults' = faults + 1

(***************************************************************************)
(* appendLocked: the event is appended, or refused by capacity or storage, *)
(* or appended and the caller told of an error (the Sync after the write). *)
(***************************************************************************)
TryAppend(e, Then, Else) ==
    \/ /\ Admits(log, e.type) /\ log' = AppendEvent(log, e)
       /\ UNCHANGED <<faults, unsynced>> /\ Then
    \/ ~Admits(log, e.type) /\ UNCHANGED <<log, faults, unsynced>> /\ Else
    \/ Admits(log, e.type) /\ Refused /\ UNCHANGED <<log, unsynced>> /\ Else
    \/ /\ Admits(log, e.type) /\ Refused /\ log' = AppendEvent(log, e)
       /\ unsynced' = unsynced \cup {e.type} /\ Else

(* Mutant: a new owner under the old token. *)
TryLeaseSameToken(write, owner, Then, Else) ==
    \/ /\ lease' = [lease EXCEPT !.owner = owner]
       /\ UNCHANGED <<faults, unsynced>> /\ Then
    \/ Refused /\ UNCHANGED <<lease, unsynced>> /\ Else

(* Leases.atomicWrite: done, refused, or done and reported as failed. *)
TryLease(write, owner, Then, Else) ==
    LET moved == [owner |-> owner, fence |-> lease.fence + 1]
    IN  \/ lease' = moved /\ UNCHANGED <<faults, unsynced>> /\ Then
        \/ Refused /\ UNCHANGED <<lease, unsynced>> /\ Else
        \/ Refused /\ lease' = moved /\ unsynced' = unsynced \cup {write} /\ Else

(* A call that holds Repo.mu for one append and returns. *)
AppendCall(c, e) ==
    /\ TryAppend(e, Return(c, Done(NoClaim)), Return(c, Failed))
    /\ UNCHANGED <<lease, runs, handoffs>>

(* A call the kernel turns down without writing anything. *)
Reject(c) == Return(c, Failed) /\ UNCHANGED <<log, lease, runs, handoffs, faults, unsynced>>

(* A call that finds its work already done. *)
Already(c) == Return(c, Done(NoClaim)) /\ UNCHANGED <<log, lease, runs, handoffs, faults, unsynced>>

(* A call that starts a program. *)
Begin(c, kind, pc, claim, type, to) ==
    /\ op' = [kind |-> kind, pc |-> pc, caller |-> c, claim |-> claim,
              type |-> type, handoff |-> 0, to |-> to]
    /\ ret' = [ret EXCEPT ![c] = NoResult]

Step(kind, pc) == op.kind = kind /\ op.pc = pc

-----------------------------------------------------------------------------
(***************************************************************************)
(* Operations that write once.                                             *)
(***************************************************************************)
Create(c) ==
    /\ op = Idle /\ Total(log) = 0
    /\ AppendCall(c, Plain("TaskCreated"))

(* Mutant: no look for an active run. *)
CanStartOver == Readable(log) /\ ~log.removed /\ ~log.terminal

CanStart == Readable(log) /\ ~log.removed /\ ~log.terminal /\ ~Active(log)

(* startRunLocked, for MarkStarted (kind "mark") and StartRun ("session"). *)
StartRun(c, kind, p) ==
    /\ op = Idle
    /\ IF CanStart THEN AppendCall(c, RunEvent("RunStarted", kind, 0, Primary(p), 0))
                   ELSE Reject(c)

(* completeRunLocked (MarkClosed, CompleteRun) and FailRun: no fencing. *)
CloseRun(c, type) ==
    /\ op = Idle
    /\ IF Readable(log) /\ ~log.removed /\ Active(log)
       THEN AppendCall(c, Plain(type)) ELSE Reject(c)

(* checkIdentity against the projection. *)
MatchesProjection(id) == id.owner = log.owner /\ id.fence = log.fence

(* removeLocked; Delete passes no identity, RemoveTask one that must match. *)
Remove(c, identified, id) ==
    /\ op = Idle
    /\ CASE ~Readable(log) -> Reject(c)
         [] Readable(log) /\ log.removed -> Already(c)
         [] OTHER -> IF (identified => MatchesProjection(id)) /\ ~Active(log)
                     THEN AppendCall(c, Plain("TaskRemoved")) ELSE Reject(c)

(* appendLifecycle, for CompleteTask and for CancelTask without a fenced run. *)
AppendLifecycle(c, type, id) ==
    /\ op = Idle
    /\ IF CanStart /\ MatchesProjection(id) THEN AppendCall(c, Plain(type)) ELSE Reject(c)

RecordProgress(c, claim) ==
    /\ op = Idle
    /\ IF Readable(log) /\ Active(log) /\ Holds(claim)
       THEN AppendCall(c, RunEvent("RunProgress", "none", claim.run, claim.owner, claim.fence))
       ELSE Reject(c)

(***************************************************************************)
(* The initial-input marks.  Each is a function of the latest such event:  *)
(* from which states it appends, and from which it reports a repetition.   *)
(***************************************************************************)
InputFrom == [InitialInputReserved |-> {"none", "abandoned"},
              InitialInputSent |-> {"none", "reserved", "uncertain", "abandoned"},
              InitialInputUncertain |-> {"none", "reserved", "sent", "uncertain", "abandoned"},
              InitialInputAbandoned |-> {"reserved", "uncertain"}]

InputRepeats == [InitialInputReserved |-> {"reserved"}, InitialInputSent |-> {"sent"},
                 InitialInputUncertain |-> {}, InitialInputAbandoned |-> {"abandoned"}]

InitialInput(c, type, id) ==
    LET allowed == /\ Readable(log)
                   /\ type = "InitialInputAbandoned" => MatchesProjection(id)
    IN  /\ op = Idle
        /\ CASE allowed /\ log.input \in InputFrom[type] -> AppendCall(c, Plain(type))
             [] allowed /\ log.input \in InputRepeats[type] -> Already(c)
             [] OTHER -> Reject(c)

-----------------------------------------------------------------------------
(***************************************************************************)
(* BeginExecute: bump the lease, then append RunStarted; when the append   *)
(* is refused the lease is released again, best effort.                    *)
(***************************************************************************)
BeginExecute(c, p) ==
    /\ op = Idle
    /\ IF CanStart
       THEN /\ runs < MaxRuns
            /\ TryLease("CommitHandoff", Primary(p),
                  /\ runs' = runs + 1
                  /\ Begin(c, "begin", "started",
                           [run |-> runs + 1, owner |-> Primary(p),
                            fence |-> lease.fence + 1], "RunStarted", NoOwner),
                  Return(c, Failed) /\ UNCHANGED runs)
            /\ UNCHANGED <<log, handoffs>>
       ELSE Reject(c)

RunStarted ==
    /\ Step("begin", "started")
    /\ TryAppend(RunEvent("RunStarted", "execute", op.claim.run, op.claim.owner,
                          op.claim.fence),
                 Return(op.caller, Done(op.claim)),
                 Goto("abandon"))
    /\ UNCHANGED <<lease, runs, handoffs>>

AbandonBegin ==
    /\ Step("begin", "abandon")
    /\ TryLease("Release", NoOwner, Return(op.caller, Failed), Return(op.caller, Failed))
    /\ UNCHANGED <<log, runs, handoffs>>

-----------------------------------------------------------------------------
(* Mutant: no CheckOwnerAndFence. *)
MayEndUnfenced(claim) ==
    /\ Readable(log) /\ ~log.removed /\ Active(log)
    /\ log.run.id # 0 /\ claim.run # 0 => log.run.id = claim.run

(***************************************************************************)
(* terminalExecute: a terminal under an exact claim; an open child is      *)
(* closed first; the lease is released only after the terminal persisted.  *)
(***************************************************************************)
MayEnd(claim) ==
    /\ Readable(log) /\ ~log.removed /\ Active(log)
    /\ log.run.id # 0 /\ claim.run # 0 => log.run.id = claim.run
    /\ Holds(claim)

TerminalExecute(c, claim, type) ==
    /\ op = Idle
    /\ IF MayEnd(claim)
       THEN /\ Begin(c, "end", IF log.child.id # 0 THEN "child" ELSE "terminal",
                     claim, type, NoOwner)
            /\ UNCHANGED <<log, lease, runs, handoffs, faults, unsynced>>
       ELSE Reject(c)

ChildTerminalFor == [RunCompleted |-> "ChildRunCompleted", RunFailed |-> "ChildRunFailed",
                     RunCancelled |-> "ChildRunCancelled",
                     RunInterrupted |-> "ChildRunInterrupted"]

EndChild ==
    /\ Step("end", "child")
    /\ TryAppend(ChildEvent(ChildTerminalFor[op.type], log.child, op.claim.owner,
                            op.claim.fence),
                 Goto("terminal"),
                 Return(op.caller, Failed))
    /\ UNCHANGED <<lease, runs, handoffs>>

EndRun ==
    /\ Step("end", "terminal")
    /\ TryAppend(RunEvent(op.type, "execute", op.claim.run, op.claim.owner, op.claim.fence),
                 Goto("release"),
                 Return(op.caller, Failed))
    /\ UNCHANGED <<lease, runs, handoffs>>

(* Release is best effort: the terminal is durable either way. *)
EndRelease ==
    /\ op.kind \in {"end", "reconcile"} /\ op.pc = "release"
    /\ TryLease("Release", NoOwner, Return(op.caller, Done(NoClaim)), Return(op.caller, Done(NoClaim)))
    /\ UNCHANGED <<log, runs, handoffs>>

-----------------------------------------------------------------------------
(***************************************************************************)
(* BeginChildHandoff: HandoffProposed, CAS N -> N+1, HandoffCommitted,     *)
(* ChildRunStarted.  The check that the CAS returned the proposed fence    *)
(* cannot fail: the fence was read under the same lock.                    *)
(***************************************************************************)
MayDelegate(claim) ==
    /\ Readable(log) /\ ~log.removed /\ ActiveExecute(log)
    /\ claim.run = log.run.id
    /\ claim.run \notin log.parents
    /\ Holds(claim)
    /\ AdmitsChildHandoff(log)

BeginChildHandoff(c, claim) ==
    /\ op = Idle
    /\ IF MayDelegate(claim)
       THEN /\ handoffs < MaxHandoffs
            /\ handoffs' = handoffs + 1
            /\ op' = [kind |-> "to_child", pc |-> "propose", caller |-> c, claim |-> claim,
                      type |-> "none", handoff |-> handoffs + 1,
                      to |-> ChildOwner(handoffs + 1)]
            /\ ret' = [ret EXCEPT ![c] = NoResult]
            /\ UNCHANGED <<log, lease, runs, faults, unsynced>>
       ELSE Reject(c)

Transfer(type, dir) ==
    HandoffEvent(type, dir, op.claim.run, op.handoff, op.claim.owner, op.to,
                 op.claim.fence + 1)

Direction == IF op.kind = "to_child" THEN ToChild ELSE ToParent

(* The claim the new owner holds once the transfer is complete. *)
Transferred == [run |-> op.claim.run, owner |-> op.to, fence |-> op.claim.fence + 1]

(* Mutant: the commit is recorded without the compare-and-swap. *)
ProposeThenCommit ==
    /\ op.kind \in {"to_child", "to_parent"} /\ op.pc = "propose"
    /\ TryAppend(Transfer("HandoffProposed", Direction),
                 Goto("commit"),
                 Return(op.caller, Failed))
    /\ UNCHANGED <<lease, runs, handoffs>>

ProposeHandoff ==
    /\ op.kind \in {"to_child", "to_parent"} /\ op.pc = "propose"
    /\ TryAppend(Transfer("HandoffProposed", Direction),
                 Goto("cas"),
                 Return(op.caller, Failed))
    /\ UNCHANGED <<lease, runs, handoffs>>

(* CommitHandoffFrom: its compare is on the lease checked under this lock. *)
CommitHandoffFrom ==
    /\ op.pc = "cas"
    /\ Holds(op.claim)
    /\ TryLease("CommitHandoffFrom", op.to, Goto("commit"), Goto("cas_failed"))
    /\ UNCHANGED <<log, runs, handoffs>>

HandoffFailed ==
    /\ op.pc \in {"cas_failed", "child_start_failed"}
    /\ TryAppend(Transfer("HandoffFailed", Direction),
                 Return(op.caller, Failed),
                 Return(op.caller, Failed))
    /\ UNCHANGED <<lease, runs, handoffs>>

(* On a refused commit the proposal stays open: no rollback of the lease. *)
HandoffCommitted ==
    /\ op.pc = "commit"
    /\ TryAppend(Transfer("HandoffCommitted", Direction),
                 IF op.kind = "to_child" THEN Goto("child_start")
                                         ELSE Return(op.caller, Done(Transferred)),
                 Return(op.caller, Failed))
    /\ UNCHANGED <<lease, runs, handoffs>>

ChildRunStarted ==
    /\ op.pc = "child_start"
    /\ TryAppend(HandoffEvent("ChildRunStarted", "none", op.claim.run, op.handoff,
                              NoOwner, op.to, op.claim.fence + 1),
                 Return(op.caller, Done(Transferred)),
                 Goto("child_start_failed"))
    /\ UNCHANGED <<lease, runs, handoffs>>

-----------------------------------------------------------------------------
(***************************************************************************)
(* terminalChildHandoff: the child's terminal, then the return handoff     *)
(* N+1 -> N+2 to the owner of the primary run.                             *)
(***************************************************************************)
MayReturn(claim, type) ==
    /\ Readable(log) /\ ~log.removed
    /\ log.child.id # 0 /\ log.child.run = claim.run
    /\ log.child.owner = claim.owner /\ log.child.fence = claim.fence
    /\ Holds(claim)
    /\ AdmitsChildReturn(log, type)

TerminalChildHandoff(c, claim, p, type) ==
    /\ op = Idle
    /\ IF MayReturn(claim, type)
       THEN /\ handoffs < MaxHandoffs
            /\ handoffs' = handoffs + 1
            /\ op' = [kind |-> "to_parent", pc |-> "child", caller |-> c, claim |-> claim,
                      type |-> type, handoff |-> handoffs + 1, to |-> Primary(p)]
            /\ ret' = [ret EXCEPT ![c] = NoResult]
            /\ UNCHANGED <<log, lease, runs, faults, unsynced>>
       ELSE Reject(c)

ReturnChild ==
    /\ Step("to_parent", "child")
    /\ TryAppend(ChildEvent(op.type, log.child, log.child.owner, log.child.fence),
                 Goto("propose"),
                 Return(op.caller, Failed))
    /\ UNCHANGED <<lease, runs, handoffs>>

-----------------------------------------------------------------------------
(* Mutant: the run that is not named (RecoverOrphans) matches none. *)
MayReconcileNamed(run) ==
    /\ Readable(log) /\ ~log.removed /\ ActiveExecute(log)
    /\ run = log.run.id
    /\ RecoverAuthorityClaim(log, lease)

(***************************************************************************)
(* reconcileExecuteInterruptedLocked: claim what the lease and the log     *)
(* agree on, close the open proposal and the open child, interrupt the     *)
(* run, release the lease.  run = 0 reconciles whichever run is active.    *)
(***************************************************************************)
MayReconcile(run) ==
    /\ Readable(log) /\ ~log.removed /\ ActiveExecute(log)
    /\ run # 0 => run = log.run.id
    /\ RecoverAuthorityClaim(log, lease)

AfterRollback == IF log.child.id # 0 THEN "child_interrupt" ELSE "interrupt"

(* Mutant: the open proposal is not closed. *)
ReconcileNoRollback(c, run) ==
    /\ op = Idle
    /\ IF MayReconcile(run)
       THEN /\ Begin(c, "reconcile", AfterRollback,
                     [run |-> log.run.id, owner |-> lease.owner, fence |-> lease.fence],
                     "RunInterrupted", NoOwner)
            /\ UNCHANGED <<log, lease, runs, handoffs, faults, unsynced>>
       ELSE Reject(c)

Reconcile(c, run) ==
    /\ op = Idle
    /\ IF MayReconcile(run)
       THEN /\ Begin(c, "reconcile",
                     IF log.prop.handoff # 0 THEN "rollback" ELSE AfterRollback,
                     [run |-> log.run.id, owner |-> lease.owner, fence |-> lease.fence],
                     "RunInterrupted", NoOwner)
            /\ UNCHANGED <<log, lease, runs, handoffs, faults, unsynced>>
       ELSE Reject(c)

ReconcileRollback ==
    /\ Step("reconcile", "rollback")
    /\ TryAppend(HandoffEvent("HandoffRolledBack", "none", op.claim.run,
                              log.prop.handoff, NoOwner, NoOwner, op.claim.fence),
                 Goto(AfterRollback),
                 Return(op.caller, Failed))
    /\ UNCHANGED <<lease, runs, handoffs>>

ReconcileChild ==
    /\ Step("reconcile", "child_interrupt")
    /\ TryAppend(ChildEvent("ChildRunInterrupted", log.child, log.child.owner,
                            log.child.fence),
                 Goto("interrupt"),
                 Return(op.caller, Failed))
    /\ UNCHANGED <<lease, runs, handoffs>>

ReconcileRun ==
    /\ Step("reconcile", "interrupt")
    /\ TryAppend(RunEvent("RunInterrupted", "execute", op.claim.run, op.claim.owner,
                          op.claim.fence),
                 Goto("release"),
                 Return(op.caller, Failed))
    /\ UNCHANGED <<lease, runs, handoffs>>

-----------------------------------------------------------------------------
(* A step of the program that holds Repo.mu. *)
KernelStep ==
    \/ RunStarted \/ AbandonBegin
    \/ EndChild \/ EndRun \/ EndRelease
    \/ ProposeHandoff \/ CommitHandoffFrom \/ HandoffFailed \/ HandoffCommitted
    \/ ChildRunStarted
    \/ ReturnChild
    \/ ReconcileRollback \/ ReconcileChild \/ ReconcileRun

(* The process dies: the program and its callers are gone, the files stay. *)
KernelCrash ==
    /\ Refused
    /\ op' = Idle
    /\ ret' = [c \in Callers |-> NoResult]
    /\ UNCHANGED <<log, lease, runs, handoffs, unsynced>>
=============================================================================
