------------------------------ MODULE FabricLog ------------------------------
(***************************************************************************)
(* The append-only event log of one Fabric task (internal/sidecar/fabric). *)
(*                                                                         *)
(* Every question the kernel asks of a log is a left fold over its events: *)
(* the projection (Rebuild/apply), the active run, the active child, the   *)
(* open handoff proposal, the latest committed handoff, the event counts   *)
(* and the verdict of validateHandoffFenceProgression.  A log is therefore *)
(* represented by the record of those accumulators, and appending an event *)
(* is one step of all the folds at once.                                   *)
(*                                                                         *)
(* Identifiers are numbers in order of creation (0: none).  An owner is a  *)
(* pair: <<name, 0>> for the owner of a primary run, <<"child", h>> for    *)
(* the child of handoff h (childOwnerPrefix + childID), and NoOwner for   *)
(* the empty string.                                                       *)
(***************************************************************************)
EXTENDS Naturals

CONSTANTS PrimaryOwners,  \* names a primary run may be started under
          MaxOrdinary,    \* maxOrdinaryEventsPerTask
          Reserve         \* lifecycleEventReserve

ASSUME OwnersAssumption == "child" \notin PrimaryOwners /\ "none" \notin PrimaryOwners
ASSUME CapacityAssumption == MaxOrdinary \in Nat /\ Reserve \in Nat

NoOwner == <<"none", 0>>
Primary(p) == <<p, 0>>
ChildOwner(h) == <<"child", h>>
Owner == (PrimaryOwners \cup {"none", "child"}) \X Nat

ToChild  == "parent_to_child"
ToParent == "child_to_parent"

RunTerminals   == {"RunCompleted", "RunFailed", "RunCancelled", "RunInterrupted"}
ChildTerminals == {"ChildRunCompleted", "ChildRunFailed", "ChildRunCancelled",
                   "ChildRunInterrupted"}
HandoffEvents  == {"HandoffProposed", "HandoffCommitted", "HandoffRolledBack",
                   "HandoffFailed"}
TaskTerminals  == {"TaskCompleted", "TaskCancelled", "TaskRemoved"}
InputEvents    == {"InitialInputReserved", "InitialInputSent",
                   "InitialInputUncertain", "InitialInputAbandoned"}

(* isLifecycleControlEvent: the events the reserve is kept for. *)
ControlEvents == RunTerminals \cup ChildTerminals \cup HandoffEvents \cup TaskTerminals
OrdinaryEvents == {"TaskCreated", "RunStarted", "RunProgress", "ChildRunStarted"}
                      \cup InputEvents
EventTypes == ControlEvents \cup OrdinaryEvents

(***************************************************************************)
(* Events.  kind is "execute" for the fenced run of BeginExecute, "mark"   *)
(* for the operator marks of MarkStarted/MarkClosed, "session" for those   *)
(* of StartRun/CompleteRun, and the direction of a handoff event.  For a   *)
(* proposal, owner and fence are to_owner and proposed_fence, and          *)
(* previous_fence is fence - 1.                                            *)
(***************************************************************************)
Event == [type: EventTypes, kind: {"none", "execute", "mark", "session", ToChild, ToParent},
          run: Nat, owner: Owner, fence: Nat, handoff: Nat, from: Owner]

Plain(type) ==
    [type |-> type, kind |-> "none", run |-> 0, owner |-> NoOwner, fence |-> 0,
     handoff |-> 0, from |-> NoOwner]

RunEvent(type, kind, run, owner, fence) ==
    [type |-> type, kind |-> kind, run |-> run, owner |-> owner, fence |-> fence,
     handoff |-> 0, from |-> NoOwner]

HandoffEvent(type, dir, run, handoff, from, to, fence) ==
    [type |-> type, kind |-> dir, run |-> run, owner |-> to, fence |-> fence,
     handoff |-> handoff, from |-> from]

ChildEvent(type, child, owner, fence) ==
    [type |-> type, kind |-> "none", run |-> child.run, owner |-> owner,
     fence |-> fence, handoff |-> child.id, from |-> NoOwner]

-----------------------------------------------------------------------------
(***************************************************************************)
(* The accumulators.                                                       *)
(*   run     activeRunIdentity; kind "execute" iff activeExecuteRunIdentity *)
(*   child   activeChildRunIdentity (id 0: no open child)                  *)
(*   prop    openHandoffProposal / openProposedMatchingLease (handoff 0:   *)
(*           none is open); also validateHandoffFenceProgression's openProp *)
(*   commit  latestHandoffCommittedClaim, over the whole history           *)
(*   parents the runs hasPriorChildRunStarted answers true for             *)
(*   owner, fence, terminal, removed   the Projection                      *)
(*   check, valid   the locals of validateHandoffFenceProgression          *)
(*           and its verdict; Rebuild fails for good once it is negative   *)
(***************************************************************************)
NoRun   == [kind |-> "none", id |-> 0, owner |-> NoOwner, fence |-> 0]
NoChild == [id |-> 0, run |-> 0, owner |-> NoOwner, fence |-> 0]
NoProp  == [handoff |-> 0, dir |-> "none", from |-> NoOwner, to |-> NoOwner, next |-> 0]
NoCheck == [run |-> 0, fence |-> 0, child |-> 0, last |-> 0, dir |-> "none"]
NoClaim == [run |-> 0, owner |-> NoOwner, fence |-> 0]

Claim == [run: Nat, owner: Owner, fence: Nat]

Log == [ordinary: Nat, control: Nat,
        state: {"none", "running", "completed", "failed", "cancelled", "interrupted"},
        run: [kind: {"none", "execute", "mark", "session"}, id: Nat, owner: Owner, fence: Nat],
        child: [id: Nat, run: Nat, owner: Owner, fence: Nat],
        prop: [handoff: Nat, dir: {"none", ToChild, ToParent}, from: Owner, to: Owner,
               next: Nat],
        commit: Claim, parents: SUBSET Nat,
        owner: Owner, fence: Nat, terminal: BOOLEAN, removed: BOOLEAN,
        check: [run: Nat, fence: Nat, child: Nat, last: Nat, dir: {"none", ToChild, ToParent}],
        valid: BOOLEAN, input: {"none", "reserved", "sent", "uncertain", "abandoned"}]

EmptyLog ==
    [ordinary |-> 0, control |-> 0, state |-> "none", run |-> NoRun, child |-> NoChild,
     prop |-> NoProp, commit |-> NoClaim, parents |-> {}, owner |-> NoOwner,
     fence |-> 0, terminal |-> FALSE, removed |-> FALSE, check |-> NoCheck,
     valid |-> TRUE, input |-> "none"]

Total(l) == l.ordinary + l.control

(* hasActivePrimaryRun over derivePrimaryRunState. *)
Active(l) == l.state = "running"
ActiveExecute(l) == Active(l) /\ l.run.kind = "execute"

(* getLocked: the task exists and its log rebuilds. *)
Readable(l) == Total(l) > 0 /\ l.valid

(***************************************************************************)
(* checkEventCapacity.  Its branch for ordinary > MaxOrdinary needs a log  *)
(* that the same check would not have admitted, and is never taken.        *)
(***************************************************************************)
Admits(l, type) ==
    IF type \in ControlEvents THEN Total(l) < MaxOrdinary + Reserve
                              ELSE l.ordinary < MaxOrdinary

(* The probes of the admission checks: k control and o ordinary events on. *)
Grown(l, o, k) == [l EXCEPT !.ordinary = @ + o, !.control = @ + k]

(***************************************************************************)
(* checkChildHandoffAdmissionCapacity: the whole exchange must fit, in     *)
(* order: Proposed, Committed, ChildRunStarted, RunProgress, the child's   *)
(* terminal, Proposed, Committed, the primary's terminal.  The failure     *)
(* probes (D, E) need three control events, fewer than these.              *)
(***************************************************************************)
AdmitsChildHandoff(l) ==
    /\ Admits(l, "HandoffProposed")
    /\ Admits(Grown(l, 0, 1), "HandoffCommitted")
    /\ Admits(Grown(l, 0, 2), "ChildRunStarted")
    /\ Admits(Grown(l, 1, 2), "RunProgress")
    /\ Admits(Grown(l, 2, 2), "ChildRunCompleted")
    /\ Admits(Grown(l, 2, 3), "HandoffProposed")
    /\ Admits(Grown(l, 2, 4), "HandoffCommitted")
    /\ Admits(Grown(l, 2, 5), "RunCompleted")
    /\ Admits(Grown(l, 0, 2), "RunInterrupted")

(* The probes of terminalChildHandoff before it writes anything. *)
AdmitsChildReturn(l, type) ==
    /\ Admits(l, type)
    /\ Admits(Grown(l, 0, 1), "HandoffProposed")
    /\ Admits(Grown(l, 0, 3), "RunCompleted")

-----------------------------------------------------------------------------
(***************************************************************************)
(* validateHandoffFenceProgression, one event at a time.  Its checks that  *)
(* compare a proposal with its own commit payload (seen twice, other       *)
(* previous_fence, other direction) concern logs the kernel cannot write.  *)
(***************************************************************************)
CoherentProposal(l, e) ==
    /\ l.prop.handoff = 0
    /\ l.check.run # 0 => e.run = l.check.run
    /\ l.check.fence > 0 => e.fence = l.check.fence + 1
    /\ l.check.child = 0
    /\ e.kind = ToParent => l.check.dir # ToParent

CoherentCommit(l, e) ==
    /\ l.prop.handoff = e.handoff
    /\ l.check.run # 0 => e.run = l.check.run
    /\ l.prop.next = e.fence /\ l.prop.to = e.owner /\ l.prop.dir = e.kind
    /\ l.check.fence > 0 => e.fence > l.check.fence

CoherentChildStart(l, e) ==
    /\ l.check.run # 0 => e.run = l.check.run
    /\ l.check.child = 0
    /\ l.check.fence > 0 => e.fence = l.check.fence
    /\ l.check.last = e.handoff /\ l.check.dir = ToChild

Coherent(l, e) ==
    CASE e.type = "HandoffProposed"  -> CoherentProposal(l, e)
      [] e.type = "HandoffCommitted" -> CoherentCommit(l, e)
      [] e.type = "ChildRunStarted"  -> CoherentChildStart(l, e)
      [] e.type \in ChildTerminals   -> l.check.child # 0 /\ l.check.child = e.handoff
      [] OTHER                       -> TRUE

(***************************************************************************)
(* The folds: what each accumulator becomes with one event more.           *)
(***************************************************************************)
RunState == [RunStarted |-> "running", RunCompleted |-> "completed",
             RunFailed |-> "failed", RunCancelled |-> "cancelled",
             RunInterrupted |-> "interrupted"]

StateAfter(l, e) == IF e.type \in RunTerminals \cup {"RunStarted"}
                    THEN RunState[e.type] ELSE l.state

RunAfter(l, e) ==
    CASE e.type = "RunStarted" ->
            [kind |-> e.kind, id |-> e.run, owner |-> e.owner, fence |-> e.fence]
      [] e.type \in RunTerminals -> NoRun
      [] OTHER -> l.run

ChildAfter(l, e) ==
    CASE e.type = "ChildRunStarted" ->
            [id |-> e.handoff, run |-> e.run, owner |-> e.owner, fence |-> e.fence]
      [] e.type \in ChildTerminals -> NoChild
      [] OTHER -> l.child

PropAfter(l, e) ==
    CASE e.type = "HandoffProposed" ->
            [handoff |-> e.handoff, dir |-> e.kind, from |-> e.from, to |-> e.owner,
             next |-> e.fence]
      [] e.type \in HandoffEvents \ {"HandoffProposed"} /\ l.prop.handoff = e.handoff ->
            NoProp
      [] OTHER -> l.prop

CommitAfter(l, e) ==
    IF e.type = "HandoffCommitted"
    THEN [run |-> e.run, owner |-> e.owner, fence |-> e.fence] ELSE l.commit

ParentsAfter(l, e) ==
    IF e.type = "ChildRunStarted" THEN l.parents \cup {e.run} ELSE l.parents

(* apply: the events that carry an owner and a fence to the projection. *)
AuthorityEvents == {"HandoffCommitted", "ChildRunStarted"} \cup ChildTerminals

OwnerAfter(l, e) ==
    IF \/ e.type \in AuthorityEvents
       \/ e.type = "RunInterrupted" /\ e.owner # NoOwner
       \/ e.type = "RunStarted" /\ e.kind \in {"execute", "session"}
    THEN e.owner ELSE l.owner

FenceAfter(l, e) ==
    IF \/ e.type \in AuthorityEvents
       \/ e.type = "RunStarted" /\ e.kind = "execute"
       \/ e.type = "RunInterrupted" /\ e.fence > 0
    THEN e.fence ELSE l.fence

(* deriveTaskLifecycle: an interrupted run leaves the task open. *)
Ends(e) == e.type \in (RunTerminals \ {"RunInterrupted"}) \cup TaskTerminals

(* The locals of validateHandoffFenceProgression. *)
CheckAfter(l, e) ==
    CASE e.type = "RunStarted" /\ e.kind = "execute" ->
            [run |-> e.run, fence |-> e.fence, child |-> 0, last |-> 0, dir |-> "none"]
      [] e.type = "HandoffCommitted" ->
            [run |-> l.check.run, fence |-> e.fence, last |-> e.handoff, dir |-> e.kind,
             child |-> IF e.kind = ToParent THEN 0 ELSE l.check.child]
      [] e.type = "ChildRunStarted" -> [l.check EXCEPT !.child = e.handoff]
      [] e.type \in ChildTerminals -> [l.check EXCEPT !.child = 0]
      [] OTHER -> l.check

InputState == [InitialInputReserved |-> "reserved", InitialInputSent |-> "sent",
               InitialInputUncertain |-> "uncertain",
               InitialInputAbandoned |-> "abandoned"]

InputAfter(l, e) == IF e.type \in InputEvents THEN InputState[e.type] ELSE l.input

(* Log.Append: one event more, counted, folded and judged. *)
AppendEvent(l, e) ==
    [ordinary |-> IF e.type \in ControlEvents THEN l.ordinary ELSE l.ordinary + 1,
     control  |-> IF e.type \in ControlEvents THEN l.control + 1 ELSE l.control,
     state    |-> StateAfter(l, e),
     run      |-> RunAfter(l, e),
     child    |-> ChildAfter(l, e),
     prop     |-> PropAfter(l, e),
     commit   |-> CommitAfter(l, e),
     parents  |-> ParentsAfter(l, e),
     owner    |-> OwnerAfter(l, e),
     fence    |-> FenceAfter(l, e),
     terminal |-> l.terminal \/ Ends(e),
     removed  |-> l.removed \/ e.type = "TaskRemoved",
     check    |-> CheckAfter(l, e),
     valid    |-> l.valid /\ Coherent(l, e),
     input    |-> InputAfter(l, e)]

-----------------------------------------------------------------------------
(* Mutant: a lease that already moved is not matched with its proposal. *)
OpenProposalExplainsOld(l, lease) ==
    l.prop.handoff # 0 /\ lease.owner = l.prop.from /\ lease.fence + 1 = l.prop.next

(***************************************************************************)
(* recoverAuthorityClaim: the lease is believed when the log explains it,  *)
(* as the active child, the latest commit, the run's start, or either end  *)
(* of a proposal still open.                                               *)
(***************************************************************************)
OpenProposalExplains(l, lease) ==
    /\ l.prop.handoff # 0
    /\ \/ lease.owner = l.prop.to   /\ lease.fence = l.prop.next
       \/ lease.owner = l.prop.from /\ lease.fence + 1 = l.prop.next

RecoverAuthorityClaim(l, lease) ==
    /\ lease.owner # NoOwner
    /\ lease.fence > 0
    /\ \/ l.child.id # 0 /\ l.child.owner = lease.owner /\ l.child.fence = lease.fence
       \/ l.commit.owner = lease.owner /\ l.commit.fence = lease.fence
       \/ ActiveExecute(l) /\ l.run.owner = lease.owner /\ l.run.fence = lease.fence
       \/ OpenProposalExplains(l, lease)

(***************************************************************************)
(* The claim CancelTask derives from the log it read: the active child,    *)
(* else the latest commit of the whole history, else the projection, else  *)
(* the run's own start.                                                    *)
(***************************************************************************)
CancelClaim(l) ==
    LET c == IF l.child.id # 0 THEN [owner |-> l.child.owner, fence |-> l.child.fence]
             ELSE IF l.commit.fence > 0
             THEN [owner |-> l.commit.owner, fence |-> l.commit.fence]
             ELSE [owner |-> l.owner, fence |-> l.fence]
    IN  IF c.owner = NoOwner \/ c.fence = 0
        THEN [run |-> l.run.id, owner |-> l.run.owner, fence |-> l.run.fence]
        ELSE [run |-> l.run.id, owner |-> c.owner, fence |-> c.fence]
=============================================================================
