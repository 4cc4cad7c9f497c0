-------------------------- MODULE FabricKernel_proofs --------------------------
(***************************************************************************)
(* What the operations of the Fabric kernel do, for any number of callers, *)
(* runs, handoffs and faults and any capacity: how they write the lease,   *)
(* and that they keep its state within its types.  The theorems about the  *)
(* two models that call the kernel rest on these lemmas.                   *)
(***************************************************************************)
EXTENDS FabricKernel, TLAPS

(* Every step leaves the lease alone or writes it with the next token. *)
LeaseMoves ==
    \/ lease' = lease
    \/ \E owner : lease' = [owner |-> owner, fence |-> lease.fence + 1]

(* The operations of a kernel program, one write each. *)
LEMMA KernelStepMoves == KernelStep => LeaseMoves
<1> SUFFICES ASSUME KernelStep PROVE LeaseMoves
  OBVIOUS
<1>1. ASSUME AbandonBegin \/ EndRelease \/ CommitHandoffFrom PROVE LeaseMoves
  BY <1>1 DEF AbandonBegin, EndRelease, CommitHandoffFrom, TryLease, LeaseMoves
<1>2. ASSUME ~(AbandonBegin \/ EndRelease \/ CommitHandoffFrom) PROVE lease' = lease
  BY <1>2 DEF KernelStep, RunStarted, EndChild, EndRun, ProposeHandoff, HandoffFailed,
     HandoffCommitted, ChildRunStarted, ReturnChild, ReconcileRollback, ReconcileChild,
     ReconcileRun
<1> QED BY <1>1, <1>2 DEF LeaseMoves

(* Of the calls, only BeginExecute writes the lease before it returns. *)
LEMMA CallsMove ==
    ASSUME NEW c
    PROVE  /\ Create(c) => lease' = lease
           /\ \A kind, p : StartRun(c, kind, p) => lease' = lease
           /\ \A type : CloseRun(c, type) => lease' = lease
           /\ \A i, k : Remove(c, i, k) => lease' = lease
           /\ \A type, k : AppendLifecycle(c, type, k) => lease' = lease
           /\ \A k : RecordProgress(c, k) => lease' = lease
           /\ \A type, k : InitialInput(c, type, k) => lease' = lease
           /\ \A type, k : TerminalExecute(c, k, type) => lease' = lease
           /\ \A k : BeginChildHandoff(c, k) => lease' = lease
           /\ \A k, p, type : TerminalChildHandoff(c, k, p, type) => lease' = lease
           /\ \A run : Reconcile(c, run) => lease' = lease
           /\ \A p : BeginExecute(c, p) => LeaseMoves
<1>1. \A e : AppendCall(c, e) => lease' = lease
  BY DEF AppendCall
<1>2. (Reject(c) \/ Already(c)) => lease' = lease
  BY DEF Reject, Already
<1>3. /\ Create(c) => lease' = lease
      /\ \A kind, p : StartRun(c, kind, p) => lease' = lease
      /\ \A type : CloseRun(c, type) => lease' = lease
      /\ \A i, k : Remove(c, i, k) => lease' = lease
  BY <1>1, <1>2 DEF Create, StartRun, CloseRun, Remove
<1>4. /\ \A type, k : AppendLifecycle(c, type, k) => lease' = lease
      /\ \A k : RecordProgress(c, k) => lease' = lease
      /\ \A type, k : InitialInput(c, type, k) => lease' = lease
  BY <1>1, <1>2 DEF AppendLifecycle, RecordProgress, InitialInput
<1>5. /\ \A type, k : TerminalExecute(c, k, type) => lease' = lease
      /\ \A k : BeginChildHandoff(c, k) => lease' = lease
      /\ \A k, p, type : TerminalChildHandoff(c, k, p, type) => lease' = lease
      /\ \A run : Reconcile(c, run) => lease' = lease
  BY <1>2 DEF TerminalExecute, BeginChildHandoff, TerminalChildHandoff, Reconcile
<1>6. \A p : BeginExecute(c, p) => LeaseMoves
  BY <1>2 DEF BeginExecute, TryLease, LeaseMoves
<1> QED BY <1>3, <1>4, <1>5, <1>6

-----------------------------------------------------------------------------
(***************************************************************************)
(* Types.                                                                  *)
(***************************************************************************)
Operation == [kind: Kinds, pc: Pcs, caller: Callers \cup {"none"}, claim: Claim,
              type: EventTypes \cup {"none"}, handoff: Nat, to: Owner]
Result == [done: BOOLEAN, ok: BOOLEAN, claim: Claim]

(* A program that ends a run or a child knows the terminal it is to write. *)
OpOK ==
    /\ op \in Operation
    /\ op.kind = "end" => op.type \in RunTerminals
    /\ op.kind = "to_parent" => op.type \in ChildTerminals

RetOK == ret \in [Callers -> Result]
BoundsOK ==
    /\ runs \in 0..MaxRuns /\ handoffs \in 0..MaxHandoffs /\ faults \in 0..MaxFaults
    /\ unsynced \subseteq EventTypes \cup LeaseWrites
KernelOK == log \in Log /\ lease \in [owner: Owner, fence: Nat] /\ OpOK /\ RetOK /\ BoundsOK

LEMMA OwnerTypes ==
    /\ NoOwner \in Owner
    /\ \A p \in PrimaryOwners : Primary(p) \in Owner
    /\ \A h \in Nat : ChildOwner(h) \in Owner
  BY DEF NoOwner, Primary, ChildOwner, Owner

LEMMA ResultTypes ==
    /\ NoClaim \in Claim /\ NoResult \in Result /\ Failed \in Result
    /\ \A k \in Claim : Done(k) \in Result
<1>1. NoClaim \in Claim
  BY OwnerTypes DEF NoClaim, Claim
<1> QED BY <1>1 DEF NoResult, Failed, Done, Result

LEMMA IdleType == Idle \in Operation /\ Idle.kind = "none"
  BY OwnerTypes, ResultTypes DEF Idle, Operation, Kinds, Pcs

(* The kind of an event is the kind of its run or the direction of its handoff. *)
KindOK(e) ==
    /\ e.type = "RunStarted" => e.kind \in {"none", "execute", "mark", "session"}
    /\ e.type \in HandoffEvents => e.kind \in {"none", ToChild, ToParent}

LEMMA AppendTypes ==
    ASSUME NEW l \in Log, NEW e \in Event, KindOK(e)
    PROVE  AppendEvent(l, e) \in Log
<1> DEFINE RunT == [kind: {"none", "execute", "mark", "session"}, id: Nat,
                    owner: Owner, fence: Nat]
           ChildT == [id: Nat, run: Nat, owner: Owner, fence: Nat]
           PropT == [handoff: Nat, dir: {"none", ToChild, ToParent}, from: Owner,
                     to: Owner, next: Nat]
           CheckT == [run: Nat, fence: Nat, child: Nat, last: Nat,
                      dir: {"none", ToChild, ToParent}]
           States == {"none", "running", "completed", "failed", "cancelled", "interrupted"}
           Inputs == {"none", "reserved", "sent", "uncertain", "abandoned"}
<1>1. /\ e.run \in Nat /\ e.owner \in Owner /\ e.fence \in Nat /\ e.handoff \in Nat
      /\ e.from \in Owner /\ e.type \in EventTypes
  BY DEF Event
<1>2. /\ l.ordinary \in Nat /\ l.control \in Nat /\ l.state \in States /\ l.run \in RunT
      /\ l.child \in ChildT /\ l.prop \in PropT /\ l.commit \in Claim
      /\ l.parents \in SUBSET Nat /\ l.owner \in Owner /\ l.fence \in Nat
      /\ l.terminal \in BOOLEAN /\ l.removed \in BOOLEAN /\ l.check \in CheckT
      /\ l.valid \in BOOLEAN /\ l.input \in Inputs
  BY DEF Log
<1>3. NoRun \in RunT /\ NoChild \in ChildT /\ NoProp \in PropT
  BY OwnerTypes DEF NoRun, NoChild, NoProp
<1>4. StateAfter(l, e) \in States /\ InputAfter(l, e) \in Inputs
  BY <1>2 DEF StateAfter, RunState, RunTerminals, InputAfter, InputState, InputEvents
<1>5. RunAfter(l, e) \in RunT /\ ChildAfter(l, e) \in ChildT
  BY <1>1, <1>2, <1>3 DEF RunAfter, ChildAfter, KindOK
<1>6. PropAfter(l, e) \in PropT
  BY <1>1, <1>2, <1>3 DEF PropAfter, KindOK, HandoffEvents
<1>7. CommitAfter(l, e) \in Claim /\ ParentsAfter(l, e) \in SUBSET Nat
  BY <1>1, <1>2 DEF CommitAfter, ParentsAfter, Claim
<1>8. OwnerAfter(l, e) \in Owner /\ FenceAfter(l, e) \in Nat
  BY <1>1, <1>2 DEF OwnerAfter, FenceAfter
<1>9. CheckAfter(l, e) \in CheckT
  BY <1>1, <1>2 DEF CheckAfter, KindOK, HandoffEvents
<1>10. (l.terminal \/ Ends(e)) \in BOOLEAN
       /\ (l.removed \/ e.type = "TaskRemoved") \in BOOLEAN
       /\ (l.valid /\ Coherent(l, e)) \in BOOLEAN
  OBVIOUS
<1>11. /\ (IF e.type \in ControlEvents THEN l.ordinary ELSE l.ordinary + 1) \in Nat
       /\ (IF e.type \in ControlEvents THEN l.control + 1 ELSE l.control) \in Nat
  BY <1>2
<1> HIDE DEF RunT, ChildT, PropT, CheckT, States, Inputs
<1>12. Log = [ordinary: Nat, control: Nat, state: States, run: RunT, child: ChildT,
              prop: PropT, commit: Claim, parents: SUBSET Nat, owner: Owner, fence: Nat,
              terminal: BOOLEAN, removed: BOOLEAN, check: CheckT, valid: BOOLEAN,
              input: Inputs]
  BY DEF Log, RunT, ChildT, PropT, CheckT, States, Inputs
<1> QED BY <1>4, <1>5, <1>6, <1>7, <1>8, <1>9, <1>10, <1>11, <1>12 DEF AppendEvent

LEMMA EventTypesOK ==
    /\ \A type \in EventTypes : Plain(type) \in Event /\ KindOK(Plain(type))
    /\ \A type \in EventTypes, kind \in {"none", "execute", "mark", "session"},
          run \in Nat, owner \in Owner, fence \in Nat :
             RunEvent(type, kind, run, owner, fence) \in Event
    /\ \A type \in EventTypes, dir \in {"none", ToChild, ToParent}, run, h, fence \in Nat,
          from, to \in Owner :
             HandoffEvent(type, dir, run, h, from, to, fence) \in Event
    /\ \A type \in EventTypes, child \in [id: Nat, run: Nat, owner: Owner, fence: Nat],
          owner \in Owner, fence \in Nat :
             ChildEvent(type, child, owner, fence) \in Event
  BY OwnerTypes DEF Plain, RunEvent, HandoffEvent, ChildEvent, Event, KindOK

(***************************************************************************)
(* The building blocks: what an append, a write of the lease, a return and *)
(* a jump leave behind.  Loses is the accounting of a write that fails.    *)
(***************************************************************************)
Appends(e) == log' = log \/ log' = AppendEvent(log, e)
Loses ==
    /\ faults' = faults \/ Refused
    /\ unsynced' \subseteq unsynced \cup EventTypes \cup LeaseWrites
Returns(c) == \E r \in Result : Return(c, r)
GoesOn(c) == Returns(c) \/ \E at \in Pcs : Goto(at)

LEMMA ReturnTypes ==
    ASSUME OpOK, RetOK, NEW c, GoesOn(c)
    PROVE  OpOK' /\ RetOK'
<1>1. CASE Returns(c)
  <2> PICK r \in Result : Return(c, r)
    BY <1>1 DEF Returns
  <2>1. op' = Idle /\ OpOK'
    BY IdleType DEF Return, OpOK
  <2>2. RetOK'
    BY DEF Return, RetOK
  <2> QED BY <2>1, <2>2
<1>2. CASE \E at \in Pcs : Goto(at)
  <2> PICK at \in Pcs : Goto(at)
    BY <1>2
  <2>1. op' \in Operation /\ op'.kind = op.kind /\ op'.type = op.type
    BY DEF Goto, OpOK, Operation
  <2> QED BY <2>1 DEF Goto, OpOK, RetOK
<1> QED BY <1>1, <1>2 DEF GoesOn

LEMMA LoseTypes ==
    ASSUME faults \in 0..MaxFaults, unsynced \subseteq EventTypes \cup LeaseWrites, Loses
    PROVE  faults' \in 0..MaxFaults /\ unsynced' \subseteq EventTypes \cup LeaseWrites
  BY BoundsAssumption DEF Loses, Refused

(* A step of a program that appends to the log. *)
LEMMA AppendStep ==
    ASSUME KernelOK, NEW e \in Event, KindOK(e), NEW c, Appends(e), Loses, GoesOn(c),
           UNCHANGED <<lease, runs, handoffs>>
    PROVE  KernelOK'
<1>1. log' \in Log
  BY AppendTypes DEF Appends, KernelOK
<1>2. OpOK' /\ RetOK'
  BY ReturnTypes DEF KernelOK
<1>3. BoundsOK'
  BY LoseTypes DEF KernelOK, BoundsOK
<1> QED BY <1>1, <1>2, <1>3 DEF KernelOK

(* A step of a program that writes the lease. *)
LEMMA LeaseStep ==
    ASSUME KernelOK, NEW c, NEW owner \in Owner,
           lease' = lease \/ lease' = [owner |-> owner, fence |-> lease.fence + 1],
           Loses, GoesOn(c), UNCHANGED <<log, runs, handoffs>>
    PROVE  KernelOK'
<1>1. lease' \in [owner: Owner, fence: Nat]
  BY DEF KernelOK
<1>2. OpOK' /\ RetOK'
  BY ReturnTypes DEF KernelOK
<1>3. BoundsOK'
  BY LoseTypes DEF KernelOK, BoundsOK
<1> QED BY <1>1, <1>2, <1>3 DEF KernelOK

LEMMA KernelStepTypes ==
    ASSUME KernelOK, KernelStep
    PROVE  KernelOK'
<1> DEFINE c == op.caller
           ChildT == [id: Nat, run: Nat, owner: Owner, fence: Nat]
<1>0. /\ op.claim \in Claim /\ op.to \in Owner /\ op.handoff \in Nat
      /\ op.claim.run \in Nat /\ op.claim.owner \in Owner /\ op.claim.fence \in Nat
      /\ op.claim.fence + 1 \in Nat
      /\ log.child \in ChildT /\ log.prop.handoff \in Nat
      /\ log.child.owner \in Owner /\ log.child.fence \in Nat
  BY DEF KernelOK, OpOK, Operation, Claim, Log
<1>r. /\ Failed \in Result /\ Done(NoClaim) \in Result
      /\ Done(op.claim) \in Result /\ Done(Transferred) \in Result
  BY <1>0, ResultTypes DEF Transferred, Claim
<1>1. CASE RunStarted
  <2> DEFINE e == RunEvent("RunStarted", "execute", op.claim.run, op.claim.owner,
                           op.claim.fence)
  <2>1. e \in Event /\ KindOK(e)
    BY <1>0, EventTypesOK DEF EventTypes, OrdinaryEvents, KindOK, RunEvent, HandoffEvents
  <2>2. Appends(e) /\ Loses /\ GoesOn(c)
    BY <1>1, <1>r, <2>1 DEF RunStarted, TryAppend, Event, Appends, Loses, GoesOn, Returns, Pcs
  <2> QED BY <1>1, <2>1, <2>2, AppendStep DEF RunStarted
<1>2. CASE AbandonBegin \/ EndRelease
  <2>1. /\ lease' = lease \/ lease' = [owner |-> NoOwner, fence |-> lease.fence + 1]
        /\ Loses /\ GoesOn(c)
    BY <1>2, <1>r DEF AbandonBegin, EndRelease, TryLease, LeaseWrites, Loses, GoesOn,
       Returns
  <2> QED BY <1>2, <2>1, OwnerTypes, LeaseStep DEF AbandonBegin, EndRelease
<1>3. CASE EndChild
  <2> DEFINE e == ChildEvent(ChildTerminalFor[op.type], log.child, op.claim.owner,
                             op.claim.fence)
  <2>1. ChildTerminalFor[op.type] \in ChildTerminals
    BY <1>3 DEF EndChild, Step, KernelOK, OpOK, RunTerminals, ChildTerminals,
       ChildTerminalFor
  <2>2. e \in Event /\ KindOK(e)
    BY <1>0, <2>1, EventTypesOK
       DEF EventTypes, ControlEvents, KindOK, ChildEvent, ChildTerminals, HandoffEvents
  <2>3. Appends(e) /\ Loses /\ GoesOn(c)
    BY <1>3, <1>r, <2>2 DEF EndChild, TryAppend, Event, Appends, Loses, GoesOn, Returns, Pcs
  <2> QED BY <1>3, <2>2, <2>3, AppendStep DEF EndChild
<1>4. CASE EndRun
  <2> DEFINE e == RunEvent(op.type, "execute", op.claim.run, op.claim.owner, op.claim.fence)
  <2>1. op.type \in RunTerminals
    BY <1>4 DEF EndRun, Step, KernelOK, OpOK
  <2>2. e \in Event /\ KindOK(e)
    BY <1>0, <2>1, EventTypesOK
       DEF EventTypes, ControlEvents, KindOK, RunEvent, RunTerminals, HandoffEvents
  <2>3. Appends(e) /\ Loses /\ GoesOn(c)
    BY <1>4, <1>r, <2>2 DEF EndRun, TryAppend, Event, Appends, Loses, GoesOn, Returns, Pcs
  <2> QED BY <1>4, <2>2, <2>3, AppendStep DEF EndRun
<1>5. ASSUME NEW type \in HandoffEvents
      PROVE  Transfer(type, Direction) \in Event /\ KindOK(Transfer(type, Direction))
  BY <1>0, EventTypesOK DEF Transfer, Direction, HandoffEvent, EventTypes, ControlEvents,
     HandoffEvents, KindOK
<1>6. CASE ProposeHandoff
  <2>1. Appends(Transfer("HandoffProposed", Direction)) /\ Loses /\ GoesOn(c)
    BY <1>5, <1>6, <1>r DEF ProposeHandoff, TryAppend, Event, HandoffEvents, Appends, Loses,
       GoesOn, Returns, Pcs
  <2> QED BY <1>5, <1>6, <2>1, AppendStep DEF ProposeHandoff, HandoffEvents
<1>7. CASE CommitHandoffFrom
  <2>1. /\ lease' = lease \/ lease' = [owner |-> op.to, fence |-> lease.fence + 1]
        /\ Loses /\ GoesOn(c)
    BY <1>7 DEF CommitHandoffFrom, TryLease, LeaseWrites, Loses, GoesOn, Pcs
  <2> QED BY <1>0, <1>7, <2>1, LeaseStep DEF CommitHandoffFrom
<1>8. CASE HandoffFailed
  <2>1. Appends(Transfer("HandoffFailed", Direction)) /\ Loses /\ GoesOn(c)
    BY <1>5, <1>8, <1>r DEF HandoffFailed, TryAppend, Event, HandoffEvents, Appends, Loses,
       GoesOn, Returns
  <2> QED BY <1>5, <1>8, <2>1, AppendStep DEF HandoffFailed, HandoffEvents
<1>9. CASE HandoffCommitted
  <2>1. Appends(Transfer("HandoffCommitted", Direction)) /\ Loses /\ GoesOn(c)
    BY <1>5, <1>9, <1>r DEF HandoffCommitted, TryAppend, Event, HandoffEvents, Appends,
       Loses, GoesOn, Returns, Pcs
  <2> QED BY <1>5, <1>9, <2>1, AppendStep DEF HandoffCommitted, HandoffEvents
<1>10. CASE ChildRunStarted
  <2> DEFINE e == HandoffEvent("ChildRunStarted", "none", op.claim.run, op.handoff,
                               NoOwner, op.to, op.claim.fence + 1)
  <2>1. e \in Event /\ KindOK(e)
    BY <1>0, EventTypesOK, OwnerTypes
       DEF EventTypes, OrdinaryEvents, KindOK, HandoffEvent, HandoffEvents
  <2>2. Appends(e) /\ Loses /\ GoesOn(c)
    BY <1>10, <1>r, <2>1 DEF ChildRunStarted, TryAppend, Event, Appends, Loses, GoesOn,
       Returns, Pcs
  <2> QED BY <1>10, <2>1, <2>2, AppendStep DEF ChildRunStarted
<1>11. CASE ReturnChild
  <2> DEFINE e == ChildEvent(op.type, log.child, log.child.owner, log.child.fence)
  <2>1. op.type \in ChildTerminals
    BY <1>11 DEF ReturnChild, Step, KernelOK, OpOK
  <2>2. e \in Event /\ KindOK(e)
    BY <1>0, <2>1, EventTypesOK
       DEF EventTypes, ControlEvents, KindOK, ChildEvent, ChildTerminals, HandoffEvents
  <2>3. Appends(e) /\ Loses /\ GoesOn(c)
    BY <1>11, <1>r, <2>2 DEF ReturnChild, TryAppend, Event, Appends, Loses, GoesOn, Returns, Pcs
  <2> QED BY <1>11, <2>2, <2>3, AppendStep DEF ReturnChild
<1>12. CASE ReconcileRollback
  <2> DEFINE e == HandoffEvent("HandoffRolledBack", "none", op.claim.run,
                               log.prop.handoff, NoOwner, NoOwner, op.claim.fence)
  <2>1. e \in Event /\ KindOK(e)
    BY <1>0, EventTypesOK, OwnerTypes
       DEF EventTypes, ControlEvents, KindOK, HandoffEvent, HandoffEvents
  <2>2. Appends(e) /\ Loses /\ GoesOn(c)
    BY <1>12, <1>r, <2>1 DEF ReconcileRollback, TryAppend, Event, Appends, Loses, GoesOn,
       Returns, Pcs,
       AfterRollback
  <2> QED BY <1>12, <2>1, <2>2, AppendStep DEF ReconcileRollback
<1>13. CASE ReconcileChild
  <2> DEFINE e == ChildEvent("ChildRunInterrupted", log.child, log.child.owner,
                             log.child.fence)
  <2>1. e \in Event /\ KindOK(e)
    BY <1>0, EventTypesOK
       DEF EventTypes, ControlEvents, KindOK, ChildEvent, ChildTerminals, HandoffEvents
  <2>2. Appends(e) /\ Loses /\ GoesOn(c)
    BY <1>13, <1>r, <2>1 DEF ReconcileChild, TryAppend, Event, Appends, Loses, GoesOn,
       Returns, Pcs
  <2> QED BY <1>13, <2>1, <2>2, AppendStep DEF ReconcileChild
<1>14. CASE ReconcileRun
  <2> DEFINE e == RunEvent("RunInterrupted", "execute", op.claim.run, op.claim.owner,
                           op.claim.fence)
  <2>1. e \in Event /\ KindOK(e)
    BY <1>0, EventTypesOK
       DEF EventTypes, ControlEvents, KindOK, RunEvent, RunTerminals, HandoffEvents
  <2>2. Appends(e) /\ Loses /\ GoesOn(c)
    BY <1>14, <1>r, <2>1 DEF ReconcileRun, TryAppend, Event, Appends, Loses, GoesOn, Returns, Pcs
  <2> QED BY <1>14, <2>1, <2>2, AppendStep DEF ReconcileRun
<1> QED BY <1>1, <1>2, <1>3, <1>4, <1>6, <1>7, <1>8, <1>9, <1>10, <1>11, <1>12, <1>13, <1>14
       DEF KernelStep

(* A call that writes nothing, or one event. *)
LEMMA OnceTypes ==
    ASSUME KernelOK, NEW c, Reject(c) \/ Already(c)
           \/ \E e \in Event : KindOK(e) /\ AppendCall(c, e)
    PROVE  KernelOK'
<1>1. CASE Reject(c) \/ Already(c)
  <2>1. GoesOn(c) /\ UNCHANGED <<log, lease, runs, handoffs, faults, unsynced>>
    BY <1>1, ResultTypes DEF Reject, Already, GoesOn, Returns
  <2> QED BY <2>1, ReturnTypes DEF KernelOK, BoundsOK
<1>2. CASE \E e \in Event : KindOK(e) /\ AppendCall(c, e)
  <2> PICK e \in Event : KindOK(e) /\ AppendCall(c, e)
    BY <1>2
  <2>1. Appends(e) /\ Loses /\ GoesOn(c)
    BY ResultTypes DEF AppendCall, TryAppend, Event, Appends, Loses, GoesOn, Returns
  <2> QED BY <2>1, AppendStep DEF AppendCall
<1> QED BY <1>1, <1>2

(* A call that starts a program. *)
LEMMA StartTypes ==
    ASSUME KernelOK, NEW c, NEW o \in Operation, op' = o,
           o.kind = "end" => o.type \in RunTerminals,
           o.kind = "to_parent" => o.type \in ChildTerminals,
           ret' = [ret EXCEPT ![c] = NoResult],
           UNCHANGED <<log, faults, unsynced>>,
           lease' \in [owner: Owner, fence: Nat],
           runs' \in 0..MaxRuns, handoffs' \in 0..MaxHandoffs
    PROVE  KernelOK'
<1>1. RetOK'
  BY ResultTypes DEF KernelOK, RetOK
<1> QED BY <1>1 DEF KernelOK, OpOK, BoundsOK

LEMMA MarkTypes ==
    ASSUME KernelOK, NEW c,
           \/ Create(c)
           \/ \E kind \in {"mark", "session"}, p \in PrimaryOwners : StartRun(c, kind, p)
           \/ \E type \in RunTerminals : CloseRun(c, type)
           \/ \E i, k : Remove(c, i, k)
           \/ \E type \in TaskTerminals : \E k : AppendLifecycle(c, type, k)
           \/ \E k \in Claim : RecordProgress(c, k)
           \/ \E type \in InputEvents : \E k : InitialInput(c, type, k)
    PROVE  KernelOK'
<1>1. \A type \in {"TaskCreated"} \cup RunTerminals \cup TaskTerminals \cup InputEvents :
          Plain(type) \in Event /\ KindOK(Plain(type))
  BY EventTypesOK DEF EventTypes, OrdinaryEvents, ControlEvents
<1>2. \A kind \in {"mark", "session"}, p \in PrimaryOwners :
          /\ RunEvent("RunStarted", kind, 0, Primary(p), 0) \in Event
          /\ KindOK(RunEvent("RunStarted", kind, 0, Primary(p), 0))
  BY EventTypesOK, OwnerTypes
     DEF EventTypes, OrdinaryEvents, KindOK, RunEvent, HandoffEvents
<1>3. \A k \in Claim :
          /\ RunEvent("RunProgress", "none", k.run, k.owner, k.fence) \in Event
          /\ KindOK(RunEvent("RunProgress", "none", k.run, k.owner, k.fence))
  BY EventTypesOK DEF EventTypes, OrdinaryEvents, KindOK, RunEvent, HandoffEvents, Claim
<1>4. CASE Create(c)
  BY <1>1, <1>4, OnceTypes DEF Create
<1>5. ASSUME NEW kind \in {"mark", "session"}, NEW p \in PrimaryOwners, StartRun(c, kind, p)
      PROVE  KernelOK'
  BY <1>2, <1>5, OnceTypes DEF StartRun
<1>6. ASSUME NEW type \in RunTerminals, CloseRun(c, type) PROVE KernelOK'
  BY <1>1, <1>6, OnceTypes DEF CloseRun
<1>7. ASSUME NEW i, NEW k, Remove(c, i, k) PROVE KernelOK'
  BY <1>1, <1>7, OnceTypes DEF Remove, TaskTerminals
<1>8. ASSUME NEW type \in TaskTerminals, NEW k, AppendLifecycle(c, type, k) PROVE KernelOK'
  BY <1>1, <1>8, OnceTypes DEF AppendLifecycle
<1>9. ASSUME NEW k \in Claim, RecordProgress(c, k) PROVE KernelOK'
  BY <1>3, <1>9, OnceTypes DEF RecordProgress
<1>10. ASSUME NEW type \in InputEvents, NEW k, InitialInput(c, type, k) PROVE KernelOK'
  BY <1>1, <1>10, OnceTypes DEF InitialInput
<1> QED BY <1>4, <1>5, <1>6, <1>7, <1>8, <1>9, <1>10

LEMMA ProgramTypes ==
    ASSUME KernelOK, NEW c \in Callers,
           \/ \E p \in PrimaryOwners : BeginExecute(c, p)
           \/ \E k \in Claim, type \in RunTerminals : TerminalExecute(c, k, type)
           \/ \E k \in Claim : BeginChildHandoff(c, k)
           \/ \E k \in Claim, type \in ChildTerminals : \E p :
                 Primary(p) \in Owner /\ TerminalChildHandoff(c, k, p, type)
           \/ \E run : Reconcile(c, run)
    PROVE  KernelOK'
<1>0. /\ lease.owner \in Owner /\ lease.fence \in Nat /\ runs \in 0..MaxRuns
      /\ handoffs \in 0..MaxHandoffs /\ log.run.id \in Nat /\ faults \in 0..MaxFaults
  BY DEF KernelOK, BoundsOK, Log
<1>t. RunTerminals \subseteq EventTypes /\ ChildTerminals \subseteq EventTypes
      /\ "RunStarted" \in EventTypes
  BY DEF EventTypes, ControlEvents, OrdinaryEvents
<1>1. ASSUME NEW p \in PrimaryOwners, BeginExecute(c, p) PROVE KernelOK'
  <2>1. CASE Reject(c)
    BY <2>1, OnceTypes
  <2>2. CASE ~Reject(c) /\ faults' = faults
    <3> DEFINE k == [run |-> runs + 1, owner |-> Primary(p), fence |-> lease.fence + 1]
               o == [kind |-> "begin", pc |-> "started", caller |-> c, claim |-> k,
                     type |-> "RunStarted", handoff |-> 0, to |-> NoOwner]
    <3>1. k \in Claim
      BY <1>0, OwnerTypes, BoundsAssumption DEF Claim
    <3>2. o \in Operation
      BY <3>1, <1>t, OwnerTypes DEF Operation, Kinds, Pcs
    <3>3. /\ op' = o /\ ret' = [ret EXCEPT ![c] = NoResult]
          /\ lease' = [owner |-> Primary(p), fence |-> lease.fence + 1]
          /\ runs' = runs + 1 /\ runs < MaxRuns
          /\ UNCHANGED <<log, faults, unsynced, handoffs>>
      BY <1>1, <2>2, <1>0 DEF BeginExecute, TryLease, Begin, Refused
    <3>4. /\ lease' \in [owner: Owner, fence: Nat] /\ runs' \in 0..MaxRuns
          /\ handoffs' \in 0..MaxHandoffs
      BY <1>0, <3>3, OwnerTypes, BoundsAssumption
    <3>5. o.kind = "begin"
      OBVIOUS
    <3> QED BY <3>2, <3>3, <3>4, <3>5, StartTypes
  <2>3. CASE ~Reject(c) /\ faults' # faults
    <3>1. /\ Refused /\ Return(c, Failed)
          /\ lease' = lease \/ lease' = [owner |-> Primary(p), fence |-> lease.fence + 1]
          /\ unsynced' \subseteq unsynced \cup {"CommitHandoff"}
          /\ UNCHANGED <<log, runs, handoffs>>
      BY <1>1, <2>3 DEF BeginExecute, TryLease
    <3>2. GoesOn(c) /\ Loses
      BY <3>1, ResultTypes DEF GoesOn, Returns, Loses, LeaseWrites
    <3> QED BY <3>1, <3>2, LeaseStep, OwnerTypes
  <2> QED BY <2>1, <2>2, <2>3
<1>2. ASSUME NEW k \in Claim, NEW type \in RunTerminals, TerminalExecute(c, k, type)
      PROVE  KernelOK'
  <2>1. CASE Reject(c)
    BY <2>1, OnceTypes
  <2>2. CASE ~Reject(c)
    <3> DEFINE at == IF log.child.id # 0 THEN "child" ELSE "terminal"
               o == [kind |-> "end", pc |-> at, caller |-> c, claim |-> k,
                     type |-> type, handoff |-> 0, to |-> NoOwner]
    <3>1. o \in Operation /\ o.type = type /\ o.kind = "end"
      BY <1>t, OwnerTypes DEF Operation, Kinds, Pcs
    <3>2. /\ op' = o /\ ret' = [ret EXCEPT ![c] = NoResult]
          /\ UNCHANGED <<log, lease, runs, handoffs, faults, unsynced>>
      BY <1>2, <2>2 DEF TerminalExecute, Begin
    <3> QED BY <1>0, <3>1, <3>2, StartTypes DEF KernelOK
  <2> QED BY <2>1, <2>2
<1>3. ASSUME NEW k \in Claim, BeginChildHandoff(c, k) PROVE KernelOK'
  <2>1. CASE Reject(c)
    BY <2>1, OnceTypes
  <2>2. CASE ~Reject(c)
    <3> DEFINE o == [kind |-> "to_child", pc |-> "propose", caller |-> c, claim |-> k,
                     type |-> "none", handoff |-> handoffs + 1,
                     to |-> ChildOwner(handoffs + 1)]
    <3>1. handoffs + 1 \in Nat
      BY <1>0, BoundsAssumption
    <3>2. o \in Operation /\ o.kind = "to_child"
      BY <3>1, OwnerTypes DEF Operation, Kinds, Pcs
    <3>3. /\ op' = o /\ ret' = [ret EXCEPT ![c] = NoResult]
          /\ handoffs' = handoffs + 1 /\ handoffs < MaxHandoffs
          /\ UNCHANGED <<log, lease, runs, faults, unsynced>>
      BY <1>3, <2>2 DEF BeginChildHandoff
    <3>4. handoffs' \in 0..MaxHandoffs
      BY <1>0, <3>3, BoundsAssumption
    <3> QED BY <1>0, <3>2, <3>3, <3>4, StartTypes DEF KernelOK
  <2> QED BY <2>1, <2>2
<1>4. ASSUME NEW k \in Claim, NEW p, Primary(p) \in Owner, NEW type \in ChildTerminals,
             TerminalChildHandoff(c, k, p, type)
      PROVE  KernelOK'
  <2>1. CASE Reject(c)
    BY <2>1, OnceTypes
  <2>2. CASE ~Reject(c)
    <3> DEFINE o == [kind |-> "to_parent", pc |-> "child", caller |-> c, claim |-> k,
                     type |-> type, handoff |-> handoffs + 1, to |-> Primary(p)]
    <3>1. handoffs + 1 \in Nat
      BY <1>0, BoundsAssumption
    <3>2. o \in Operation /\ o.kind = "to_parent" /\ o.type = type
      BY <1>4, <1>t, <3>1 DEF Operation, Kinds, Pcs
    <3>3. /\ op' = o /\ ret' = [ret EXCEPT ![c] = NoResult]
          /\ handoffs' = handoffs + 1 /\ handoffs < MaxHandoffs
          /\ UNCHANGED <<log, lease, runs, faults, unsynced>>
      BY <1>4, <2>2 DEF TerminalChildHandoff
    <3>4. handoffs' \in 0..MaxHandoffs
      BY <1>0, <3>3, BoundsAssumption
    <3> QED BY <1>0, <3>2, <3>3, <3>4, StartTypes DEF KernelOK
  <2> QED BY <2>1, <2>2
<1>5. ASSUME NEW run, Reconcile(c, run) PROVE KernelOK'
  <2>1. CASE Reject(c)
    BY <2>1, OnceTypes
  <2>2. CASE ~Reject(c)
    <3> DEFINE k == [run |-> log.run.id, owner |-> lease.owner, fence |-> lease.fence]
               at == IF log.prop.handoff # 0 THEN "rollback" ELSE AfterRollback
               o == [kind |-> "reconcile", pc |-> at, caller |-> c, claim |-> k,
                     type |-> "RunInterrupted", handoff |-> 0, to |-> NoOwner]
    <3>1. k \in Claim /\ at \in Pcs
      BY <1>0 DEF Claim, Pcs, AfterRollback
    <3>2. o \in Operation /\ o.kind = "reconcile"
      BY <3>1, OwnerTypes DEF Operation, Kinds, EventTypes, ControlEvents, RunTerminals
    <3>3. /\ op' = o /\ ret' = [ret EXCEPT ![c] = NoResult]
          /\ UNCHANGED <<log, lease, runs, handoffs, faults, unsynced>>
      BY <1>5, <2>2 DEF Reconcile, Begin
    <3> QED BY <1>0, <3>2, <3>3, StartTypes DEF KernelOK
  <2> QED BY <2>1, <2>2
<1> QED BY <1>1, <1>2, <1>3, <1>4, <1>5

LEMMA CancelClaimType == ASSUME NEW l \in Log PROVE CancelClaim(l) \in Claim
<1>1. /\ l.child.owner \in Owner /\ l.child.fence \in Nat /\ l.commit.owner \in Owner
      /\ l.commit.fence \in Nat /\ l.owner \in Owner /\ l.fence \in Nat
      /\ l.run.id \in Nat /\ l.run.owner \in Owner /\ l.run.fence \in Nat
  BY DEF Log, Claim
<1> QED BY <1>1 DEF CancelClaim, Claim

-----------------------------------------------------------------------------
(***************************************************************************)
(* What a program is about: the writes it may still do, and the run they   *)
(* concern.  Repo.mu is held from the check a program starts with to its   *)
(* last write, so what the check found is still so when the write is done. *)
(***************************************************************************)
Names(claim) == log.run.id # 0 /\ claim.run # 0 => log.run.id = claim.run

OpShape ==
    \/ op.kind = "none" /\ op.pc = "none"
    \/ op.kind = "begin" /\ op.pc \in {"started", "abandon"}
    \/ op.kind = "end" /\ op.pc \in {"child", "terminal", "release"}
    \/ op.kind = "to_child" /\ op.pc \in {"propose", "cas", "cas_failed", "commit",
                                          "child_start", "child_start_failed"}
    \/ op.kind = "to_parent" /\ op.pc \in {"child", "propose", "cas", "cas_failed", "commit"}
    \/ op.kind = "reconcile" /\ op.pc \in {"rollback", "child_interrupt", "interrupt",
                                           "release"}

OpRun ==
    /\ OpShape
    /\ op.pc = "release" => log.run.id = 0
    /\ op.kind = "end" /\ op.pc \in {"child", "terminal"} => Names(op.claim)
    /\ op.pc = "started" => ~Active(log) /\ ~log.terminal

(* What a successful answer to the program's caller says. *)
Answers(r) ==
    r.ok => /\ op.kind = "begin" => r.claim = op.claim
            /\ op.kind \in {"to_child", "to_parent"} => r.claim.run = op.claim.run
            /\ op.kind \in {"end", "reconcile"} => log'.run.id = 0

Proceeds == \/ \E at \in Pcs : Goto(at)
            \/ \E r \in Result : Return(op.caller, r) /\ Answers(r)

(* The run in the log stays, ends, or is the one the program begins. *)
RunChanges ==
    \/ log'.run = log.run
    \/ /\ log'.run.id = 0
       /\ log'.state = "completed" =>
             op.kind = "end" /\ op.type = "RunCompleted" /\ Names(op.claim)
    \/ op.kind = "begin" /\ log'.run.id = op.claim.run

LEMMA AppendRun ==
    ASSUME NEW l, NEW e
    PROVE  /\ e.type \notin RunTerminals \cup {"RunStarted"} =>
                 AppendEvent(l, e).run = l.run /\ AppendEvent(l, e).state = l.state
           /\ e.type \in RunTerminals =>
                 /\ AppendEvent(l, e).run.id = 0 /\ AppendEvent(l, e).state # "running"
                 /\ AppendEvent(l, e).state = "completed" => e.type = "RunCompleted"
           /\ e.type = "RunStarted" => AppendEvent(l, e).run.id = e.run
  BY DEF AppendEvent, RunAfter, StateAfter, RunState, RunTerminals, NoRun

LEMMA GotoFacts ==
    ASSUME op \in Operation, NEW at, Goto(at)
    PROVE  /\ op'.pc = at /\ op'.kind = op.kind /\ op'.caller = op.caller
           /\ op'.claim = op.claim /\ op'.type = op.type /\ ret' = ret
  BY DEF Goto, Operation

LEMMA IdleRun == op' = Idle => OpRun'
  BY DEF Idle, OpRun, OpShape

(* A jump to where the program's kind may be, with the run as it was. *)
LEMMA JumpRun ==
    ASSUME op \in Operation, OpRun, NEW at \in Pcs, Goto(at), at # "release", at # "started",
           log'.run = log.run,
           \/ op.kind = "begin" /\ at = "abandon"
           \/ op.kind = "end" /\ op.pc \in {"child", "terminal"} /\ at = "terminal"
           \/ op.kind = "to_child" /\ at \in {"propose", "cas", "cas_failed", "commit",
                                               "child_start", "child_start_failed"}
           \/ op.kind = "to_parent" /\ at \in {"propose", "cas", "cas_failed", "commit"}
           \/ op.kind = "reconcile" /\ at \in {"child_interrupt", "interrupt"}
    PROVE  OpRun' /\ Proceeds
<1>1. op'.pc = at /\ op'.kind = op.kind /\ op'.claim = op.claim
  BY GotoFacts
<1>2. Proceeds
  BY DEF Proceeds
<1> QED BY <1>1, <1>2 DEF OpRun, OpShape, Names

(* An answer: the program is over. *)
LEMMA AnswerRun ==
    ASSUME NEW r \in Result, Return(op.caller, r), Answers(r)
    PROVE  OpRun' /\ Proceeds
  BY IdleRun DEF Return, Proceeds

(* An append of the program that is not the start or the end of a run. *)
LEMMA PlainAppend ==
    ASSUME NEW e, e.type \notin RunTerminals \cup {"RunStarted"}, Appends(e)
    PROVE  log'.run = log.run /\ RunChanges
  BY AppendRun DEF Appends, RunChanges

LEMMA StepRun ==
    ASSUME KernelOK, OpRun, KernelStep
    PROVE  OpRun' /\ Proceeds /\ RunChanges /\ runs' = runs
<1> DEFINE c == op.caller
<1>0. op \in Operation /\ OpOK
  BY DEF KernelOK, OpOK
<1>r. /\ Failed \in Result /\ Done(NoClaim) \in Result
      /\ Done(op.claim) \in Result /\ Done(Transferred) \in Result
      /\ Failed.ok = FALSE /\ Done(NoClaim).ok = TRUE
      /\ Done(op.claim).claim = op.claim /\ Done(Transferred).claim.run = op.claim.run
  <2>1. op.claim \in Claim /\ op.to \in Owner /\ op.claim.run \in Nat /\ op.claim.fence + 1 \in Nat
    BY <1>0 DEF Operation, Claim
  <2>2. Transferred \in Claim
    BY <2>1 DEF Transferred, Claim
  <2> QED BY <2>1, <2>2, ResultTypes DEF Transferred, Failed, Done
<1>f. Answers(Failed)
  BY <1>r DEF Answers
<1>h. \A type \in HandoffEvents \cup ChildTerminals \cup {"ChildRunStarted"} :
          type \notin RunTerminals \cup {"RunStarted"}
  BY DEF HandoffEvents, ChildTerminals, RunTerminals
<1>u. runs' = runs
  BY DEF KernelStep, RunStarted, AbandonBegin, EndChild, EndRun, EndRelease, ProposeHandoff,
     CommitHandoffFrom, HandoffFailed, HandoffCommitted, ChildRunStarted, ReturnChild,
     ReconcileRollback, ReconcileChild, ReconcileRun
<1>1. CASE RunStarted
  <2> DEFINE e == RunEvent("RunStarted", "execute", op.claim.run, op.claim.owner,
                           op.claim.fence)
  <2>1. /\ op.kind = "begin" /\ op.pc = "started"
        /\ \/ log' = AppendEvent(log, e) /\ Return(c, Done(op.claim))
           \/ Appends(e) /\ Goto("abandon")
    BY <1>1 DEF RunStarted, Step, TryAppend, Appends
  <2>2. e.type = "RunStarted" /\ e.run = op.claim.run
    BY DEF RunEvent
  <2> HIDE DEF e
  <2>3. CASE log' = AppendEvent(log, e) /\ Return(c, Done(op.claim))
    <3>1. RunChanges
      BY <2>1, <2>2, <2>3, AppendRun DEF RunChanges
    <3>2. Answers(Done(op.claim))
      BY <1>r, <2>1 DEF Answers
    <3> QED BY <1>u, <1>r, <2>3, <3>1, <3>2, AnswerRun
  <2>4. CASE Appends(e) /\ Goto("abandon")
    <3>1. op'.pc = "abandon" /\ op'.kind = "begin" /\ Proceeds
      BY <1>0, <2>1, <2>4, GotoFacts DEF Proceeds, Pcs
    <3>2. OpRun'
      BY <3>1 DEF OpRun, OpShape
    <3>3. RunChanges
      BY <2>1, <2>2, <2>4, AppendRun DEF RunChanges, Appends
    <3> QED BY <1>u, <3>1, <3>2, <3>3
  <2> QED BY <2>1, <2>3, <2>4
<1>2. CASE AbandonBegin
  <2>1. Return(c, Failed) /\ log' = log
    BY <1>2 DEF AbandonBegin, TryLease
  <2> QED BY <1>u, <1>f, <1>r, <2>1, AnswerRun DEF RunChanges
<1>3. CASE EndRelease
  <2>1. /\ Return(c, Done(NoClaim)) /\ log' = log /\ op.pc = "release"
        /\ op.kind \in {"end", "reconcile"}
    BY <1>3 DEF EndRelease, TryLease
  <2>2. Answers(Done(NoClaim))
    BY <2>1 DEF Answers, OpRun
  <2> QED BY <1>u, <1>r, <2>1, <2>2, AnswerRun DEF RunChanges
<1>4. CASE EndChild
  <2> DEFINE e == ChildEvent(ChildTerminalFor[op.type], log.child, op.claim.owner,
                             op.claim.fence)
  <2>1. ChildTerminalFor[op.type] \in ChildTerminals
    BY <1>0, <1>4 DEF EndChild, Step, OpOK, RunTerminals, ChildTerminals, ChildTerminalFor
  <2>2. e.type \notin RunTerminals \cup {"RunStarted"}
    BY <1>h, <2>1 DEF ChildEvent
  <2>3. /\ op.kind = "end" /\ op.pc = "child" /\ Appends(e)
        /\ Goto("terminal") \/ Return(c, Failed)
    BY <1>4 DEF EndChild, Step, TryAppend, Appends
  <2> HIDE DEF e
  <2>4. log'.run = log.run /\ RunChanges
    BY <2>2, <2>3, PlainAppend
  <2>5. CASE Goto("terminal")
    <3>1. OpRun' /\ Proceeds
      BY <1>0, <2>3, <2>4, <2>5, JumpRun DEF Pcs
    <3> QED BY <1>u, <2>4, <3>1
  <2> QED BY <1>u, <1>f, <1>r, <2>3, <2>4, <2>5, AnswerRun
<1>5. ASSUME NEW e, e.type \in RunTerminals, Appends(e), Goto("release") \/ Return(c, Failed),
             op.kind \in {"end", "reconcile"}, Goto("release") => log' = AppendEvent(log, e),
             e.type = "RunCompleted" =>
                op.kind = "end" /\ op.type = "RunCompleted" /\ Names(op.claim)
      PROVE  OpRun' /\ Proceeds /\ RunChanges
  <2>1. CASE Goto("release")
    <3>1. /\ log'.run.id = 0 /\ log'.state # "running"
          /\ log'.state = "completed" => e.type = "RunCompleted"
      BY <1>5, <2>1, AppendRun
    <3>2. op'.pc = "release" /\ op'.kind = op.kind
      BY <1>0, <2>1, GotoFacts
    <3>3. OpRun'
      BY <1>5, <3>1, <3>2 DEF OpRun, OpShape
    <3>4. Proceeds
      BY <2>1 DEF Proceeds, Pcs
    <3> QED BY <1>5, <3>1, <3>3, <3>4 DEF RunChanges
  <2>2. CASE Return(c, Failed)
    <3>1. RunChanges
      BY <1>5, AppendRun DEF RunChanges, Appends
    <3> QED BY <1>f, <1>r, <2>2, <3>1, AnswerRun
  <2> QED BY <1>5, <2>1, <2>2
<1>6. CASE EndRun
  <2> DEFINE e == RunEvent(op.type, "execute", op.claim.run, op.claim.owner, op.claim.fence)
  <2>1. /\ op.kind = "end" /\ op.pc = "terminal" /\ Appends(e)
        /\ \/ log' = AppendEvent(log, e) /\ Goto("release")
           \/ Return(c, Failed)
    BY <1>6 DEF EndRun, Step, TryAppend, Appends
  <2>2. e.type = op.type /\ op.type \in RunTerminals /\ Names(op.claim)
    BY <1>0, <2>1 DEF RunEvent, OpOK, OpRun
  <2>3. Goto("release") => ~Return(c, Failed)
    BY <1>0, GotoFacts DEF Return, Idle
  <2> HIDE DEF e
  <2>4. OpRun' /\ Proceeds /\ RunChanges
    BY <1>5, <2>1, <2>2, <2>3
  <2> QED BY <1>u, <2>4
<1>7. CASE ReconcileRun
  <2> DEFINE e == RunEvent("RunInterrupted", "execute", op.claim.run, op.claim.owner,
                           op.claim.fence)
  <2>1. /\ op.kind = "reconcile" /\ op.pc = "interrupt" /\ Appends(e)
        /\ \/ log' = AppendEvent(log, e) /\ Goto("release")
           \/ Return(c, Failed)
    BY <1>7 DEF ReconcileRun, Step, TryAppend, Appends
  <2>2. e.type = "RunInterrupted" /\ e.type \in RunTerminals
    BY DEF RunEvent, RunTerminals
  <2>3. Goto("release") => ~Return(c, Failed)
    BY <1>0, GotoFacts DEF Return, Idle
  <2> HIDE DEF e
  <2>4. OpRun' /\ Proceeds /\ RunChanges
    BY <1>5, <2>1, <2>2, <2>3
  <2> QED BY <1>u, <2>4
<1>t. \A type : Transfer(type, Direction).type = type
  BY DEF Transfer, HandoffEvent
<1>8. CASE ProposeHandoff
  <2>1. /\ op.kind \in {"to_child", "to_parent"}
        /\ Appends(Transfer("HandoffProposed", Direction))
        /\ Goto("cas") \/ Return(c, Failed)
    BY <1>8 DEF ProposeHandoff, TryAppend, Appends
  <2>2. log'.run = log.run /\ RunChanges
    BY <1>h, <1>t, <2>1, PlainAppend DEF HandoffEvents
  <2>3. CASE Goto("cas")
    <3>1. OpRun' /\ Proceeds
      BY <1>0, <2>1, <2>2, <2>3, JumpRun DEF Pcs
    <3> QED BY <1>u, <2>2, <3>1
  <2> QED BY <1>u, <1>f, <1>r, <2>1, <2>2, <2>3, AnswerRun
<1>9. CASE CommitHandoffFrom
  <2>1. /\ op.kind \in {"to_child", "to_parent"} /\ log' = log
        /\ Goto("commit") \/ Goto("cas_failed")
    BY <1>9 DEF CommitHandoffFrom, TryLease, OpRun, OpShape
  <2>2. OpRun' /\ Proceeds
    BY <1>0, <2>1, JumpRun DEF Pcs
  <2> QED BY <1>u, <2>1, <2>2 DEF RunChanges
<1>10. CASE HandoffFailed
  <2>1. Appends(Transfer("HandoffFailed", Direction)) /\ Return(c, Failed)
    BY <1>10 DEF HandoffFailed, TryAppend, Appends
  <2>2. RunChanges
    BY <1>h, <1>t, <2>1, PlainAppend DEF HandoffEvents
  <2> QED BY <1>u, <1>f, <1>r, <2>1, <2>2, AnswerRun
<1>11. CASE HandoffCommitted
  <2>1. /\ op.kind \in {"to_child", "to_parent"}
        /\ Appends(Transfer("HandoffCommitted", Direction))
        /\ \/ op.kind = "to_child" /\ Goto("child_start")
           \/ Return(c, Done(Transferred)) \/ Return(c, Failed)
    BY <1>11 DEF HandoffCommitted, TryAppend, Appends, OpRun, OpShape
  <2>2. log'.run = log.run /\ RunChanges
    BY <1>h, <1>t, <2>1, PlainAppend DEF HandoffEvents
  <2>3. CASE op.kind = "to_child" /\ Goto("child_start")
    <3>1. OpRun' /\ Proceeds
      BY <1>0, <2>2, <2>3, JumpRun DEF Pcs
    <3> QED BY <1>u, <2>2, <3>1
  <2>4. Answers(Done(Transferred))
    BY <1>r, <2>1 DEF Answers
  <2> QED BY <1>u, <1>f, <1>r, <2>1, <2>2, <2>3, <2>4, AnswerRun
<1>12. CASE ChildRunStarted
  <2> DEFINE e == HandoffEvent("ChildRunStarted", "none", op.claim.run, op.handoff,
                               NoOwner, op.to, op.claim.fence + 1)
  <2>1. /\ op.kind = "to_child" /\ Appends(e)
        /\ Return(c, Done(Transferred)) \/ Goto("child_start_failed")
    BY <1>12 DEF ChildRunStarted, TryAppend, Appends, OpRun, OpShape
  <2>2. e.type = "ChildRunStarted"
    BY DEF HandoffEvent
  <2> HIDE DEF e
  <2>3. log'.run = log.run /\ RunChanges
    BY <1>h, <2>1, <2>2, PlainAppend
  <2>4. CASE Goto("child_start_failed")
    <3>1. OpRun' /\ Proceeds
      BY <1>0, <2>1, <2>3, <2>4, JumpRun DEF Pcs
    <3> QED BY <1>u, <2>3, <3>1
  <2>5. Answers(Done(Transferred))
    BY <1>r, <2>1 DEF Answers
  <2> QED BY <1>u, <1>r, <2>1, <2>3, <2>4, <2>5, AnswerRun
<1>13. CASE ReturnChild
  <2> DEFINE e == ChildEvent(op.type, log.child, log.child.owner, log.child.fence)
  <2>1. /\ op.kind = "to_parent" /\ op.type \in ChildTerminals /\ Appends(e)
        /\ Goto("propose") \/ Return(c, Failed)
    BY <1>0, <1>13 DEF ReturnChild, Step, TryAppend, Appends, OpOK
  <2>2. e.type \notin RunTerminals \cup {"RunStarted"}
    BY <1>h, <2>1 DEF ChildEvent
  <2> HIDE DEF e
  <2>3. log'.run = log.run /\ RunChanges
    BY <2>1, <2>2, PlainAppend
  <2>4. CASE Goto("propose")
    <3>1. OpRun' /\ Proceeds
      BY <1>0, <2>1, <2>3, <2>4, JumpRun DEF Pcs
    <3> QED BY <1>u, <2>3, <3>1
  <2> QED BY <1>u, <1>f, <1>r, <2>1, <2>3, <2>4, AnswerRun
<1>14. CASE ReconcileRollback
  <2> DEFINE e == HandoffEvent("HandoffRolledBack", "none", op.claim.run,
                               log.prop.handoff, NoOwner, NoOwner, op.claim.fence)
  <2>1. /\ op.kind = "reconcile" /\ Appends(e)
        /\ Goto("child_interrupt") \/ Goto("interrupt") \/ Return(c, Failed)
    BY <1>14 DEF ReconcileRollback, Step, TryAppend, Appends, AfterRollback
  <2>2. e.type \notin RunTerminals \cup {"RunStarted"}
    BY <1>h DEF HandoffEvent, HandoffEvents
  <2> HIDE DEF e
  <2>3. log'.run = log.run /\ RunChanges
    BY <2>1, <2>2, PlainAppend
  <2>4. CASE Goto("child_interrupt") \/ Goto("interrupt")
    <3>1. OpRun' /\ Proceeds
      BY <1>0, <2>1, <2>3, <2>4, JumpRun DEF Pcs
    <3> QED BY <1>u, <2>3, <3>1
  <2> QED BY <1>u, <1>f, <1>r, <2>1, <2>3, <2>4, AnswerRun
<1>15. CASE ReconcileChild
  <2> DEFINE e == ChildEvent("ChildRunInterrupted", log.child, log.child.owner,
                             log.child.fence)
  <2>1. /\ op.kind = "reconcile" /\ Appends(e)
        /\ Goto("interrupt") \/ Return(c, Failed)
    BY <1>15 DEF ReconcileChild, Step, TryAppend, Appends
  <2>2. e.type \notin RunTerminals \cup {"RunStarted"}
    BY <1>h DEF ChildEvent, ChildTerminals
  <2> HIDE DEF e
  <2>3. log'.run = log.run /\ RunChanges
    BY <2>1, <2>2, PlainAppend
  <2>4. CASE Goto("interrupt")
    <3>1. OpRun' /\ Proceeds
      BY <1>0, <2>1, <2>3, <2>4, JumpRun DEF Pcs
    <3> QED BY <1>u, <2>3, <3>1
  <2> QED BY <1>u, <1>f, <1>r, <2>1, <2>3, <2>4, AnswerRun
<1> QED BY <1>1, <1>2, <1>3, <1>4, <1>6, <1>7, <1>8, <1>9, <1>10, <1>11, <1>12, <1>13,
           <1>14, <1>15 DEF KernelStep

(***************************************************************************)
(* What a call leaves behind: the answer of a call that is over at once,   *)
(* or the program of a call that goes on, which is about the claim it was  *)
(* called with.                                                            *)
(***************************************************************************)
TurnedDown(c) == op' = Idle /\ ret' = [ret EXCEPT ![c] = Failed] /\ log' = log /\ runs' = runs

Launched(c, kind, claim, type) ==
    /\ op'.kind = kind /\ op'.caller = c /\ op'.claim = claim /\ op'.type = type
    /\ ret' = [ret EXCEPT ![c] = NoResult] /\ log' = log

LEMMA BeginRunFacts ==
    ASSUME NEW c, NEW p, BeginExecute(c, p)
    PROVE  /\ op = Idle /\ OpRun'
           /\ \/ TurnedDown(c)
              \/ /\ \E k : k.run = runs + 1 /\ Launched(c, "begin", k, "RunStarted")
                 /\ runs' = runs + 1
<1>0. op = Idle
  BY DEF BeginExecute
<1>1. CASE TurnedDown(c)
  BY <1>0, <1>1, IdleRun DEF TurnedDown
<1>2. CASE ~TurnedDown(c)
  <2> DEFINE k == [run |-> runs + 1, owner |-> Primary(p), fence |-> lease.fence + 1]
  <2>1. /\ Begin(c, "begin", "started", k, "RunStarted", NoOwner)
        /\ runs' = runs + 1 /\ log' = log /\ ~Active(log) /\ ~log.terminal
    BY <1>2 DEF BeginExecute, TurnedDown, Reject, TryLease, Return, CanStart
  <2>2. k.run = runs + 1 /\ Launched(c, "begin", k, "RunStarted") /\ op'.pc = "started"
    BY <2>1 DEF Begin, Launched
  <2>3. OpRun'
    BY <2>1, <2>2 DEF OpRun, OpShape, Launched, Active
  <2> HIDE DEF k
  <2> QED BY <1>0, <2>1, <2>2, <2>3
<1> QED BY <1>1, <1>2

LEMMA TerminalFacts ==
    ASSUME NEW c, NEW k, NEW type, TerminalExecute(c, k, type)
    PROVE  /\ op = Idle /\ OpRun' /\ runs' = runs
           /\ TurnedDown(c) \/ Launched(c, "end", k, type)
<1>0. op = Idle
  BY DEF TerminalExecute
<1>1. CASE TurnedDown(c)
  BY <1>0, <1>1, IdleRun DEF TurnedDown
<1>2. CASE ~TurnedDown(c)
  <2>1. /\ Begin(c, "end", IF log.child.id # 0 THEN "child" ELSE "terminal", k, type, NoOwner)
        /\ runs' = runs /\ log' = log /\ Names(k)
    BY <1>2 DEF TerminalExecute, TurnedDown, Reject, Return, MayEnd, Names
  <2>2. Launched(c, "end", k, type) /\ op'.pc \in {"child", "terminal"}
    BY <2>1 DEF Begin, Launched
  <2>3. OpRun'
    BY <2>1, <2>2 DEF OpRun, OpShape, Launched, Names
  <2> QED BY <1>0, <2>1, <2>2, <2>3
<1> QED BY <1>1, <1>2

LEMMA HandoffFacts ==
    ASSUME NEW c, NEW k
    PROVE  /\ BeginChildHandoff(c, k) =>
                 /\ op = Idle /\ OpRun' /\ runs' = runs
                 /\ TurnedDown(c) \/ Launched(c, "to_child", k, "none")
           /\ \A p, type : TerminalChildHandoff(c, k, p, type) =>
                 /\ op = Idle /\ OpRun' /\ runs' = runs
                 /\ TurnedDown(c) \/ Launched(c, "to_parent", k, type)
<1>1. ASSUME BeginChildHandoff(c, k)
      PROVE  /\ op = Idle /\ OpRun' /\ runs' = runs
             /\ TurnedDown(c) \/ Launched(c, "to_child", k, "none")
  <2>1. CASE TurnedDown(c)
    BY <1>1, <2>1, IdleRun DEF TurnedDown, BeginChildHandoff
  <2>2. CASE ~TurnedDown(c)
    <3>1. Launched(c, "to_child", k, "none") /\ op'.pc = "propose" /\ runs' = runs /\ op = Idle
      BY <1>1, <2>2 DEF BeginChildHandoff, TurnedDown, Reject, Return, Launched
    <3> QED BY <3>1 DEF OpRun, OpShape, Launched
  <2> QED BY <2>1, <2>2
<1>2. ASSUME NEW p, NEW type, TerminalChildHandoff(c, k, p, type)
      PROVE  /\ op = Idle /\ OpRun' /\ runs' = runs
             /\ TurnedDown(c) \/ Launched(c, "to_parent", k, type)
  <2>1. CASE TurnedDown(c)
    BY <1>2, <2>1, IdleRun DEF TurnedDown, TerminalChildHandoff
  <2>2. CASE ~TurnedDown(c)
    <3>1. Launched(c, "to_parent", k, type) /\ op'.pc = "child" /\ runs' = runs /\ op = Idle
      BY <1>2, <2>2 DEF TerminalChildHandoff, TurnedDown, Reject, Return, Launched
    <3> QED BY <3>1 DEF OpRun, OpShape, Launched
  <2> QED BY <2>1, <2>2
<1> QED BY <1>1, <1>2

LEMMA ReconcileFacts ==
    ASSUME NEW c, NEW run, Reconcile(c, run)
    PROVE  /\ op = Idle /\ OpRun' /\ runs' = runs
           /\ \/ TurnedDown(c)
              \/ \E k : (run # 0 => k.run = run) /\ Launched(c, "reconcile", k, "RunInterrupted")
<1>0. op = Idle
  BY DEF Reconcile
<1>1. CASE TurnedDown(c)
  BY <1>0, <1>1, IdleRun DEF TurnedDown
<1>2. CASE ~TurnedDown(c)
  <2> DEFINE k == [run |-> log.run.id, owner |-> lease.owner, fence |-> lease.fence]
             at == IF log.prop.handoff # 0 THEN "rollback" ELSE AfterRollback
  <2>1. /\ Begin(c, "reconcile", at, k, "RunInterrupted", NoOwner)
        /\ runs' = runs /\ log' = log
        /\ run # 0 => run = log.run.id
    BY <1>2 DEF Reconcile, TurnedDown, Reject, Return, MayReconcile
  <2>2. /\ Launched(c, "reconcile", k, "RunInterrupted")
        /\ op'.pc \in {"rollback", "child_interrupt", "interrupt"}
        /\ run # 0 => k.run = run
    BY <2>1 DEF Begin, Launched, AfterRollback
  <2>3. OpRun'
    BY <2>2 DEF OpRun, OpShape, Launched
  <2> HIDE DEF k
  <2> QED BY <1>0, <2>1, <2>2, <2>3
<1> QED BY <1>1, <1>2

(* A call that appends one event and is over, and leaves the run alone. *)
LEMMA OneEventFacts ==
    ASSUME NEW c, NEW k, NEW type,
           \/ RecordProgress(c, k)
           \/ type \in TaskTerminals /\ AppendLifecycle(c, type, k)
    PROVE  /\ op = Idle /\ op' = Idle /\ OpRun' /\ runs' = runs /\ log'.run = log.run
           /\ \E r \in Result : ret' = [ret EXCEPT ![c] = r]
<1> DEFINE e == RunEvent("RunProgress", "none", k.run, k.owner, k.fence)
<1>1. e.type = "RunProgress" /\ Plain(type).type = type
  BY DEF RunEvent, Plain
<1>2. ASSUME NEW x, AppendCall(c, x), x.type \notin RunTerminals \cup {"RunStarted"}
      PROVE  /\ op' = Idle /\ runs' = runs /\ log'.run = log.run
             /\ \E r \in Result : ret' = [ret EXCEPT ![c] = r]
  <2>1. Appends(x) /\ runs' = runs
    BY <1>2 DEF AppendCall, TryAppend, Appends
  <2>2. op' = Idle /\ \E r \in Result : ret' = [ret EXCEPT ![c] = r]
    BY <1>2, ResultTypes DEF AppendCall, TryAppend, Return
  <2> QED BY <1>2, <2>1, <2>2, PlainAppend
<1>3. ASSUME Reject(c)
      PROVE  /\ op' = Idle /\ runs' = runs /\ log'.run = log.run
             /\ \E r \in Result : ret' = [ret EXCEPT ![c] = r]
  BY <1>3, ResultTypes DEF Reject, Return
<1> HIDE DEF e
<1>4. CASE RecordProgress(c, k)
  <2>1. op = Idle /\ (AppendCall(c, e) \/ Reject(c))
    BY <1>4 DEF RecordProgress, e
  <2>2. e.type \notin RunTerminals \cup {"RunStarted"}
    BY <1>1 DEF RunTerminals
  <2> QED BY <1>2, <1>3, <2>1, <2>2, IdleRun
<1>5. CASE type \in TaskTerminals /\ AppendLifecycle(c, type, k)
  <2>1. op = Idle /\ (AppendCall(c, Plain(type)) \/ Reject(c))
    BY <1>5 DEF AppendLifecycle
  <2>2. Plain(type).type \notin RunTerminals \cup {"RunStarted"}
    BY <1>1, <1>5 DEF RunTerminals, TaskTerminals
  <2> QED BY <1>2, <1>3, <2>1, <2>2, IdleRun
<1> QED BY <1>4, <1>5

-----------------------------------------------------------------------------
(***************************************************************************)
(* Runs one after the other: an append makes a run active only where no    *)
(* run is and the task is not over.                                        *)
(***************************************************************************)
InSequence == Active(log') /\ log'.run # log.run => ~Active(log) /\ ~log.terminal

LEMMA OtherAppend ==
    ASSUME NEW e, e.type # "RunStarted", Appends(e)
    PROVE  InSequence
<1>1. CASE e.type \in RunTerminals
  BY <1>1, AppendRun DEF Appends, InSequence, Active
<1>2. CASE e.type \notin RunTerminals
  BY <1>2, AppendRun DEF Appends, InSequence
<1> QED BY <1>1, <1>2

LEMMA StepInSequence ==
    ASSUME KernelOK, OpRun, KernelStep
    PROVE  InSequence
<1>0. /\ op.kind = "end" => op.type \in RunTerminals
      /\ op.kind = "to_parent" => op.type \in ChildTerminals
  BY DEF KernelOK, OpOK
<1>1. CASE RunStarted
  BY <1>1 DEF RunStarted, Step, OpRun, InSequence
<1>2. ASSUME NEW STATE e, NEW ACTION Then, NEW ACTION Else, e.type # "RunStarted",
             TryAppend(e, Then, Else)
      PROVE  InSequence
  BY <1>2, OtherAppend DEF TryAppend, Appends
<1>3. CASE AbandonBegin \/ EndRelease \/ CommitHandoffFrom
  BY <1>3 DEF AbandonBegin, EndRelease, CommitHandoffFrom, InSequence
<1>4. CASE EndChild
  <2>1. ChildTerminalFor[op.type] # "RunStarted"
    BY <1>0, <1>4 DEF EndChild, Step, ChildTerminalFor, RunTerminals
  <2> QED BY <1>2, <1>4, <2>1 DEF EndChild, ChildEvent
<1>5. CASE EndRun
  <2>1. op.type # "RunStarted"
    BY <1>0, <1>5 DEF EndRun, Step, RunTerminals
  <2> QED BY <1>2, <1>5, <2>1 DEF EndRun, RunEvent
<1>6. CASE ReturnChild
  <2>1. op.type # "RunStarted"
    BY <1>0, <1>6 DEF ReturnChild, Step, ChildTerminals
  <2> QED BY <1>2, <1>6, <2>1 DEF ReturnChild, ChildEvent
<1>7. CASE ProposeHandoff \/ HandoffFailed \/ HandoffCommitted \/ ChildRunStarted
  BY <1>2, <1>7 DEF ProposeHandoff, HandoffFailed, HandoffCommitted, ChildRunStarted,
     Transfer, HandoffEvent
<1>8. CASE ReconcileRollback \/ ReconcileChild \/ ReconcileRun
  BY <1>2, <1>8 DEF ReconcileRollback, ReconcileChild, ReconcileRun, HandoffEvent,
     ChildEvent, RunEvent
<1> QED BY <1>1, <1>3, <1>4, <1>5, <1>6, <1>7, <1>8 DEF KernelStep
-----------------------------------------------------------------------------
(***************************************************************************)
(* What one event more does to the folds, by the kind of event.            *)
(***************************************************************************)
QuietTypes == {"TaskCreated", "RunProgress"} \cup InputEvents \cup TaskTerminals

LEMMA Folds ==
    ASSUME NEW l \in Log, NEW e
    PROVE  /\ AppendEvent(l, e).state = StateAfter(l, e)
           /\ AppendEvent(l, e).run = RunAfter(l, e)
           /\ AppendEvent(l, e).child = ChildAfter(l, e)
           /\ AppendEvent(l, e).prop = PropAfter(l, e)
           /\ AppendEvent(l, e).commit = CommitAfter(l, e)
           /\ AppendEvent(l, e).parents = ParentsAfter(l, e)
           /\ AppendEvent(l, e).fence = FenceAfter(l, e)
           /\ AppendEvent(l, e).terminal = (l.terminal \/ Ends(e))
           /\ AppendEvent(l, e).removed = (l.removed \/ e.type = "TaskRemoved")
           /\ AppendEvent(l, e).check = CheckAfter(l, e)
           /\ AppendEvent(l, e).valid = (l.valid /\ Coherent(l, e))
  BY DEF AppendEvent

LEMMA OneMore ==
    ASSUME NEW l \in Log, NEW e
    PROVE  Total(l) \in Nat /\ Total(AppendEvent(l, e)) = Total(l) + 1
<1>1. l.ordinary \in Nat /\ l.control \in Nat
  BY DEF Log
<1>2. /\ AppendEvent(l, e).ordinary = IF e.type \in ControlEvents THEN l.ordinary
                                                                  ELSE l.ordinary + 1
      /\ AppendEvent(l, e).control = IF e.type \in ControlEvents THEN l.control + 1
                                                                 ELSE l.control
  BY DEF AppendEvent
<1> QED BY <1>1, <1>2 DEF Total

(* An event that changes none of the folds the handoffs are read from. *)
SameHandoffs(l, m) ==
    m.child = l.child /\ m.prop = l.prop /\ m.commit = l.commit /\ m.parents = l.parents

LEMMA QuietFolds ==
    ASSUME NEW l \in Log, NEW e, e.type \in QuietTypes
    PROVE  LET m == AppendEvent(l, e)
           IN  /\ SameHandoffs(l, m) /\ m.check = l.check /\ m.fence = l.fence
               /\ m.run = l.run /\ m.state = l.state /\ m.valid = l.valid
               /\ m.terminal = (l.terminal \/ e.type \in TaskTerminals)
               /\ m.removed = (l.removed \/ e.type = "TaskRemoved")
<1>1. l.valid \in BOOLEAN
  BY DEF Log
<1>2. e.type \notin RunTerminals \cup ChildTerminals \cup HandoffEvents
                       \cup {"RunStarted", "ChildRunStarted"}
  BY DEF QuietTypes, InputEvents, TaskTerminals, RunTerminals, ChildTerminals, HandoffEvents
<1>3. Coherent(l, e)
  BY <1>2 DEF Coherent, HandoffEvents
<1>4. RunAfter(l, e) = l.run /\ StateAfter(l, e) = l.state /\ ChildAfter(l, e) = l.child
  BY <1>2 DEF RunAfter, StateAfter, ChildAfter
<1>5. PropAfter(l, e) = l.prop /\ CommitAfter(l, e) = l.commit /\ ParentsAfter(l, e) = l.parents
  BY <1>2 DEF PropAfter, CommitAfter, ParentsAfter, HandoffEvents
<1>6. CheckAfter(l, e) = l.check /\ FenceAfter(l, e) = l.fence
  BY <1>2 DEF CheckAfter, FenceAfter, AuthorityEvents, HandoffEvents, RunTerminals
<1>7. Ends(e) <=> e.type \in TaskTerminals
  BY <1>2 DEF Ends
<1> QED BY <1>1, <1>3, <1>4, <1>5, <1>6, <1>7, Folds DEF SameHandoffs

LEMMA EndFolds ==
    ASSUME NEW l \in Log, NEW e, e.type \in RunTerminals
    PROVE  LET m == AppendEvent(l, e)
           IN  /\ SameHandoffs(l, m) /\ m.check = l.check
               /\ m.fence = l.fence \/ e.type = "RunInterrupted"
               /\ m.run = NoRun /\ m.state # "running" /\ m.valid = l.valid
               /\ m.terminal = (l.terminal \/ e.type # "RunInterrupted")
               /\ m.removed = l.removed
<1>1. l.valid \in BOOLEAN /\ l.removed \in BOOLEAN
  BY DEF Log
<1>2. e.type \notin ChildTerminals \cup HandoffEvents \cup {"RunStarted", "ChildRunStarted"}
                        \cup TaskTerminals
  BY DEF TaskTerminals, RunTerminals, ChildTerminals, HandoffEvents
<1>3. Coherent(l, e)
  BY <1>2 DEF Coherent, HandoffEvents
<1>4. RunAfter(l, e) = NoRun /\ ChildAfter(l, e) = l.child
  BY <1>2 DEF RunAfter, ChildAfter
<1>5. PropAfter(l, e) = l.prop /\ CommitAfter(l, e) = l.commit /\ ParentsAfter(l, e) = l.parents
  BY <1>2 DEF PropAfter, CommitAfter, ParentsAfter, HandoffEvents
<1>6. CheckAfter(l, e) = l.check
  BY <1>2 DEF CheckAfter, HandoffEvents
<1>7. FenceAfter(l, e) = l.fence \/ e.type = "RunInterrupted"
  BY <1>2 DEF FenceAfter, AuthorityEvents, HandoffEvents
<1>8. Ends(e) <=> e.type # "RunInterrupted"
  BY <1>2 DEF Ends
<1>9. StateAfter(l, e) # "running"
  BY DEF StateAfter, RunState, RunTerminals
<1>10. e.type # "TaskRemoved"
  BY <1>2 DEF TaskTerminals
<1> QED BY <1>1, <1>3, <1>4, <1>5, <1>6, <1>7, <1>8, <1>9, <1>10, Folds DEF SameHandoffs

LEMMA StartFolds ==
    ASSUME NEW l \in Log, NEW e, e.type = "RunStarted"
    PROVE  LET m == AppendEvent(l, e)
           IN  /\ SameHandoffs(l, m)
               /\ m.check = IF e.kind = "execute"
                            THEN [run |-> e.run, fence |-> e.fence, child |-> 0, last |-> 0,
                                  dir |-> "none"]
                            ELSE l.check
               /\ m.run = [kind |-> e.kind, id |-> e.run, owner |-> e.owner, fence |-> e.fence]
               /\ m.state = "running" /\ m.valid = l.valid
               /\ m.terminal = l.terminal /\ m.removed = l.removed
<1>1. l.valid \in BOOLEAN /\ l.removed \in BOOLEAN /\ l.terminal \in BOOLEAN
  BY DEF Log
<1>2. e.type \notin ChildTerminals \cup HandoffEvents \cup RunTerminals \cup TaskTerminals
  BY DEF TaskTerminals, RunTerminals, ChildTerminals, HandoffEvents
<1>3. Coherent(l, e)
  BY <1>2 DEF Coherent, HandoffEvents
<1>4. /\ RunAfter(l, e) = [kind |-> e.kind, id |-> e.run, owner |-> e.owner, fence |-> e.fence]
      /\ ChildAfter(l, e) = l.child
  BY <1>2 DEF RunAfter, ChildAfter
<1>5. PropAfter(l, e) = l.prop /\ CommitAfter(l, e) = l.commit /\ ParentsAfter(l, e) = l.parents
  BY <1>2 DEF PropAfter, CommitAfter, ParentsAfter, HandoffEvents
<1>6. CheckAfter(l, e) = IF e.kind = "execute"
                         THEN [run |-> e.run, fence |-> e.fence, child |-> 0, last |-> 0,
                               dir |-> "none"]
                         ELSE l.check
  BY <1>2 DEF CheckAfter, HandoffEvents
<1>8. ~Ends(e)
  BY <1>2 DEF Ends
<1>9. StateAfter(l, e) = "running"
  BY DEF StateAfter, RunState, RunTerminals
<1>10. e.type # "TaskRemoved"
  BY <1>2 DEF TaskTerminals
<1> QED BY <1>1, <1>3, <1>4, <1>5, <1>6, <1>8, <1>9, <1>10, Folds DEF SameHandoffs

(* The events of a handoff leave the run and the task alone. *)
SameTask(l, m) ==
    m.run = l.run /\ m.state = l.state /\ m.terminal = l.terminal /\ m.removed = l.removed

HandoffTypes == ChildTerminals \cup HandoffEvents \cup {"ChildRunStarted"}

LEMMA TaskFolds ==
    ASSUME NEW l \in Log, NEW e, e.type \in HandoffTypes
    PROVE  SameTask(l, AppendEvent(l, e))
<1>1. l.removed \in BOOLEAN /\ l.terminal \in BOOLEAN
  BY DEF Log
<1>2. e.type \notin RunTerminals \cup TaskTerminals \cup {"RunStarted"}
  BY DEF HandoffTypes, TaskTerminals, RunTerminals, ChildTerminals, HandoffEvents
<1>3. RunAfter(l, e) = l.run /\ StateAfter(l, e) = l.state
  BY <1>2 DEF RunAfter, StateAfter
<1>4. ~Ends(e) /\ e.type # "TaskRemoved"
  BY <1>2 DEF Ends, TaskTerminals
<1> QED BY <1>1, <1>3, <1>4, Folds DEF SameTask

LEMMA ChildEndFolds ==
    ASSUME NEW l \in Log, NEW e, e.type \in ChildTerminals
    PROVE  LET m == AppendEvent(l, e)
           IN  /\ SameTask(l, m) /\ m.child = NoChild /\ m.prop = l.prop
               /\ m.commit = l.commit /\ m.parents = l.parents
               /\ m.check.child = 0 /\ m.check.run = l.check.run
               /\ m.check.fence = l.check.fence /\ m.check.dir = l.check.dir
               /\ l.valid /\ l.check.child # 0 /\ l.check.child = e.handoff => m.valid
<1>0. SameTask(l, AppendEvent(l, e))
  BY TaskFolds DEF HandoffTypes
<1>1. l.check \in [run: Nat, fence: Nat, child: Nat, last: Nat, dir: {"none", ToChild, ToParent}]
  BY DEF Log
<1>2. e.type \notin HandoffEvents \cup RunTerminals \cup {"RunStarted", "ChildRunStarted"}
  BY DEF RunTerminals, ChildTerminals, HandoffEvents
<1>3. l.check.child # 0 /\ l.check.child = e.handoff => Coherent(l, e)
  BY <1>2 DEF Coherent, HandoffEvents
<1>4. ChildAfter(l, e) = NoChild
  BY <1>2 DEF ChildAfter
<1>5. PropAfter(l, e) = l.prop /\ CommitAfter(l, e) = l.commit /\ ParentsAfter(l, e) = l.parents
  BY <1>2 DEF PropAfter, CommitAfter, ParentsAfter, HandoffEvents
<1>6. CheckAfter(l, e) = [l.check EXCEPT !.child = 0]
  BY <1>2 DEF CheckAfter, HandoffEvents
<1> QED BY <1>0, <1>1, <1>3, <1>4, <1>5, <1>6, Folds

LEMMA ProposeFolds ==
    ASSUME NEW l \in Log, NEW e, e.type = "HandoffProposed"
    PROVE  LET m == AppendEvent(l, e)
           IN  /\ SameTask(l, m) /\ m.child = l.child
               /\ m.prop = [handoff |-> e.handoff, dir |-> e.kind, from |-> e.from,
                            to |-> e.owner, next |-> e.fence]
               /\ m.commit = l.commit /\ m.parents = l.parents /\ m.check = l.check
               /\ m.fence = l.fence
               /\ l.valid /\ CoherentProposal(l, e) => m.valid
<1>0. SameTask(l, AppendEvent(l, e))
  BY TaskFolds DEF HandoffTypes, HandoffEvents
<1>1. e.type \in HandoffEvents
      /\ e.type \notin ChildTerminals \cup RunTerminals \cup {"RunStarted", "ChildRunStarted"}
  BY DEF RunTerminals, ChildTerminals, HandoffEvents
<1>2. CoherentProposal(l, e) => Coherent(l, e)
  BY <1>1 DEF Coherent
<1>3. ChildAfter(l, e) = l.child /\ CommitAfter(l, e) = l.commit /\ ParentsAfter(l, e) = l.parents
  BY <1>1 DEF ChildAfter, CommitAfter, ParentsAfter
<1>4. PropAfter(l, e) = [handoff |-> e.handoff, dir |-> e.kind, from |-> e.from,
                         to |-> e.owner, next |-> e.fence]
  BY <1>1 DEF PropAfter
<1>5. CheckAfter(l, e) = l.check /\ FenceAfter(l, e) = l.fence
  BY <1>1 DEF CheckAfter, FenceAfter, AuthorityEvents, RunTerminals
<1> QED BY <1>0, <1>2, <1>3, <1>4, <1>5, Folds

LEMMA CloseFolds ==
    ASSUME NEW l \in Log, NEW e, e.type \in {"HandoffFailed", "HandoffRolledBack"}
    PROVE  LET m == AppendEvent(l, e)
           IN  /\ SameTask(l, m) /\ m.child = l.child
               /\ m.prop = IF l.prop.handoff = e.handoff THEN NoProp ELSE l.prop
               /\ m.commit = l.commit /\ m.parents = l.parents /\ m.check = l.check
               /\ m.fence = l.fence /\ m.valid = l.valid
<1>0. SameTask(l, AppendEvent(l, e)) /\ l.valid \in BOOLEAN
  BY TaskFolds DEF HandoffTypes, HandoffEvents, Log
<1>1. e.type \in HandoffEvents \ {"HandoffProposed"} /\ e.type # "HandoffCommitted"
      /\ e.type \notin ChildTerminals \cup RunTerminals \cup {"RunStarted", "ChildRunStarted"}
  BY DEF RunTerminals, ChildTerminals, HandoffEvents
<1>2. Coherent(l, e)
  BY <1>1 DEF Coherent
<1>3. ChildAfter(l, e) = l.child /\ CommitAfter(l, e) = l.commit /\ ParentsAfter(l, e) = l.parents
  BY <1>1 DEF ChildAfter, CommitAfter, ParentsAfter
<1>4. PropAfter(l, e) = IF l.prop.handoff = e.handoff THEN NoProp ELSE l.prop
  BY <1>1 DEF PropAfter
<1>5. CheckAfter(l, e) = l.check /\ FenceAfter(l, e) = l.fence
  BY <1>1 DEF CheckAfter, FenceAfter, AuthorityEvents, RunTerminals
<1> QED BY <1>0, <1>2, <1>3, <1>4, <1>5, Folds

LEMMA CommitFolds ==
    ASSUME NEW l \in Log, NEW e, e.type = "HandoffCommitted", l.prop.handoff = e.handoff
    PROVE  LET m == AppendEvent(l, e)
           IN  /\ SameTask(l, m) /\ m.child = l.child /\ m.prop = NoProp
               /\ m.commit = [run |-> e.run, owner |-> e.owner, fence |-> e.fence]
               /\ m.parents = l.parents
               /\ m.check = [run |-> l.check.run, fence |-> e.fence, last |-> e.handoff,
                             dir |-> e.kind,
                             child |-> IF e.kind = ToParent THEN 0 ELSE l.check.child]
               /\ l.valid /\ CoherentCommit(l, e) => m.valid
<1>0. SameTask(l, AppendEvent(l, e))
  BY TaskFolds DEF HandoffTypes, HandoffEvents
<1>1. e.type \in HandoffEvents \ {"HandoffProposed"}
      /\ e.type \notin ChildTerminals \cup RunTerminals \cup {"RunStarted", "ChildRunStarted"}
  BY DEF RunTerminals, ChildTerminals, HandoffEvents
<1>2. CoherentCommit(l, e) => Coherent(l, e)
  BY <1>1 DEF Coherent
<1>3. /\ ChildAfter(l, e) = l.child /\ ParentsAfter(l, e) = l.parents
      /\ CommitAfter(l, e) = [run |-> e.run, owner |-> e.owner, fence |-> e.fence]
  BY <1>1 DEF ChildAfter, CommitAfter, ParentsAfter
<1>4. PropAfter(l, e) = NoProp
  BY <1>1 DEF PropAfter
<1>5. CheckAfter(l, e) = [run |-> l.check.run, fence |-> e.fence, last |-> e.handoff,
                          dir |-> e.kind,
                          child |-> IF e.kind = ToParent THEN 0 ELSE l.check.child]
  BY <1>1 DEF CheckAfter
<1> QED BY <1>0, <1>2, <1>3, <1>4, <1>5, Folds

LEMMA ChildStartFolds ==
    ASSUME NEW l \in Log, NEW e, e.type = "ChildRunStarted"
    PROVE  LET m == AppendEvent(l, e)
           IN  /\ SameTask(l, m) /\ m.prop = l.prop /\ m.commit = l.commit
               /\ m.child = [id |-> e.handoff, run |-> e.run, owner |-> e.owner,
                             fence |-> e.fence]
               /\ m.parents = l.parents \cup {e.run}
               /\ m.check.child = e.handoff /\ m.check.run = l.check.run
               /\ m.check.fence = l.check.fence /\ m.check.dir = l.check.dir
               /\ l.valid /\ CoherentChildStart(l, e) => m.valid
<1>0. SameTask(l, AppendEvent(l, e))
  BY TaskFolds DEF HandoffTypes
<1>1. e.type \notin HandoffEvents \cup ChildTerminals \cup RunTerminals \cup {"RunStarted"}
  BY DEF RunTerminals, ChildTerminals, HandoffEvents
<1>2. CoherentChildStart(l, e) => Coherent(l, e)
  BY <1>1 DEF Coherent, HandoffEvents
<1>3. l.check \in [run: Nat, fence: Nat, child: Nat, last: Nat, dir: {"none", ToChild, ToParent}]
  BY DEF Log
<1>4. /\ ChildAfter(l, e) = [id |-> e.handoff, run |-> e.run, owner |-> e.owner,
                             fence |-> e.fence]
      /\ PropAfter(l, e) = l.prop /\ CommitAfter(l, e) = l.commit
      /\ ParentsAfter(l, e) = l.parents \cup {e.run}
  BY <1>1 DEF ChildAfter, CommitAfter, ParentsAfter, PropAfter, HandoffEvents
<1>5. CheckAfter(l, e) = [l.check EXCEPT !.child = e.handoff]
  BY <1>1 DEF CheckAfter, HandoffEvents
<1> QED BY <1>0, <1>2, <1>3, <1>4, <1>5, Folds
=============================================================================
