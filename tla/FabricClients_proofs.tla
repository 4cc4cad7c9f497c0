------------------------- MODULE FabricClients_proofs -------------------------
(***************************************************************************)
(* What the Fabric kernel guarantees of its write lease for any number of  *)
(* callers, runs, handoffs and faults, any capacity and any set of         *)
(* operations.                                                             *)
(***************************************************************************)
EXTENDS FabricClients, FabricKernel_proofs, TLAPS

LEMMA EveryStepMoves == [Next]_vars => LeaseMoves
<1> SUFFICES ASSUME [Next]_vars PROVE LeaseMoves
  OBVIOUS
<1>1. CASE UNCHANGED vars
  BY <1>1 DEF vars, kernelVars, LeaseMoves
<1>2. CASE ApiCall
  BY <1>2, CallsMove DEF ApiCall, LeaseMoves
<1>3. CASE CancelRead \/ CancelWrite \/ CancelLifecycle \/ Crash
  BY <1>3, CallsMove DEF CancelRead, CancelWrite, CancelLifecycle, Crash, KernelCrash,
     kernelVars, LeaseMoves
<1>4. CASE Work
  BY <1>4, KernelStepMoves DEF Work
<1>5. CASE RecoverOrphans \/ Recovered
  BY <1>5, CallsMove DEF RecoverOrphans, Recovered, kernelVars, LeaseMoves
<1> QED BY <1>1, <1>2, <1>3, <1>4, <1>5 DEF Next, Progress, Requests

Forward ==
    /\ lease'.fence >= lease.fence
    /\ lease'.owner # lease.owner => lease'.fence > lease.fence

(***************************************************************************)
(* The fencing token of the lease never decreases, and the owner never     *)
(* changes without a new token: CommitHandoff, CommitHandoffFrom and       *)
(* Release all write token + 1, and nothing else writes the lease.         *)
(***************************************************************************)
THEOREM FencingIsMonotone == Spec => [][Forward]_vars
<1> DEFINE TokenOK == lease.fence \in Nat
<1>1. Init => TokenOK
  BY DEF Init, KernelInit
<1>2. TokenOK /\ LeaseMoves => TokenOK' /\ Forward
  <2> SUFFICES ASSUME TokenOK, LeaseMoves PROVE TokenOK' /\ Forward
    OBVIOUS
  <2> USE DEF Forward
  <2>1. CASE lease' = lease
    BY <2>1
  <2>2. CASE lease' # lease
    <3>1. PICK owner : lease' = [owner |-> owner, fence |-> lease.fence + 1]
      BY <2>2 DEF LeaseMoves
    <3>2. lease'.fence = lease.fence + 1
      BY <3>1
    <3> QED BY <3>2
  <2> QED BY <2>1, <2>2
<1>3. TokenOK /\ [Next]_vars => TokenOK' /\ [Forward]_vars
  BY <1>2, EveryStepMoves
<1> QED BY <1>1, <1>3, PTL DEF Spec

-----------------------------------------------------------------------------
(* What the callers of FabricClients know, and when they may call. *)
ClientsOK ==
    /\ issued \subseteq Claim
    /\ snapshot \in [pending: BOOLEAN, claim: Claim]
    /\ booted \in BOOLEAN

TypeInv == KernelOK /\ ClientsOK

LEMMA TypeStep == TypeInv /\ [Next]_vars => TypeInv'
<1> SUFFICES ASSUME TypeInv, [Next]_vars PROVE TypeInv'
  OBVIOUS
<1>0. KernelOK /\ issued \subseteq Claim /\ NoClaim \in Claim
  BY ResultTypes DEF TypeInv, ClientsOK
<1>1. CASE UNCHANGED vars
  BY <1>1 DEF vars, kernelVars, TypeInv, KernelOK, OpOK, RetOK, BoundsOK, ClientsOK
<1>2. CASE Next
  <2>1. KernelOK'
    <3>1. CASE ApiCall
      <4>1. \A k \in Presented : k \in Claim
        BY <1>0 DEF Presented
      <4>2. "api" \in Callers
        BY CallersAssumption
      <4> DEFINE Marking ==
                 \/ Create("api")
                 \/ \E kind \in {"mark", "session"}, p \in PrimaryOwners :
                       StartRun("api", kind, p)
                 \/ \E type \in RunTerminals : CloseRun("api", type)
                 \/ \E i, k : Remove("api", i, k)
                 \/ \E type \in TaskTerminals : \E k : AppendLifecycle("api", type, k)
                 \/ \E k \in Claim : RecordProgress("api", k)
                 \/ \E type \in InputEvents : \E k : InitialInput("api", type, k)
             Running ==
                 \/ \E p \in PrimaryOwners : BeginExecute("api", p)
                 \/ \E k \in Claim, type \in RunTerminals : TerminalExecute("api", k, type)
                 \/ \E k \in Claim : BeginChildHandoff("api", k)
                 \/ \E k \in Claim, type \in ChildTerminals : \E p :
                       Primary(p) \in Owner /\ TerminalChildHandoff("api", k, p, type)
                 \/ \E run : Reconcile("api", run)
      <4>3. Marking \/ Running
        BY <3>1, <4>1, OwnerTypes DEF ApiCall, RunTerminals, TaskTerminals
      <4>4. CASE Marking
        BY <1>0, <4>4, MarkTypes
      <4>5. CASE Running
        BY <1>0, <4>2, <4>5, ProgramTypes
      <4> QED BY <4>3, <4>4, <4>5
    <3>2. CASE CancelRead \/ Recovered
      BY <1>0, <3>2 DEF CancelRead, Recovered, kernelVars, KernelOK, OpOK, RetOK, BoundsOK
    <3>3. CASE CancelWrite
      <4>1. snapshot.claim \in Claim /\ "cancel" \in Callers
        BY CallersAssumption DEF TypeInv, ClientsOK
      <4> QED BY <1>0, <3>3, <4>1, ProgramTypes DEF CancelWrite, RunTerminals
    <3>4. CASE CancelLifecycle
      BY <1>0, <3>4, MarkTypes DEF CancelLifecycle, TaskTerminals
    <3>5. CASE Crash
      <4>1. OpOK'
        BY <3>5, IdleType DEF Crash, KernelCrash, OpOK
      <4>2. RetOK'
        BY <3>5, ResultTypes DEF Crash, KernelCrash, RetOK
      <4>3. BoundsOK'
        BY <1>0, <3>5, LoseTypes DEF Crash, KernelCrash, KernelOK, BoundsOK, Loses
      <4> QED BY <1>0, <3>5, <4>1, <4>2, <4>3 DEF Crash, KernelCrash, KernelOK
    <3>6. CASE Work
      BY <1>0, <3>6, KernelStepTypes DEF Work
    <3>7. CASE RecoverOrphans
      BY <1>0, <3>7, CallersAssumption, ProgramTypes DEF RecoverOrphans
    <3> QED BY <1>2, <3>1, <3>2, <3>3, <3>4, <3>5, <3>6, <3>7 DEF Next, Progress, Requests
  <2>2. issued' \subseteq Claim
    <3>1. \A c \in Callers : ret'[c].claim \in Claim
      BY <2>1 DEF KernelOK, RetOK, Result
    <3> QED BY <1>0, <1>2, <3>1 DEF Next, Progress, Requests, Record
  <2>3. snapshot' \in [pending: BOOLEAN, claim: Claim] /\ booted' \in BOOLEAN
    <3>1. CancelClaim(log) \in Claim
      BY <1>0, CancelClaimType DEF KernelOK
    <3>2. \/ snapshot' = snapshot \/ snapshot' = NoSnapshot
          \/ snapshot' = [pending |-> TRUE, claim |-> CancelClaim(log)]
      BY <1>2 DEF Next, Progress, Requests, ApiCall, CancelRead, CancelWrite,
         CancelLifecycle, Crash, Work, RecoverOrphans, Recovered
    <3>3. booted' = booted \/ booted' = TRUE \/ booted' = FALSE
      BY <1>2 DEF Next, Progress, Requests, ApiCall, CancelRead, CancelWrite,
         CancelLifecycle, Crash, Work, RecoverOrphans, Recovered
    <3>4. snapshot' \in [pending: BOOLEAN, claim: Claim]
      <4>1. NoSnapshot \in [pending: BOOLEAN, claim: Claim]
        BY <1>0 DEF NoSnapshot
      <4>2. [pending |-> TRUE, claim |-> CancelClaim(log)] \in [pending: BOOLEAN, claim: Claim]
        BY <3>1
      <4>3. snapshot \in [pending: BOOLEAN, claim: Claim]
        BY DEF TypeInv, ClientsOK
      <4> QED BY <3>2, <4>1, <4>2, <4>3, Zenon
    <3>5. booted' \in BOOLEAN
      BY <3>3 DEF TypeInv, ClientsOK
    <3> QED BY <3>4, <3>5
  <2> QED BY <2>1, <2>2, <2>3 DEF TypeInv, ClientsOK
<1> QED BY <1>1, <1>2

LEMMA TypeInvariant == Spec => []TypeInv
<1>1. Init => TypeInv
  <2> SUFFICES ASSUME Init PROVE TypeInv
    OBVIOUS
  <2>1. log \in Log
    BY OwnerTypes, ResultTypes
       DEF Init, KernelInit, EmptyLog, NoRun, NoChild, NoProp, NoCheck, Log
  <2>2. OpOK
    BY IdleType DEF Init, KernelInit, OpOK
  <2>3. RetOK /\ lease \in [owner: Owner, fence: Nat]
    BY OwnerTypes, ResultTypes DEF Init, KernelInit, RetOK
  <2>4. BoundsOK
    BY BoundsAssumption DEF Init, KernelInit, BoundsOK
  <2>5. ClientsOK
    BY ResultTypes DEF Init, NoSnapshot, ClientsOK
  <2> QED BY <2>1, <2>2, <2>3, <2>4, <2>5 DEF TypeInv, KernelOK
<1> QED BY <1>1, TypeStep, PTL DEF Spec

(***************************************************************************)
(* Every operation of Repo, every refused write and every crash keeps the  *)
(* log, the lease and the operation in flight well formed.                 *)
(***************************************************************************)
THEOREM TypeCorrect == Spec => []TypeOK
<1>1. TypeInv => TypeOK
  BY DEF TypeInv, KernelOK, ClientsOK, OpOK, RetOK, BoundsOK, Operation, Result, TypeOK,
     KernelTypeOK
<1> QED BY <1>1, TypeInvariant, PTL

-----------------------------------------------------------------------------
(***************************************************************************)
(* The log behind the lease.                                               *)
(***************************************************************************)
Behind(l, f) ==
    /\ l.fence \in 0..f /\ l.run.fence \in 0..f /\ l.child.fence \in 0..f
    /\ l.commit.fence \in 0..f /\ l.prop.next \in 0..(f + 1)

(* A program never claims a token the lease has not reached, and one that  *)
(* is past the compare-and-swap claims an older one.                       *)
OpBehind ==
    /\ op.claim.fence \in 0..lease.fence
    /\ op.pc \in {"commit", "child_start", "child_start_failed"}
          => op.claim.fence < lease.fence

BehindInv == lease.fence \in Nat /\ Behind(log, lease.fence) /\ OpBehind

(* A proposal may be one ahead of the lease, and what HandoffFailed says is *)
(* not looked at; no other event may run ahead.                             *)
Timely(e, f) ==
    e.type # "HandoffFailed"
        => e.fence \in 0..(IF e.type = "HandoffProposed" THEN f + 1 ELSE f)

LEMMA AppendBehind ==
    ASSUME NEW l, NEW e, NEW f \in Nat, Behind(l, f), Timely(e, f)
    PROVE  Behind(AppendEvent(l, e), f)
<1>1. AppendEvent(l, e).fence \in 0..f
  BY DEF AppendEvent, FenceAfter, AuthorityEvents, ChildTerminals, Behind, Timely
<1>2. AppendEvent(l, e).run.fence \in 0..f
  BY DEF AppendEvent, RunAfter, NoRun, Behind, Timely
<1>3. AppendEvent(l, e).child.fence \in 0..f
  BY DEF AppendEvent, ChildAfter, NoChild, Behind, Timely
<1>4. AppendEvent(l, e).commit.fence \in 0..f
  BY DEF AppendEvent, CommitAfter, Behind, Timely
<1>5. AppendEvent(l, e).prop.next \in 0..(f + 1)
  BY DEF AppendEvent, PropAfter, NoProp, Behind, Timely
<1> QED BY <1>1, <1>2, <1>3, <1>4, <1>5 DEF Behind

LEMMA ReturnBehind ==
    ASSUME lease'.fence \in Nat, NEW c, NEW r, Return(c, r)
    PROVE  OpBehind'
  BY DEF Return, OpBehind, Idle, NoClaim

LEMMA GotoBehind ==
    ASSUME OpOK, OpBehind, lease.fence \in Nat, lease'.fence \in Nat,
           lease'.fence >= lease.fence, NEW at, Goto(at),
           at \in {"commit", "child_start", "child_start_failed"}
               => op.claim.fence < lease'.fence
    PROVE  OpBehind'
<1>1. op' = [op EXCEPT !.pc = at] /\ op \in Operation
  BY DEF Goto, OpOK
<1>2. op'.claim = op.claim /\ op'.pc = at
  BY <1>1 DEF Operation
<1> QED BY <1>2 DEF OpBehind

LEMMA BehindAppend ==
    ASSUME BehindInv, NEW e, Timely(e, lease.fence), Appends(e), lease' = lease, OpBehind'
    PROVE  BehindInv'
  BY AppendBehind DEF BehindInv, Appends

LEMMA BehindMove ==
    ASSUME BehindInv, LeaseMoves, log' = log, OpBehind'
    PROVE  BehindInv'
<1>1. lease'.fence \in Nat /\ lease'.fence >= lease.fence
  BY DEF LeaseMoves, BehindInv
<1> QED BY <1>1 DEF BehindInv, Behind

(* A step of the program that holds Repo.mu. *)
LEMMA KernelStepBehind ==
    ASSUME KernelOK, BehindInv, KernelStep
    PROVE  BehindInv'
<1>0. /\ OpOK /\ OpBehind /\ lease.fence \in Nat /\ op.claim.fence \in Nat
      /\ op.claim.fence <= lease.fence /\ log.child.fence \in 0..lease.fence
  BY DEF KernelOK, BehindInv, OpBehind, Behind
<1>1. CASE AbandonBegin \/ EndRelease
  <2>1. LeaseMoves /\ log' = log /\ \E r : Return(op.caller, r)
    BY <1>1 DEF AbandonBegin, EndRelease, TryLease, LeaseMoves
  <2>2. lease'.fence \in Nat
    BY <1>0, <2>1 DEF LeaseMoves
  <2> QED BY <2>1, <2>2, ReturnBehind, BehindMove
<1>2. CASE CommitHandoffFrom
  <2>1. LeaseMoves /\ log' = log
    BY <1>2 DEF CommitHandoffFrom, TryLease, LeaseMoves
  <2>2. CASE Goto("commit") /\ lease'.fence = lease.fence + 1
    BY <1>0, <2>1, <2>2, GotoBehind, BehindMove
  <2>3. CASE Goto("cas_failed")
    <3>1. lease'.fence \in Nat /\ lease'.fence >= lease.fence
      BY <1>0, <2>1 DEF LeaseMoves
    <3> QED BY <1>0, <2>1, <2>3, <3>1, GotoBehind, BehindMove
  <2> QED BY <1>2, <2>2, <2>3 DEF CommitHandoffFrom, TryLease
<1>3. CASE ~(AbandonBegin \/ EndRelease \/ CommitHandoffFrom)
  <2>1. lease' = lease
    BY <1>3 DEF KernelStep, RunStarted, EndChild, EndRun, ProposeHandoff, HandoffFailed,
       HandoffCommitted, ChildRunStarted, ReturnChild, ReconcileRollback, ReconcileChild,
       ReconcileRun
  <2>2. OpBehind'
    <3>1. \/ \E r : Return(op.caller, r)
          \/ \E at \in Pcs \ {"commit", "child_start", "child_start_failed"} : Goto(at)
          \/ /\ op.pc \in {"commit", "child_start"}
             /\ Goto("child_start") \/ Goto("child_start_failed")
      BY <1>3 DEF KernelStep, RunStarted, EndChild, EndRun, ProposeHandoff, HandoffFailed,
         HandoffCommitted, ChildRunStarted, ReturnChild, ReconcileRollback,
         ReconcileChild, ReconcileRun, TryAppend, AfterRollback, Pcs
    <3>2. op.pc \in {"commit", "child_start"} => op.claim.fence < lease'.fence
      BY <1>0, <2>1 DEF OpBehind
    <3> QED BY <1>0, <2>1, <3>1, <3>2, ReturnBehind, GotoBehind
  <2>3. \E e : Timely(e, lease.fence) /\ Appends(e)
    <3>1. CASE RunStarted \/ EndRun \/ ReconcileRun
      BY <1>0, <3>1 DEF RunStarted, EndRun, ReconcileRun, TryAppend, Appends, Timely, RunEvent
    <3>2. CASE EndChild \/ ReturnChild \/ ReconcileChild
      BY <1>0, <3>2 DEF EndChild, ReturnChild, ReconcileChild, TryAppend, Appends, Timely,
         ChildEvent
    <3>3. CASE ProposeHandoff \/ HandoffFailed
      BY <1>0, <3>3 DEF ProposeHandoff, HandoffFailed, TryAppend, Appends, Timely,
         Transfer, HandoffEvent
    <3>4. CASE HandoffCommitted \/ ChildRunStarted
      <4>1. op.claim.fence + 1 \in 0..lease.fence
        BY <1>0, <3>4 DEF HandoffCommitted, ChildRunStarted, OpBehind
      <4> QED BY <3>4, <4>1 DEF HandoffCommitted, ChildRunStarted, TryAppend, Appends,
                 Timely, Transfer, HandoffEvent
    <3>5. CASE ReconcileRollback
      BY <1>0, <3>5 DEF ReconcileRollback, TryAppend, Appends, Timely, HandoffEvent
    <3> QED BY <1>3, <3>1, <3>2, <3>3, <3>4, <3>5 DEF KernelStep
  <2> QED BY <2>1, <2>2, <2>3, BehindAppend
<1> QED BY <1>1, <1>2, <1>3

(* A call that appends at most one event, and returns. *)
LEMMA OnceBehind ==
    ASSUME BehindInv, NEW c,
           Reject(c) \/ Already(c) \/ \E e : Timely(e, lease.fence) /\ AppendCall(c, e)
    PROVE  BehindInv'
<1>1. lease' = lease /\ lease.fence \in Nat /\ \E r : Return(c, r)
  BY DEF Reject, Already, AppendCall, TryAppend, BehindInv
<1>2. OpBehind'
  BY <1>1, ReturnBehind
<1>3. CASE log' = log
  BY <1>1, <1>2, <1>3, BehindMove DEF LeaseMoves
<1>4. CASE \E e : Timely(e, lease.fence) /\ Appends(e)
  BY <1>1, <1>2, <1>4, BehindAppend
<1> QED BY <1>3, <1>4 DEF Reject, Already, AppendCall, TryAppend, Appends

(* A call that starts a program: it holds the lease, or has just taken it. *)
LEMMA StartBehind ==
    ASSUME BehindInv, LeaseMoves, log' = log, op'.claim.fence = lease'.fence,
           op'.pc \notin {"commit", "child_start", "child_start_failed"}
    PROVE  BehindInv'
<1>1. lease'.fence \in Nat
  BY DEF BehindInv, LeaseMoves
<1>2. OpBehind'
  BY <1>1 DEF OpBehind
<1> QED BY <1>2, BehindMove

LEMMA CallsBehind ==
    ASSUME BehindInv, NEW c
    PROVE  /\ Create(c) => BehindInv'
           /\ \A kind, p : StartRun(c, kind, p) => BehindInv'
           /\ \A type : CloseRun(c, type) => BehindInv'
           /\ \A i, k : Remove(c, i, k) => BehindInv'
           /\ \A type, k : AppendLifecycle(c, type, k) => BehindInv'
           /\ \A k : RecordProgress(c, k) => BehindInv'
           /\ \A type, k : InitialInput(c, type, k) => BehindInv'
           /\ \A p : BeginExecute(c, p) => BehindInv'
           /\ \A type, k : TerminalExecute(c, k, type) => BehindInv'
           /\ \A k : BeginChildHandoff(c, k) => BehindInv'
           /\ \A k, p, type : TerminalChildHandoff(c, k, p, type) => BehindInv'
           /\ \A run : Reconcile(c, run) => BehindInv'
<1>0. lease.fence \in Nat
  BY DEF BehindInv
<1>1. \A type : Timely(Plain(type), lease.fence)
  BY <1>0 DEF Timely, Plain
<1>2. \A kind, p : Timely(RunEvent("RunStarted", kind, 0, Primary(p), 0), lease.fence)
  BY <1>0 DEF Timely, RunEvent
<1>3. \A k : Holds(k) =>
          Timely(RunEvent("RunProgress", "none", k.run, k.owner, k.fence), lease.fence)
  BY <1>0 DEF Timely, RunEvent, Holds
<1>4. /\ Create(c) => BehindInv'
      /\ \A kind, p : StartRun(c, kind, p) => BehindInv'
      /\ \A type : CloseRun(c, type) => BehindInv'
  BY <1>1, <1>2, OnceBehind DEF Create, StartRun, CloseRun
<1>5. /\ \A i, k : Remove(c, i, k) => BehindInv'
      /\ \A type, k : AppendLifecycle(c, type, k) => BehindInv'
  BY <1>1, OnceBehind DEF Remove, AppendLifecycle
<1>6. /\ \A k : RecordProgress(c, k) => BehindInv'
      /\ \A type, k : InitialInput(c, type, k) => BehindInv'
  BY <1>1, <1>3, OnceBehind DEF RecordProgress, InitialInput
<1>7. ASSUME NEW p, BeginExecute(c, p) PROVE BehindInv'
  <2>1. CASE Reject(c)
    BY <2>1, OnceBehind
  <2>2. CASE ~Reject(c)
    <3>1. LeaseMoves /\ log' = log
      BY <1>7, <2>2 DEF BeginExecute, TryLease, LeaseMoves
    <3>2. CASE Return(c, Failed)
      <4>1. lease'.fence \in Nat
        BY <1>0, <3>1 DEF LeaseMoves
      <4> QED BY <3>1, <3>2, <4>1, ReturnBehind, BehindMove
    <3>3. CASE ~Return(c, Failed)
      BY <1>7, <2>2, <3>1, <3>3, StartBehind DEF BeginExecute, TryLease, Begin
    <3> QED BY <3>2, <3>3
  <2> QED BY <2>1, <2>2
<1>8. ASSUME NEW k, NEW type, TerminalExecute(c, k, type) PROVE BehindInv'
  <2>1. CASE Reject(c)
    BY <2>1, OnceBehind
  <2>2. CASE ~Reject(c)
    BY <1>8, <2>2, StartBehind DEF TerminalExecute, Begin, MayEnd, Holds, LeaseMoves
  <2> QED BY <2>1, <2>2
<1>9. ASSUME NEW k, BeginChildHandoff(c, k) PROVE BehindInv'
  <2>1. CASE Reject(c)
    BY <2>1, OnceBehind
  <2>2. CASE ~Reject(c)
    BY <1>9, <2>2, StartBehind DEF BeginChildHandoff, MayDelegate, Holds, LeaseMoves
  <2> QED BY <2>1, <2>2
<1>10. ASSUME NEW k, NEW p, NEW type, TerminalChildHandoff(c, k, p, type) PROVE BehindInv'
  <2>1. CASE Reject(c)
    BY <2>1, OnceBehind
  <2>2. CASE ~Reject(c)
    BY <1>10, <2>2, StartBehind DEF TerminalChildHandoff, MayReturn, Holds, LeaseMoves
  <2> QED BY <2>1, <2>2
<1>11. ASSUME NEW run, Reconcile(c, run) PROVE BehindInv'
  <2>1. CASE Reject(c)
    BY <2>1, OnceBehind
  <2>2. CASE ~Reject(c)
    BY <1>11, <2>2, StartBehind DEF Reconcile, Begin, AfterRollback, LeaseMoves
  <2> QED BY <2>1, <2>2
<1> QED BY <1>4, <1>5, <1>6, <1>7, <1>8, <1>9, <1>10, <1>11

LEMMA BehindStep == TypeInv /\ BehindInv /\ [Next]_vars => BehindInv'
<1> SUFFICES ASSUME TypeInv, BehindInv, [Next]_vars PROVE BehindInv'
  OBVIOUS
<1>1. CASE UNCHANGED <<log, lease, op>>
  BY <1>1 DEF BehindInv, Behind, OpBehind
<1>2. CASE ApiCall \/ CancelWrite \/ CancelLifecycle \/ RecoverOrphans
  BY <1>2, CallsBehind DEF ApiCall, CancelWrite, CancelLifecycle, RecoverOrphans
<1>3. CASE Crash
  <2>1. LeaseMoves /\ log' = log
    BY <1>3 DEF Crash, KernelCrash, LeaseMoves
  <2>2. OpBehind'
    BY <1>3 DEF Crash, KernelCrash, BehindInv, OpBehind, Idle, NoClaim
  <2> QED BY <2>1, <2>2, BehindMove
<1>4. CASE Work
  BY <1>4, KernelStepBehind DEF Work, TypeInv
<1>5. CASE CancelRead \/ Recovered \/ UNCHANGED vars
  BY <1>1, <1>5 DEF CancelRead, Recovered, vars, kernelVars
<1> QED BY <1>2, <1>3, <1>4, <1>5 DEF Next, Progress, Requests

LEMMA BehindInvariant == Spec => []BehindInv
<1>1. Init => BehindInv
  BY DEF Init, KernelInit, EmptyLog, NoRun, NoChild, NoProp, NoClaim, Idle, BehindInv,
     Behind, OpBehind
<1> QED BY <1>1, TypeInvariant, BehindStep, PTL DEF Spec

(***************************************************************************)
(* No event of the log carries a fencing token the lease has not reached,  *)
(* and an open proposal names at most the next one, whatever write was     *)
(* refused and wherever the process died: appendLocked follows the write   *)
(* of the lease in every operation, the proposal excepted.                 *)
(***************************************************************************)
THEOREM LogIsBehindLease == Spec => []LogBehindLease
<1>1. BehindInv => LogBehindLease
  BY DEF BehindInv, Behind, LogBehindLease
<1> QED BY <1>1, BehindInvariant, PTL

-----------------------------------------------------------------------------
(***************************************************************************)
(* One authority.  A claim circulates when a caller was given it, when     *)
(* CancelTask has read it, or when the program in flight will return it.   *)
(* Two that hold the lease must name the same run; what makes this         *)
(* inductive is that they also name the run that is active, if one is, and *)
(* that a program past its write of the lease has a token nobody has seen. *)
(***************************************************************************)
Circulating ==
    issued \cup (IF snapshot.pending THEN {snapshot.claim} ELSE {})
           \cup (IF op.kind \in {"end", "reconcile"} THEN {op.claim} ELSE {})

Past == \A k \in Circulating : k.fence <= lease.fence
Fresh == \A k \in Circulating : k.fence < lease.fence

Valid(k) == Holds(k) /\ k.run # 0

ClaimsAgree ==
    \A k \in Circulating : Valid(k) =>
        /\ \A j \in Circulating : Valid(j) => j.run = k.run
        /\ log.run.id # 0 => k.run = log.run.id

Named ==
    /\ log.run.kind = "execute" => log.run.id # 0
    /\ log.child.id # 0 => log.child.run # 0
    /\ \A k \in Circulating : k = NoClaim \/ k.run # 0
    /\ NoClaim \notin issued

Swapped == {"commit", "child_start", "child_start_failed"}
Transferring == {"propose", "cas", "cas_failed"} \cup Swapped

OpFresh ==
    /\ op.pc \in Transferring => op.kind \in {"to_child", "to_parent"}
    /\ op.kind = "begin" /\ op.pc = "started" =>
          Holds(op.claim) /\ op.claim.run # 0 /\ Fresh
    /\ op.kind \in {"to_child", "to_parent"} =>
          op.claim.run # 0 /\ (log.run.id # 0 => op.claim.run = log.run.id)
    /\ op.pc \in Swapped =>
          lease.owner = op.to /\ lease.fence = op.claim.fence + 1 /\ Fresh

RetIssued ==
    \A c \in Callers : ret[c].ok /\ ret[c].claim # NoClaim => ret[c].claim \in issued

AuthorityInv == Past /\ ClaimsAgree /\ Named /\ OpFresh /\ RetIssued

(* AuthorityInv is meant together with the invariants proved above. *)
Inv == TypeInv /\ BehindInv /\ AuthorityInv

LEMMA CirculatingTypes ==
    ASSUME TypeInv
    PROVE  /\ Circulating \subseteq Claim
           /\ \A k \in Circulating : k.fence \in Nat /\ k.run \in Nat
           /\ lease.fence \in Nat
<1>1. op.claim \in Claim /\ issued \subseteq Claim /\ snapshot.claim \in Claim
  BY DEF TypeInv, KernelOK, OpOK, Operation, ClientsOK
<1>2. Circulating \subseteq Claim
  BY <1>1 DEF Circulating
<1> QED BY <1>2 DEF Claim, TypeInv, KernelOK

(* A claim on the active run, or one that names no run, joins the others. *)
LEMMA AgreeOld ==
    ASSUME TypeInv, Past, ClaimsAgree, NEW k, k.fence <= lease.fence,
           k.run = 0 \/ k.run = log.run.id, Circulating' \subseteq Circulating \cup {k},
           lease' = lease, log'.run.id \in {0, log.run.id}
    PROVE  Past' /\ ClaimsAgree'
<1>1. Past'
  BY DEF Past
<1>2. ASSUME NEW j \in Circulating', Valid(j)', NEW i \in Circulating', Valid(i)'
      PROVE  j.run = i.run /\ (log'.run.id # 0 => j.run = log'.run.id)
  <2>1. Valid(j) /\ Valid(i)
    BY <1>2 DEF Valid, Holds
  <2>2. j \in Circulating \cup {k} /\ i \in Circulating \cup {k}
    BY <1>2
  <2> QED BY <2>1, <2>2 DEF ClaimsAgree, Valid
<1>3. ClaimsAgree'
  BY <1>2 DEF ClaimsAgree
<1> QED BY <1>1, <1>3

(* A claim with a token nobody has seen is the only one that holds. *)
LEMMA AgreeFresh ==
    ASSUME TypeInv, Fresh, NEW k, k.fence = lease.fence,
           Circulating' \subseteq Circulating \cup {k}, lease' = lease,
           log'.run.id # 0 => k.run = log'.run.id
    PROVE  Past' /\ ClaimsAgree'
<1>1. \A j \in Circulating' : j = k \/ j.fence < lease.fence
  BY DEF Fresh
<1>2. \A j \in Circulating : j.fence \in Nat
  BY CirculatingTypes
<1>3. \A j \in Circulating' : Valid(j)' => j = k
  BY <1>1, <1>2, CirculatingTypes DEF Valid, Holds
<1> QED BY <1>1, <1>2, <1>3, CirculatingTypes DEF Past, ClaimsAgree

(* Once the lease has moved, no claim in circulation holds it. *)
LEMMA AgreeMoved ==
    ASSUME TypeInv, Past, lease'.fence = lease.fence + 1,
           Circulating' \subseteq Circulating \cup {NoClaim}
    PROVE  Past' /\ Fresh' /\ ClaimsAgree'
<1>1. \A j \in Circulating' : j.fence \in Nat /\ j.fence <= lease.fence
  BY CirculatingTypes DEF Past, NoClaim
<1>2. Fresh' /\ Past'
  BY <1>1, CirculatingTypes DEF Fresh, Past
<1>3. \A j \in Circulating' : ~Valid(j)'
  BY <1>1, CirculatingTypes DEF Valid, Holds
<1> QED BY <1>2, <1>3 DEF ClaimsAgree

(* What Record adds: nothing, or the claim that is returned. *)
LEMMA Recorded ==
    ASSUME RetIssued, Record, NoClaim \notin issued
    PROVE  /\ RetIssued' /\ NoClaim \notin issued' /\ issued \subseteq issued'
           /\ \A k \in issued' : k \in issued
                 \/ \E c \in Callers : ret'[c].ok /\ ret'[c].claim = k /\ k # NoClaim
                                      /\ ret'[c] # ret[c]
  BY DEF RetIssued, Record

LEMMA RecordReturn ==
    ASSUME RetOK, RetIssued, Record, NoClaim \notin issued, NEW c, NEW r,
           ret' = [ret EXCEPT ![c] = r]
    PROVE  /\ issued' \subseteq issued \cup {r.claim}
           /\ ~r.ok \/ r.claim = NoClaim => issued' = issued
<1>1. \A d \in Callers : ret'[d] = ret[d] \/ ret'[d] = r
  BY DEF RetOK
<1> QED BY <1>1, Recorded

LEMMA RecordNothing ==
    ASSUME RetIssued, Record, NoClaim \notin issued, ret' = ret
    PROVE  issued' = issued
  BY Recorded

LEMMA GotoCirculating ==
    ASSUME Inv, Record, snapshot' = snapshot, NEW at, Goto(at)
    PROVE  /\ Circulating' = Circulating /\ op'.kind = op.kind /\ op'.claim = op.claim
           /\ op'.to = op.to /\ op'.pc = at /\ issued' = issued
<1>1. issued' = issued
  BY RecordNothing DEF Inv, AuthorityInv, Named, Goto
<1>2. op'.kind = op.kind /\ op'.claim = op.claim /\ op'.to = op.to /\ op'.pc = at
  BY DEF Goto, Inv, TypeInv, KernelOK, OpOK, Operation
<1> QED BY <1>1, <1>2 DEF Circulating

LEMMA ReturnCirculating ==
    ASSUME Inv, Record, snapshot' = snapshot \/ snapshot' = NoSnapshot,
           NEW c, NEW r, Return(c, r)
    PROVE  /\ Circulating' \subseteq Circulating \cup {r.claim}
           /\ ~r.ok \/ r.claim = NoClaim =>
                 Circulating' \subseteq Circulating /\ issued' = issued
           /\ OpFresh'
<1>1. /\ issued' \subseteq issued \cup {r.claim}
      /\ ~r.ok \/ r.claim = NoClaim => issued' = issued
  BY RecordReturn DEF Inv, TypeInv, KernelOK, AuthorityInv, Named, Return
<1>2. op' = Idle /\ op'.kind = "none" /\ op'.pc = "none"
  BY IdleType DEF Return, Idle
<1>3. OpFresh'
  BY <1>2 DEF OpFresh, Transferring, Swapped
<1>4. snapshot'.pending => snapshot' = snapshot
  BY DEF NoSnapshot
<1> QED BY <1>1, <1>2, <1>3, <1>4 DEF Circulating

(* Which events change the active run and the open child. *)
LogNamed == (log.run.kind = "execute" => log.run.id # 0)
            /\ (log.child.id # 0 => log.child.run # 0)

LEMMA AppendNamed ==
    ASSUME LogNamed, NEW e, Appends(e),
           e.type = "RunStarted" => e.kind # "execute" \/ e.run # 0,
           e.type = "ChildRunStarted" => e.run # 0
    PROVE  /\ LogNamed'
           /\ e.type # "RunStarted" \/ e.run = 0 => log'.run.id \in {0, log.run.id}
           /\ e.type \notin RunTerminals \cup {"RunStarted"} => log'.run = log.run
<1>1. CASE log' = log
  BY <1>1 DEF LogNamed
<1>2. CASE log' = AppendEvent(log, e)
  <2>1. log'.run = RunAfter(log, e) /\ log'.child = ChildAfter(log, e)
    BY <1>2 DEF AppendEvent
  <2>2. (log'.run.kind = "execute" => log'.run.id # 0)
        /\ (e.type # "RunStarted" \/ e.run = 0 => log'.run.id \in {0, log.run.id})
        /\ (e.type \notin RunTerminals \cup {"RunStarted"} => log'.run = log.run)
    BY <2>1 DEF RunAfter, NoRun, LogNamed
  <2>3. log'.child.id # 0 => log'.child.run # 0
    BY <2>1 DEF ChildAfter, NoChild, LogNamed
  <2> QED BY <2>2, <2>3 DEF LogNamed
<1> QED BY <1>1, <1>2 DEF Appends

(* Every claim in circulation has a name, with NoClaim the one exception. *)
LEMMA StaysNamed ==
    ASSUME Inv, Record, LogNamed', NEW k, k = NoClaim \/ k.run # 0,
           Circulating' \subseteq Circulating \cup {k}
    PROVE  Named' /\ RetIssued'
<1>1. RetIssued' /\ NoClaim \notin issued'
  BY Recorded DEF Inv, AuthorityInv, Named
<1>2. \A j \in Circulating' : j = NoClaim \/ j.run # 0
  BY DEF Inv, AuthorityInv, Named
<1> QED BY <1>1, <1>2 DEF Named, LogNamed

(* A step of a program that appends, and goes on or fails. *)
LEMMA QuietWork ==
    ASSUME Inv, Record, snapshot' = snapshot, lease' = lease,
           NEW e, Appends(e), e.type # "RunStarted", e.type = "ChildRunStarted" => e.run # 0,
           \/ Return(op.caller, Failed)
           \/ \E at \in Pcs \ (Swapped \cup {"started"}) :
                 /\ Goto(at)
                 /\ at \in Transferring => op.kind \in {"to_child", "to_parent"}
    PROVE  AuthorityInv'
<1>0. TypeInv /\ Past /\ ClaimsAgree /\ LogNamed /\ OpFresh
  BY DEF Inv, AuthorityInv, Named, LogNamed
<1>1. LogNamed' /\ log'.run.id \in {0, log.run.id}
  BY <1>0, AppendNamed
<1>2. Circulating' \subseteq Circulating
  BY GotoCirculating, ReturnCirculating DEF Failed
<1>3. NoClaim.run = 0 /\ NoClaim.fence <= lease.fence
  BY <1>0, CirculatingTypes DEF NoClaim
<1>4. Past' /\ ClaimsAgree'
  BY <1>0, <1>1, <1>2, <1>3, AgreeOld
<1>5. Named' /\ RetIssued'
  BY <1>1, <1>2, StaysNamed
<1>6. OpFresh'
  <2>1. CASE Return(op.caller, Failed)
    BY <2>1, ReturnCirculating
  <2>2. ASSUME NEW at \in Pcs \ (Swapped \cup {"started"}), Goto(at),
               at \in Transferring => op.kind \in {"to_child", "to_parent"}
        PROVE  OpFresh'
    <3>1. op'.kind = op.kind /\ op'.claim = op.claim /\ op'.pc = at
      BY <2>2, GotoCirculating
    <3> QED BY <1>0, <1>1, <2>2, <3>1 DEF OpFresh
  <2> QED BY <2>1, <2>2
<1> QED BY <1>4, <1>5, <1>6 DEF AuthorityInv

(* A step of a program past its compare-and-swap that has more to write. *)
LEMMA SwappedWork ==
    ASSUME Inv, Record, snapshot' = snapshot, lease' = lease, op.pc \in Swapped,
           NEW e, Appends(e), e.type \notin RunTerminals \cup {"RunStarted"},
           e.type = "ChildRunStarted" => e.run # 0,
           NEW at \in Swapped, Goto(at)
    PROVE  AuthorityInv'
<1>0. TypeInv /\ Past /\ ClaimsAgree /\ LogNamed /\ OpFresh
  BY DEF Inv, AuthorityInv, Named, LogNamed
<1>1. LogNamed' /\ log'.run = log.run
  BY <1>0, AppendNamed
<1>2. /\ Circulating' = Circulating /\ op'.kind = op.kind /\ op'.claim = op.claim
      /\ op'.to = op.to /\ op'.pc = at
  BY GotoCirculating
<1>3. NoClaim.run = 0 /\ NoClaim.fence <= lease.fence
  BY <1>0, CirculatingTypes DEF NoClaim
<1>4. Past' /\ ClaimsAgree'
  BY <1>0, <1>1, <1>2, <1>3, AgreeOld
<1>5. Named' /\ RetIssued'
  BY <1>1, <1>2, StaysNamed
<1>6. OpFresh'
  BY <1>0, <1>1, <1>2 DEF OpFresh, Fresh, Swapped, Transferring
<1> QED BY <1>4, <1>5, <1>6 DEF AuthorityInv

(* A program hands out the claim of the lease it has taken. *)
LEMMA DoneWork ==
    ASSUME Inv, Record, snapshot' = snapshot, lease' = lease, Fresh,
           NEW k, k.fence = lease.fence, k.run # 0, Return(op.caller, Done(k)),
           LogNamed', log'.run.id # 0 => k.run = log'.run.id
    PROVE  AuthorityInv'
<1>1. Circulating' \subseteq Circulating \cup {k} /\ OpFresh'
  BY ReturnCirculating DEF Done
<1>2. Past' /\ ClaimsAgree'
  BY <1>1, AgreeFresh DEF Inv
<1>3. Named' /\ RetIssued'
  BY <1>1, StaysNamed
<1> QED BY <1>1, <1>2, <1>3 DEF AuthorityInv

(* A program releases the lease, and reports what it ended. *)
LEMMA ReleaseWork ==
    ASSUME Inv, Record, snapshot' = snapshot, log' = log, AbandonBegin \/ EndRelease
    PROVE  AuthorityInv'
<1>0. TypeInv /\ Past /\ ClaimsAgree /\ LogNamed
  BY DEF Inv, AuthorityInv, Named, LogNamed
<1>1. Circulating' \subseteq Circulating /\ OpFresh'
  <2>1. CASE AbandonBegin
    <3>1. Return(op.caller, Failed)
      BY <2>1 DEF AbandonBegin, TryLease
    <3> QED BY <3>1, ReturnCirculating DEF Failed
  <2>2. CASE EndRelease
    <3>1. Return(op.caller, Done(NoClaim)) /\ Done(NoClaim).claim = NoClaim
      BY <2>2 DEF EndRelease, TryLease, Done
    <3> QED BY <3>1, ReturnCirculating
  <2> QED BY <2>1, <2>2
<1>2. lease' = lease \/ lease'.fence = lease.fence + 1
  BY DEF AbandonBegin, EndRelease, TryLease
<1>3. NoClaim.run = 0 /\ NoClaim.fence <= lease.fence
  BY <1>0, CirculatingTypes DEF NoClaim
<1>4. Past' /\ ClaimsAgree'
  BY <1>0, <1>1, <1>2, <1>3, AgreeOld, AgreeMoved
<1>5. Named' /\ RetIssued'
  BY <1>0, <1>1, StaysNamed DEF LogNamed
<1> QED BY <1>1, <1>4, <1>5 DEF AuthorityInv

LEMMA KernelStepAuthority ==
    ASSUME Inv, Record, snapshot' = snapshot, KernelStep
    PROVE  AuthorityInv'
<1>0. /\ OpFresh /\ LogNamed /\ op.claim.fence \in Nat /\ lease.fence \in Nat
      /\ op \in Operation
      /\ op.kind = "end" => op.type \in RunTerminals
      /\ op.kind = "to_parent" => op.type \in ChildTerminals
  BY DEF Inv, TypeInv, KernelOK, OpOK, Operation, Claim, AuthorityInv, Named, LogNamed
<1>1. CASE RunStarted
  <2> DEFINE e == RunEvent("RunStarted", "execute", op.claim.run, op.claim.owner,
                           op.claim.fence)
  <2>0. Holds(op.claim) /\ op.claim.run # 0 /\ Fresh /\ lease' = lease
    BY <1>0, <1>1 DEF RunStarted, Step, OpFresh
  <2>1. CASE Return(op.caller, Done(op.claim)) /\ log' = AppendEvent(log, e)
    <3>1. log'.run.id = op.claim.run
      <4>1. e.type = "RunStarted" /\ e.run = op.claim.run
        BY DEF RunEvent
      <4> HIDE DEF e
      <4>2. log'.run = RunAfter(log, e)
        BY <2>1 DEF AppendEvent
      <4> QED BY <4>1, <4>2 DEF RunAfter, RunTerminals
    <3>2. LogNamed'
      BY <1>0, <2>0, <2>1, AppendNamed DEF Appends, RunEvent
    <3> QED BY <2>0, <2>1, <3>1, <3>2, DoneWork DEF Holds
  <2>2. CASE Goto("abandon") /\ log' = log
    <3>1. Appends(Plain("TaskCreated")) /\ Plain("TaskCreated").type = "TaskCreated"
      BY <2>2 DEF Appends, Plain
    <3> QED BY <2>0, <2>2, <3>1, QuietWork DEF Pcs, Swapped, Transferring
  <2>3. CASE Goto("abandon") /\ log' = AppendEvent(log, e)
    <3>1. /\ Circulating' = Circulating /\ op'.kind = op.kind /\ op'.claim = op.claim
          /\ op'.pc = "abandon"
      BY <2>3, GotoCirculating
    <3>2. \A j \in Circulating' : j.fence \in Nat /\ j.fence < lease'.fence /\ ~Valid(j)'
      BY <2>0, <3>1, CirculatingTypes DEF Inv, Fresh, Valid, Holds
    <3>3. Past' /\ ClaimsAgree'
      BY <1>0, <2>0, <3>2 DEF Past, ClaimsAgree
    <3>4. LogNamed'
      BY <1>0, <2>0, <2>3, AppendNamed DEF Appends, RunEvent
    <3>5. Named' /\ RetIssued'
      BY <3>1, <3>4, StaysNamed
    <3>6. OpFresh'
      BY <1>1, <3>1 DEF RunStarted, Step, OpFresh, Transferring, Swapped
    <3> QED BY <3>3, <3>5, <3>6 DEF AuthorityInv
  <2> QED BY <1>1, <2>1, <2>2, <2>3 DEF RunStarted, TryAppend
<1>2. CASE AbandonBegin \/ EndRelease
  BY <1>2, ReleaseWork DEF AbandonBegin, EndRelease
<1>3. CASE EndChild
  <2>1. ChildTerminalFor[op.type] \in ChildTerminals
    BY <1>0, <1>3 DEF EndChild, Step, RunTerminals, ChildTerminals, ChildTerminalFor
  <2> DEFINE e == ChildEvent(ChildTerminalFor[op.type], log.child, op.claim.owner,
                             op.claim.fence)
  <2>2. e.type \in ChildTerminals
    BY <2>1 DEF ChildEvent
  <2>3. Appends(e) /\ lease' = lease /\ (Return(op.caller, Failed) \/ Goto("terminal"))
    BY <1>3 DEF EndChild, TryAppend, Appends
  <2> HIDE DEF e
  <2> QED BY <2>2, <2>3, QuietWork DEF ChildTerminals, Pcs, Swapped, Transferring
<1>4. CASE EndRun
  <2> DEFINE e == RunEvent(op.type, "execute", op.claim.run, op.claim.owner, op.claim.fence)
  <2>1. e.type \in RunTerminals
    BY <1>0, <1>4 DEF EndRun, Step, RunEvent
  <2>2. Appends(e) /\ lease' = lease /\ (Return(op.caller, Failed) \/ Goto("release"))
    BY <1>4 DEF EndRun, TryAppend, Appends
  <2> HIDE DEF e
  <2> QED BY <2>1, <2>2, QuietWork DEF RunTerminals, Pcs, Swapped, Transferring
<1>5. CASE ProposeHandoff
  <2> DEFINE e == Transfer("HandoffProposed", Direction)
  <2>1. e.type = "HandoffProposed"
    BY DEF Transfer, HandoffEvent
  <2>2. Appends(e) /\ lease' = lease /\ (Return(op.caller, Failed) \/ Goto("cas"))
    BY <1>5 DEF ProposeHandoff, TryAppend, Appends
  <2> HIDE DEF e
  <2> QED BY <1>5, <2>1, <2>2, QuietWork DEF ProposeHandoff, Pcs, Swapped, Transferring
<1>6. CASE CommitHandoffFrom
  <2>0. /\ op.kind \in {"to_child", "to_parent"} /\ Holds(op.claim) /\ log' = log
        /\ TypeInv /\ Past
    BY <1>0, <1>6 DEF CommitHandoffFrom, OpFresh, Transferring, Inv, AuthorityInv
  <2>1. CASE Goto("cas_failed") /\ lease' = lease
    <3>1. Appends(Plain("TaskCreated")) /\ Plain("TaskCreated").type = "TaskCreated"
      BY <2>0 DEF Appends, Plain
    <3> QED BY <2>0, <2>1, <3>1, QuietWork DEF Pcs, Swapped, Transferring
  <2>2. CASE /\ Goto("commit") \/ Goto("cas_failed")
             /\ lease' = [owner |-> op.to, fence |-> lease.fence + 1]
    <3>1. /\ Circulating' = Circulating /\ op'.kind = op.kind /\ op'.claim = op.claim
          /\ op'.to = op.to /\ op'.pc \in {"commit", "cas_failed"}
      BY <2>2, GotoCirculating
    <3>2. lease'.fence = lease.fence + 1 /\ lease'.owner = op.to
      BY <2>2
    <3>3. Past' /\ Fresh' /\ ClaimsAgree'
      BY <2>0, <3>1, <3>2, AgreeMoved
    <3>4. Named' /\ RetIssued'
      BY <1>0, <2>0, <3>1, StaysNamed DEF LogNamed
    <3>5. OpFresh'
      BY <1>0, <2>0, <3>1, <3>2, <3>3 DEF OpFresh, Holds, Transferring, Swapped
    <3> QED BY <3>3, <3>4, <3>5 DEF AuthorityInv
  <2> QED BY <1>6, <2>1, <2>2 DEF CommitHandoffFrom, TryLease
<1>7. CASE HandoffFailed
  <2> DEFINE e == Transfer("HandoffFailed", Direction)
  <2>1. e.type = "HandoffFailed"
    BY DEF Transfer, HandoffEvent
  <2>2. Appends(e) /\ lease' = lease /\ Return(op.caller, Failed)
    BY <1>7 DEF HandoffFailed, TryAppend, Appends
  <2> HIDE DEF e
  <2> QED BY <2>1, <2>2, QuietWork
<1>8. ASSUME op.pc \in Swapped
      PROVE  /\ op.kind \in {"to_child", "to_parent"} /\ Fresh /\ Transferred.run # 0
             /\ Transferred.fence = lease.fence
             /\ log.run.id # 0 => Transferred.run = log.run.id
  BY <1>0, <1>8 DEF OpFresh, Transferring, Transferred
<1>9. CASE HandoffCommitted
  <2> DEFINE e == Transfer("HandoffCommitted", Direction)
  <2>1. e.type = "HandoffCommitted" /\ op.pc \in Swapped /\ lease' = lease
    BY <1>9 DEF HandoffCommitted, Transfer, HandoffEvent, Swapped
  <2>2. Appends(e)
    BY <1>9 DEF HandoffCommitted, TryAppend, Appends
  <2> HIDE DEF e
  <2>3. LogNamed' /\ log'.run = log.run
    BY <1>0, <2>1, <2>2, AppendNamed DEF RunTerminals
  <2>4. CASE Goto("child_start")
    BY <2>1, <2>2, <2>4, SwappedWork DEF Swapped, RunTerminals
  <2>5. CASE Return(op.caller, Done(Transferred))
    BY <1>8, <2>1, <2>3, <2>5, DoneWork
  <2>6. CASE Return(op.caller, Failed)
    BY <2>1, <2>2, <2>6, QuietWork
  <2> QED BY <1>9, <2>4, <2>5, <2>6 DEF HandoffCommitted, TryAppend
<1>10. CASE ChildRunStarted
  <2> DEFINE e == HandoffEvent("ChildRunStarted", "none", op.claim.run, op.handoff,
                               NoOwner, op.to, op.claim.fence + 1)
  <2>1. op.pc \in Swapped /\ lease' = lease /\ Appends(e)
    BY <1>10 DEF ChildRunStarted, Swapped, TryAppend, Appends
  <2>2. e.type = "ChildRunStarted" /\ e.run # 0
    <3>1. op.claim.run # 0
      BY <1>8, <2>1 DEF Transferred
    <3> QED BY <3>1 DEF HandoffEvent
  <2> HIDE DEF e
  <2>3. LogNamed' /\ log'.run = log.run
    BY <1>0, <2>1, <2>2, AppendNamed DEF RunTerminals
  <2>4. CASE Goto("child_start_failed")
    BY <2>1, <2>2, <2>4, SwappedWork DEF Swapped, RunTerminals
  <2>5. CASE Return(op.caller, Done(Transferred))
    BY <1>8, <2>1, <2>3, <2>5, DoneWork
  <2> QED BY <1>10, <2>4, <2>5 DEF ChildRunStarted, TryAppend
<1>11. CASE ReturnChild
  <2> DEFINE e == ChildEvent(op.type, log.child, log.child.owner, log.child.fence)
  <2>1. e.type \in ChildTerminals /\ op.kind = "to_parent"
    BY <1>0, <1>11 DEF ReturnChild, Step, ChildEvent
  <2>2. Appends(e) /\ lease' = lease /\ (Return(op.caller, Failed) \/ Goto("propose"))
    BY <1>11 DEF ReturnChild, TryAppend, Appends
  <2> HIDE DEF e
  <2> QED BY <2>1, <2>2, QuietWork DEF ChildTerminals, Pcs, Swapped, Transferring
<1>12. CASE ReconcileRollback
  <2> DEFINE e == HandoffEvent("HandoffRolledBack", "none", op.claim.run,
                               log.prop.handoff, NoOwner, NoOwner, op.claim.fence)
  <2>1. e.type = "HandoffRolledBack"
    BY DEF HandoffEvent
  <2>2. Appends(e) /\ lease' = lease /\ (Return(op.caller, Failed) \/ Goto(AfterRollback))
    BY <1>12 DEF ReconcileRollback, TryAppend, Appends
  <2>3. AfterRollback \in {"child_interrupt", "interrupt"}
    BY DEF AfterRollback
  <2> HIDE DEF e
  <2> QED BY <2>1, <2>2, <2>3, QuietWork DEF Pcs, Swapped, Transferring
<1>13. CASE ReconcileChild
  <2> DEFINE e == ChildEvent("ChildRunInterrupted", log.child, log.child.owner,
                             log.child.fence)
  <2>1. e.type = "ChildRunInterrupted"
    BY DEF ChildEvent
  <2>2. Appends(e) /\ lease' = lease /\ (Return(op.caller, Failed) \/ Goto("interrupt"))
    BY <1>13 DEF ReconcileChild, TryAppend, Appends
  <2> HIDE DEF e
  <2> QED BY <2>1, <2>2, QuietWork DEF Pcs, Swapped, Transferring
<1>14. CASE ReconcileRun
  <2> DEFINE e == RunEvent("RunInterrupted", "execute", op.claim.run, op.claim.owner,
                           op.claim.fence)
  <2>1. e.type = "RunInterrupted"
    BY DEF RunEvent
  <2>2. Appends(e) /\ lease' = lease /\ (Return(op.caller, Failed) \/ Goto("release"))
    BY <1>14 DEF ReconcileRun, TryAppend, Appends
  <2> HIDE DEF e
  <2> QED BY <2>1, <2>2, QuietWork DEF Pcs, Swapped, Transferring
<1> QED BY <1>1, <1>2, <1>3, <1>4, <1>5, <1>6, <1>7, <1>9, <1>10, <1>11, <1>12, <1>13, <1>14
       DEF KernelStep

(* A call that returns at once, and returns no claim. *)
LEMMA QuietReturn ==
    ASSUME Inv, Record, snapshot' = snapshot \/ snapshot' = NoSnapshot, NEW c,
           Return(c, Failed) \/ Return(c, Done(NoClaim)),
           lease' = lease, LogNamed', log'.run.id \in {0, log.run.id}
    PROVE  AuthorityInv'
<1>0. TypeInv /\ Past /\ ClaimsAgree
  BY DEF Inv, AuthorityInv
<1>3. Circulating' \subseteq Circulating /\ OpFresh'
  <2>1. CASE Return(c, Failed)
    <3>1. ~Failed.ok
      BY DEF Failed
    <3> QED BY <2>1, <3>1, ReturnCirculating
  <2>2. CASE Return(c, Done(NoClaim))
    <3>1. Done(NoClaim).claim = NoClaim
      BY DEF Done
    <3> QED BY <2>2, <3>1, ReturnCirculating
  <2> QED BY <2>1, <2>2
<1>4. NoClaim.run = 0 /\ NoClaim.fence <= lease.fence
  BY <1>0, CirculatingTypes DEF NoClaim
<1>5. Past' /\ ClaimsAgree'
  BY <1>0, <1>3, <1>4, AgreeOld
<1>6. Named' /\ RetIssued'
  BY <1>3, StaysNamed
<1> QED BY <1>3, <1>5, <1>6 DEF AuthorityInv

LEMMA RejectAuthority ==
    ASSUME Inv, Record, snapshot' = snapshot \/ snapshot' = NoSnapshot, NEW c,
           Reject(c) \/ Already(c)
    PROVE  AuthorityInv'
<1>1. /\ lease' = lease /\ log' = log
      /\ Return(c, Failed) \/ Return(c, Done(NoClaim))
  BY DEF Reject, Already
<1>2. LogNamed' /\ log'.run.id \in {0, log.run.id}
  BY <1>1 DEF Inv, AuthorityInv, Named, LogNamed
<1> QED BY <1>1, <1>2, QuietReturn

LEMMA AppendAuthority ==
    ASSUME Inv, Record, snapshot' = snapshot, NEW c, NEW e, AppendCall(c, e),
           e.type # "ChildRunStarted",
           e.type = "RunStarted" => e.kind # "execute" /\ e.run = 0
    PROVE  AuthorityInv'
<1>1. /\ lease' = lease /\ Appends(e)
      /\ Return(c, Failed) \/ Return(c, Done(NoClaim))
  BY DEF AppendCall, TryAppend, Appends
<1>2. LogNamed
  BY DEF Inv, AuthorityInv, Named, LogNamed
<1>3. LogNamed' /\ log'.run.id \in {0, log.run.id}
  BY <1>1, <1>2, AppendNamed
<1> QED BY <1>1, <1>3, QuietReturn

(* The operations that write once. *)
LEMMA OnceAuthority ==
    ASSUME Inv, Record, snapshot' = snapshot, NEW c,
           \/ Create(c)
           \/ \E p \in PrimaryOwners, kind \in {"mark", "session"} : StartRun(c, kind, p)
           \/ \E t \in {"RunCompleted", "RunFailed"} : CloseRun(c, t)
           \/ \E b \in BOOLEAN, k \in Presented : Remove(c, b, k)
           \/ \E t \in {"TaskCompleted", "TaskCancelled"}, k \in Presented :
                 AppendLifecycle(c, t, k)
           \/ \E k \in Presented : RecordProgress(c, k)
           \/ \E t \in InputEvents, k \in Presented : InitialInput(c, t, k)
    PROVE  AuthorityInv'
<1>1. \A t : Plain(t).type = t
  BY DEF Plain
<1>2. ASSUME NEW t, t \notin {"RunStarted", "ChildRunStarted"}, AppendCall(c, Plain(t))
      PROVE  AuthorityInv'
  BY <1>1, <1>2, AppendAuthority
<1>3. CASE Create(c)
  BY <1>2, <1>3 DEF Create
<1>4. ASSUME NEW p \in PrimaryOwners, NEW kind \in {"mark", "session"}, StartRun(c, kind, p)
      PROVE  AuthorityInv'
  <2> DEFINE e == RunEvent("RunStarted", kind, 0, Primary(p), 0)
  <2>1. e.type = "RunStarted" /\ e.kind # "execute" /\ e.run = 0
    BY DEF RunEvent
  <2>2. AppendCall(c, e) \/ Reject(c)
    BY <1>4 DEF StartRun
  <2> HIDE DEF e
  <2> QED BY <2>1, <2>2, AppendAuthority, RejectAuthority
<1>5. ASSUME NEW t \in {"RunCompleted", "RunFailed"}, CloseRun(c, t)
      PROVE  AuthorityInv'
  BY <1>2, <1>5, RejectAuthority DEF CloseRun
<1>6. ASSUME NEW b \in BOOLEAN, NEW k \in Presented, Remove(c, b, k)
      PROVE  AuthorityInv'
  <2>1. AppendCall(c, Plain("TaskRemoved")) \/ Reject(c) \/ Already(c)
    BY <1>6 DEF Remove
  <2> QED BY <1>2, <2>1, RejectAuthority
<1>7. ASSUME NEW t \in {"TaskCompleted", "TaskCancelled"}, NEW k \in Presented,
             AppendLifecycle(c, t, k)
      PROVE  AuthorityInv'
  BY <1>2, <1>7, RejectAuthority DEF AppendLifecycle
<1>8. ASSUME NEW k \in Presented, RecordProgress(c, k)
      PROVE  AuthorityInv'
  <2> DEFINE e == RunEvent("RunProgress", "none", k.run, k.owner, k.fence)
  <2>1. e.type = "RunProgress"
    BY DEF RunEvent
  <2>2. AppendCall(c, e) \/ Reject(c)
    BY <1>8 DEF RecordProgress
  <2> HIDE DEF e
  <2> QED BY <2>1, <2>2, AppendAuthority, RejectAuthority
<1>9. ASSUME NEW t \in InputEvents, NEW k \in Presented, InitialInput(c, t, k)
      PROVE  AuthorityInv'
  <2>1. AppendCall(c, Plain(t)) \/ Reject(c) \/ Already(c)
    BY <1>9 DEF InitialInput
  <2>2. t \notin {"RunStarted", "ChildRunStarted"}
    BY DEF InputEvents
  <2> QED BY <1>2, <2>1, <2>2, RejectAuthority
<1> QED BY <1>3, <1>4, <1>5, <1>6, <1>7, <1>8, <1>9

(* A call that starts a program leaves the callers with what they had. *)
LEMMA StartCirculating ==
    ASSUME Inv, Record, snapshot' = snapshot \/ snapshot' = NoSnapshot, NEW c,
           ret' = [ret EXCEPT ![c] = NoResult]
    PROVE  /\ Circulating' \subseteq Circulating \cup {op'.claim}
           /\ op'.kind \notin {"end", "reconcile"} => Circulating' \subseteq Circulating
<1>0. ~NoResult.ok
  BY DEF NoResult
<1>1. issued' = issued
  BY <1>0, RecordReturn DEF Inv, TypeInv, KernelOK, AuthorityInv, Named
<1>2. snapshot'.pending => snapshot' = snapshot
  BY DEF NoSnapshot
<1> QED BY <1>1, <1>2 DEF Circulating

(* A call that starts a program under a claim that is in circulation, or   *)
(* that names the active run.                                              *)
LEMMA StartAuthority ==
    ASSUME Inv, Record, snapshot' = snapshot \/ snapshot' = NoSnapshot, NEW c,
           ret' = [ret EXCEPT ![c] = NoResult], log' = log, lease' = lease,
           op'.claim = NoClaim \/ op'.claim.run # 0,
           \/ op'.kind \notin {"end", "reconcile"}
           \/ op'.claim \in Circulating \cup {NoClaim}
           \/ op'.claim.fence <= lease.fence /\ op'.claim.run = log.run.id,
           OpFresh'
    PROVE  AuthorityInv'
<1>0. TypeInv /\ Past /\ ClaimsAgree /\ LogNamed' /\ log'.run.id \in {0, log.run.id}
  BY DEF Inv, AuthorityInv, Named, LogNamed
<1>1. /\ Circulating' \subseteq Circulating \cup {op'.claim}
      /\ op'.kind \notin {"end", "reconcile"} => Circulating' \subseteq Circulating
  BY StartCirculating
<1>2. NoClaim.run = 0 /\ NoClaim.fence <= lease.fence
  BY <1>0, CirculatingTypes DEF NoClaim
<1>3. Past' /\ ClaimsAgree'
  <2>1. CASE Circulating' \subseteq Circulating \cup {NoClaim}
    BY <1>0, <1>2, <2>1, AgreeOld
  <2>2. CASE op'.claim.fence <= lease.fence /\ op'.claim.run = log.run.id
    BY <1>0, <1>1, <2>2, AgreeOld
  <2> QED BY <1>1, <2>1, <2>2
<1>4. Named' /\ RetIssued'
  BY <1>0, <1>1, StaysNamed
<1> QED BY <1>3, <1>4 DEF AuthorityInv

LEMMA BeginAuthority ==
    ASSUME Inv, Record, snapshot' = snapshot, NEW c, NEW p, BeginExecute(c, p)
    PROVE  AuthorityInv'
<1>0. TypeInv /\ Past /\ LogNamed /\ runs \in Nat
  BY BoundsAssumption DEF Inv, AuthorityInv, Named, LogNamed, TypeInv, KernelOK, BoundsOK
<1>1. CASE Reject(c)
  BY <1>1, RejectAuthority
<1>2. CASE Return(c, Failed) /\ log' = log /\ lease' = lease
  BY <1>0, <1>2, QuietReturn DEF LogNamed
<1>4. CASE Return(c, Failed) /\ log' = log /\ lease'.fence = lease.fence + 1
  <2>1. Circulating' \subseteq Circulating /\ OpFresh'
    BY <1>4, ReturnCirculating DEF Failed
  <2>2. Past' /\ ClaimsAgree'
    BY <1>0, <1>4, <2>1, AgreeMoved
  <2>3. Named' /\ RetIssued'
    BY <1>0, <1>4, <2>1, StaysNamed DEF LogNamed
  <2> QED BY <2>1, <2>2, <2>3 DEF AuthorityInv
<1>3. CASE /\ Begin(c, "begin", "started",
                    [run |-> runs + 1, owner |-> Primary(p), fence |-> lease.fence + 1],
                    "RunStarted", NoOwner)
           /\ log' = log /\ lease' = [owner |-> Primary(p), fence |-> lease.fence + 1]
  <2>1. /\ op'.kind = "begin" /\ op'.pc = "started" /\ op'.claim.run = runs + 1
        /\ op'.claim.owner = lease'.owner /\ op'.claim.fence = lease'.fence
        /\ lease'.fence = lease.fence + 1
    BY <1>3 DEF Begin
  <2>2. Circulating' \subseteq Circulating
    BY <1>3, <2>1, StartCirculating DEF Begin
  <2>3. Past' /\ Fresh' /\ ClaimsAgree'
    BY <1>0, <2>1, <2>2, AgreeMoved
  <2>4. Named' /\ RetIssued'
    BY <1>0, <1>3, <2>2, StaysNamed DEF LogNamed
  <2>5. OpFresh'
    BY <1>0, <2>1, <2>3 DEF OpFresh, Holds, Transferring, Swapped
  <2> QED BY <2>3, <2>4, <2>5 DEF AuthorityInv
<1> QED BY <1>1, <1>2, <1>3, <1>4 DEF BeginExecute, TryLease

(* The calls that start the other programs. *)
LEMMA ProgramAuthority ==
    ASSUME Inv, Record, NEW c,
           \/ /\ snapshot' = snapshot
              /\ \/ \E k \in Presented, t \in RunTerminals : TerminalExecute(c, k, t)
                 \/ \E k \in Presented : BeginChildHandoff(c, k)
                 \/ \E k \in Presented, p \in PrimaryOwners, t \in ChildTerminals :
                       TerminalChildHandoff(c, k, p, t)
                 \/ \E run \in Nat : Reconcile(c, run)
           \/ /\ snapshot' = NoSnapshot /\ snapshot.pending
              /\ TerminalExecute(c, snapshot.claim, "RunCancelled")
    PROVE  AuthorityInv'
<1>0. TypeInv /\ Past /\ ClaimsAgree /\ LogNamed /\ Named
  BY DEF Inv, AuthorityInv, Named, LogNamed
<1>1. \A k \in Presented : k \in Circulating \cup {NoClaim} /\ (k = NoClaim \/ k.run # 0)
  BY <1>0 DEF Presented, Circulating, Named
<1>2. snapshot.pending =>
         /\ snapshot.claim \in Circulating
         /\ snapshot.claim = NoClaim \/ snapshot.claim.run # 0
  BY <1>0 DEF Circulating, Named
<1>3. ASSUME NEW k, NEW t, TerminalExecute(c, k, t), k \in Circulating \cup {NoClaim},
             k = NoClaim \/ k.run # 0, snapshot' = snapshot \/ snapshot' = NoSnapshot
      PROVE  AuthorityInv'
  <2>1. CASE Reject(c)
    BY <1>3, <2>1, RejectAuthority
  <2>2. CASE ~Reject(c)
    <3>1. /\ Begin(c, "end", IF log.child.id # 0 THEN "child" ELSE "terminal",
                   k, t, NoOwner)
          /\ log' = log /\ lease' = lease
      BY <1>3, <2>2 DEF TerminalExecute
    <3>2. op'.kind = "end" /\ op'.claim = k /\ op'.pc \in {"child", "terminal"}
      BY <3>1 DEF Begin
    <3>3. OpFresh'
      BY <3>2 DEF OpFresh, Transferring, Swapped
    <3>4. ret' = [ret EXCEPT ![c] = NoResult]
      BY <3>1 DEF Begin
    <3> QED BY <1>3, <3>1, <3>2, <3>3, <3>4, StartAuthority
  <2> QED BY <2>1, <2>2
<1>4. ASSUME NEW k \in Presented, BeginChildHandoff(c, k), snapshot' = snapshot
      PROVE  AuthorityInv'
  <2>1. CASE Reject(c)
    BY <1>4, <2>1, RejectAuthority
  <2>2. CASE ~Reject(c)
    <3>1. /\ op' = [kind |-> "to_child", pc |-> "propose", caller |-> c, claim |-> k,
                    type |-> "none", handoff |-> handoffs + 1,
                    to |-> ChildOwner(handoffs + 1)]
          /\ ret' = [ret EXCEPT ![c] = NoResult] /\ log' = log /\ lease' = lease
          /\ MayDelegate(k)
      BY <1>4, <2>2 DEF BeginChildHandoff
    <3>2. op'.kind = "to_child" /\ op'.claim = k /\ op'.pc = "propose"
      BY <3>1
    <3>3. k.run # 0 /\ k.run = log.run.id
      BY <1>0, <3>1 DEF MayDelegate, ActiveExecute, LogNamed
    <3>4. OpFresh'
      BY <3>1, <3>2, <3>3 DEF OpFresh, Transferring, Swapped
    <3> QED BY <1>4, <3>1, <3>2, <3>3, <3>4, StartAuthority
  <2> QED BY <2>1, <2>2
<1>5. ASSUME NEW k \in Presented, NEW p \in PrimaryOwners, NEW t \in ChildTerminals,
             TerminalChildHandoff(c, k, p, t), snapshot' = snapshot
      PROVE  AuthorityInv'
  <2>1. CASE Reject(c)
    BY <1>5, <2>1, RejectAuthority
  <2>2. CASE ~Reject(c)
    <3>1. /\ op' = [kind |-> "to_parent", pc |-> "child", caller |-> c, claim |-> k,
                    type |-> t, handoff |-> handoffs + 1, to |-> Primary(p)]
          /\ ret' = [ret EXCEPT ![c] = NoResult] /\ log' = log /\ lease' = lease
          /\ MayReturn(k, t)
      BY <1>5, <2>2 DEF TerminalChildHandoff
    <3>2. op'.kind = "to_parent" /\ op'.claim = k /\ op'.pc = "child"
      BY <3>1
    <3>3. k.run # 0 /\ Holds(k)
      BY <1>0, <3>1 DEF MayReturn, LogNamed
    <3>4. k \in Circulating /\ (log.run.id # 0 => k.run = log.run.id)
      <4>1. k # NoClaim
        BY <3>3 DEF NoClaim
      <4>2. k \in Circulating
        BY <1>1, <1>5, <4>1
      <4> QED BY <1>0, <3>3, <4>2 DEF ClaimsAgree, Valid
    <3>5. OpFresh'
      BY <3>1, <3>2, <3>3, <3>4 DEF OpFresh, Transferring, Swapped
    <3> QED BY <1>5, <3>1, <3>2, <3>3, <3>5, StartAuthority
  <2> QED BY <2>1, <2>2
<1>6. ASSUME NEW run \in Nat, Reconcile(c, run), snapshot' = snapshot
      PROVE  AuthorityInv'
  <2>1. CASE Reject(c)
    BY <1>6, <2>1, RejectAuthority
  <2>2. CASE ~Reject(c)
    <3> DEFINE k == [run |-> log.run.id, owner |-> lease.owner, fence |-> lease.fence]
               at == IF log.prop.handoff # 0 THEN "rollback" ELSE AfterRollback
    <3>1. /\ Begin(c, "reconcile", at, k, "RunInterrupted", NoOwner)
          /\ log' = log /\ lease' = lease /\ MayReconcile(run)
      BY <1>6, <2>2 DEF Reconcile
    <3>2. at \in {"rollback", "child_interrupt", "interrupt"}
      BY DEF AfterRollback
    <3>3. op'.kind = "reconcile" /\ op'.claim = k /\ op'.pc = at
      BY <3>1 DEF Begin
    <3>4. OpFresh'
      BY <3>2, <3>3 DEF OpFresh, Transferring, Swapped
    <3>5. log.run.id # 0
      BY <1>0, <3>1 DEF MayReconcile, ActiveExecute, LogNamed
    <3>6. ret' = [ret EXCEPT ![c] = NoResult]
      BY <3>1 DEF Begin
    <3>7. k.run = log.run.id /\ k.fence <= lease.fence
      BY <1>0, CirculatingTypes
    <3> HIDE DEF k, at
    <3> QED BY <1>6, <3>1, <3>3, <3>4, <3>5, <3>6, <3>7, StartAuthority
  <2> QED BY <2>1, <2>2
<1> QED BY <1>1, <1>2, <1>3, <1>4, <1>5, <1>6

(* CancelTask reads a claim that names the active run. *)
LEMMA CancelReadAuthority ==
    ASSUME Inv, Record, CancelRead
    PROVE  AuthorityInv'
<1> DEFINE k == CancelClaim(log)
<1>0. TypeInv /\ Past /\ ClaimsAgree /\ LogNamed /\ OpFresh /\ Behind(log, lease.fence)
  BY DEF Inv, AuthorityInv, Named, LogNamed, BehindInv
<1>1. /\ snapshot' = [pending |-> TRUE, claim |-> k] /\ op = Idle /\ op' = op /\ ret' = ret
      /\ log' = log /\ lease' = lease /\ log.run.id # 0
  BY DEF CancelRead, kernelVars
<1>2. k.run = log.run.id
  BY DEF CancelClaim
<1>3. k.fence <= lease.fence
  BY <1>0 DEF CancelClaim, Behind
<1> HIDE DEF k
<1>4. issued' = issued
  BY <1>1, RecordNothing DEF Inv, AuthorityInv, Named
<1>5. Circulating' \subseteq Circulating \cup {k}
  BY <1>1, <1>4 DEF Circulating
<1>6. Past' /\ ClaimsAgree'
  BY <1>0, <1>1, <1>2, <1>3, <1>5, AgreeOld
<1>7. Named' /\ RetIssued'
  BY <1>0, <1>1, <1>2, <1>5, StaysNamed DEF LogNamed
<1>8. OpFresh'
  BY <1>1 DEF OpFresh, Idle, Transferring, Swapped
<1> QED BY <1>6, <1>7, <1>8 DEF AuthorityInv

(* A crash forgets the program and the snapshot; the claims stay known. *)
LEMMA LostAuthority ==
    ASSUME Inv, Record, Crash
    PROVE  AuthorityInv'
<1>0. TypeInv /\ Past /\ ClaimsAgree /\ LogNamed
  BY DEF Inv, AuthorityInv, Named, LogNamed
<1>1. /\ op' = Idle /\ snapshot' = NoSnapshot /\ log' = log /\ lease' = lease
      /\ ret' = [c \in Callers |-> NoResult]
  BY DEF Crash, KernelCrash
<1>2. \A c \in Callers : ~ret'[c].ok
  BY <1>1 DEF NoResult
<1>3. issued' = issued
  BY <1>2 DEF Record
<1>4. op'.kind = "none" /\ op'.pc = "none" /\ ~snapshot'.pending
  BY <1>1, IdleType DEF Idle, NoSnapshot
<1>5. Circulating' \subseteq Circulating /\ OpFresh'
  BY <1>3, <1>4 DEF Circulating, OpFresh, Transferring, Swapped
<1>6. NoClaim.run = 0 /\ NoClaim.fence <= lease.fence
  BY <1>0, CirculatingTypes DEF NoClaim
<1>7. Past' /\ ClaimsAgree'
  BY <1>0, <1>1, <1>5, <1>6, AgreeOld
<1>8. Named' /\ RetIssued'
  BY <1>0, <1>1, <1>5, StaysNamed DEF LogNamed
<1> QED BY <1>5, <1>7, <1>8 DEF AuthorityInv

LEMMA StillAuthority ==
    ASSUME Inv, UNCHANGED <<kernelVars, snapshot, issued>>
    PROVE  AuthorityInv'
  BY DEF Inv, kernelVars, AuthorityInv, Past, Fresh, ClaimsAgree, Named, OpFresh, RetIssued,
     Circulating, Valid, Holds

LEMMA AuthorityStep == Inv /\ [Next]_vars => AuthorityInv'
<1> SUFFICES ASSUME Inv, [Next]_vars PROVE AuthorityInv'
  OBVIOUS
<1>1. CASE ApiCall /\ Record
  <2>1. snapshot' = snapshot
    BY <1>1 DEF ApiCall
  <2>2. NoClaim \in Presented
    BY DEF Presented
  <2>3. CASE \/ Create("api")
             \/ \E p \in PrimaryOwners, kind \in {"mark", "session"} : StartRun("api", kind, p)
             \/ \E t \in {"RunCompleted", "RunFailed"} : CloseRun("api", t)
             \/ \E b \in BOOLEAN, k \in Presented : Remove("api", b, k)
             \/ \E t \in {"TaskCompleted", "TaskCancelled"}, k \in Presented :
                   AppendLifecycle("api", t, k)
             \/ \E k \in Presented : RecordProgress("api", k)
             \/ \E t \in InputEvents, k \in Presented : InitialInput("api", t, k)
    BY <1>1, <2>1, <2>3, OnceAuthority
  <2>4. CASE \E p \in PrimaryOwners : BeginExecute("api", p)
    BY <1>1, <2>1, <2>4, BeginAuthority
  <2>5. CASE \/ \E k \in Presented, t \in RunTerminals : TerminalExecute("api", k, t)
             \/ \E k \in Presented : BeginChildHandoff("api", k)
             \/ \E k \in Presented, p \in PrimaryOwners, t \in ChildTerminals :
                   TerminalChildHandoff("api", k, p, t)
             \/ \E run \in Nat : Reconcile("api", run)
    BY <1>1, <2>1, <2>5, ProgramAuthority
  <2>6. \A k \in Presented : k.run \in Nat
    BY DEF Presented, Inv, TypeInv, ClientsOK, Claim, NoClaim
  <2> QED BY <1>1, <2>2, <2>3, <2>4, <2>5, <2>6 DEF ApiCall
<1>2. CASE CancelRead /\ Record
  BY <1>2, CancelReadAuthority
<1>3. CASE CancelWrite /\ Record
  BY <1>3, ProgramAuthority DEF CancelWrite
<1>4. CASE CancelLifecycle /\ Record
  BY <1>4, OnceAuthority DEF CancelLifecycle
<1>5. CASE Crash /\ Record
  BY <1>5, LostAuthority
<1>6. CASE Work /\ Record
  BY <1>6, KernelStepAuthority DEF Work
<1>7. CASE RecoverOrphans /\ Record
  BY <1>7, ProgramAuthority DEF RecoverOrphans
<1>8. CASE Recovered /\ Record
  <2>1. ret' = ret /\ UNCHANGED <<kernelVars, snapshot>>
    BY <1>8 DEF Recovered, kernelVars
  <2>2. issued' = issued
    BY <1>8, <2>1, RecordNothing DEF Inv, AuthorityInv, Named
  <2> QED BY <2>1, <2>2, StillAuthority
<1>9. CASE UNCHANGED vars
  BY <1>9, StillAuthority DEF vars
<1> QED BY <1>1, <1>2, <1>3, <1>4, <1>5, <1>6, <1>7, <1>8, <1>9 DEF Next, Progress, Requests

LEMMA AuthorityInvariant == Spec => []Inv
<1>1. Init => AuthorityInv
  BY DEF Init, KernelInit, EmptyLog, NoRun, NoChild, NoSnapshot, NoResult, Idle, AuthorityInv,
     Past, ClaimsAgree, Named, OpFresh, RetIssued, Circulating, Transferring, Swapped
<1> QED BY <1>1, TypeInvariant, BehindInvariant, AuthorityStep, PTL DEF Spec, Inv

(***************************************************************************)
(* Of all the claims the kernel ever handed out, at most one passes        *)
(* CheckOwnerAndFence, for any number of runs, handoffs, refused writes    *)
(* and crashes: two calls can never both act with authority.               *)
(***************************************************************************)
THEOREM AuthorityIsExclusive == Spec => []OneAuthority
<1>1. Inv => OneAuthority
  <2> SUFFICES ASSUME Inv, NEW j \in issued, NEW k \in issued, Holds(j), Holds(k)
               PROVE  j = k
    BY DEF OneAuthority
  <2>1. j \in Circulating /\ k \in Circulating /\ j # NoClaim /\ k # NoClaim
    BY DEF Circulating, Inv, AuthorityInv, Named
  <2>2. j.run # 0 /\ k.run # 0
    BY <2>1 DEF Inv, AuthorityInv, Named
  <2>3. j.run = k.run
    BY <2>1, <2>2 DEF Inv, AuthorityInv, ClaimsAgree, Valid
  <2>4. j \in Claim /\ k \in Claim
    BY DEF Inv, TypeInv, ClientsOK
  <2> QED BY <2>3, <2>4 DEF Holds, Claim
<1> QED BY <1>1, AuthorityInvariant, PTL

-----------------------------------------------------------------------------
(***************************************************************************)
(* Runs one after the other: what a program that waits to append           *)
(* RunStarted checked still holds, since every other call waits for        *)
(* Repo.mu.                                                                *)
(***************************************************************************)
LEMMA ClientCallInSequence ==
    ASSUME KernelOK, OpRun, NEW c,
           \/ Create(c)
           \/ \E kind, p : StartRun(c, kind, p)
           \/ \E t \in RunTerminals : CloseRun(c, t)
           \/ \E i, k : Remove(c, i, k)
           \/ \E t \in TaskTerminals : \E k : AppendLifecycle(c, t, k)
           \/ \E k : RecordProgress(c, k)
           \/ \E t \in InputEvents : \E k : InitialInput(c, t, k)
    PROVE  OpRun' /\ InSequence
<1>1. ASSUME Reject(c) \/ Already(c) PROVE OpRun' /\ InSequence
  BY <1>1, IdleRun DEF Reject, Already, Return, InSequence
<1>2. ASSUME NEW STATE e, e.type # "RunStarted" \/ CanStart, AppendCall(c, e)
      PROVE  OpRun' /\ InSequence
  <2>1. Appends(e) /\ op' = Idle
    BY <1>2 DEF AppendCall, TryAppend, Appends, Return
  <2>2. CASE CanStart
    BY <2>1, <2>2, IdleRun DEF CanStart, InSequence
  <2>3. CASE e.type # "RunStarted"
    BY <2>1, <2>3, IdleRun, OtherAppend
  <2> QED BY <1>2, <2>2, <2>3
<1>3. \A t : Plain(t).type = t
  BY DEF Plain
<1>4. CASE Create(c)
  BY <1>2, <1>3, <1>4 DEF Create
<1>5. CASE \E kind, p : StartRun(c, kind, p)
  BY <1>1, <1>2, <1>5 DEF StartRun
<1>6. CASE \E t \in RunTerminals : CloseRun(c, t)
  <2>1. PICK t \in RunTerminals : CloseRun(c, t)
    BY <1>6
  <2>2. t # "RunStarted" /\ Plain(t).type = t
    BY <1>3 DEF RunTerminals
  <2> QED BY <1>1, <1>2, <2>1, <2>2 DEF CloseRun
<1>7. CASE \E i, k : Remove(c, i, k)
  BY <1>1, <1>2, <1>3, <1>7 DEF Remove
<1>8. CASE \E t \in TaskTerminals : \E k : AppendLifecycle(c, t, k)
  BY <1>1, <1>2, <1>8 DEF AppendLifecycle
<1>9. CASE \E k : RecordProgress(c, k)
  BY <1>1, <1>2, <1>9 DEF RecordProgress, RunEvent
<1>10. CASE \E t \in InputEvents : \E k : InitialInput(c, t, k)
  <2>0. PICK t \in InputEvents : \E k : InitialInput(c, t, k)
    BY <1>10
  <2>1. PICK k : InitialInput(c, t, k)
    BY <2>0
  <2>2. t # "RunStarted" /\ Plain(t).type = t
    BY <1>3 DEF InputEvents
  <2> QED BY <1>1, <1>2, <2>1, <2>2 DEF InitialInput
<1> QED BY <1>4, <1>5, <1>6, <1>7, <1>8, <1>9, <1>10

LEMMA ProgramInSequence ==
    ASSUME NEW c,
           \/ \E p : BeginExecute(c, p)
           \/ \E k, t : TerminalExecute(c, k, t)
           \/ \E k : BeginChildHandoff(c, k)
           \/ \E k, p, t : TerminalChildHandoff(c, k, p, t)
           \/ \E run : Reconcile(c, run)
    PROVE  OpRun' /\ InSequence
<1>1. ASSUME OpRun', TurnedDown(c) \/ \E kind, k, t : Launched(c, kind, k, t)
      PROVE  OpRun' /\ InSequence
  BY <1>1 DEF TurnedDown, Launched, InSequence
<1>2. CASE \E p : BeginExecute(c, p)
  BY <1>1, <1>2, BeginRunFacts
<1>3. CASE \E k, t : TerminalExecute(c, k, t)
  BY <1>1, <1>3, TerminalFacts
<1>4. CASE \E k : BeginChildHandoff(c, k)
  BY <1>1, <1>4, HandoffFacts
<1>5. CASE \E k, p, t : TerminalChildHandoff(c, k, p, t)
  BY <1>1, <1>5, HandoffFacts
<1>6. CASE \E run : Reconcile(c, run)
  BY <1>1, <1>6, ReconcileFacts
<1> QED BY <1>2, <1>3, <1>4, <1>5, <1>6

LEMMA SequenceStep ==
    ASSUME KernelOK, OpRun, [Next]_vars
    PROVE  OpRun' /\ InSequence
<1>1. CASE ApiCall
  <2>1. CASE \/ Create("api")
             \/ \E kind, p : StartRun("api", kind, p)
             \/ \E t \in RunTerminals : CloseRun("api", t)
             \/ \E i, k : Remove("api", i, k)
             \/ \E t \in TaskTerminals : \E k : AppendLifecycle("api", t, k)
             \/ \E k : RecordProgress("api", k)
             \/ \E t \in InputEvents : \E k : InitialInput("api", t, k)
    BY <2>1, ClientCallInSequence
  <2>2. CASE \/ \E p : BeginExecute("api", p)
             \/ \E k, t : TerminalExecute("api", k, t)
             \/ \E k : BeginChildHandoff("api", k)
             \/ \E k, p, t : TerminalChildHandoff("api", k, p, t)
             \/ \E run : Reconcile("api", run)
    BY <2>2, ProgramInSequence
  <2> QED BY <1>1, <2>1, <2>2 DEF ApiCall, RunTerminals, TaskTerminals
<1>2. CASE CancelRead \/ Recovered \/ UNCHANGED vars
  BY <1>2 DEF CancelRead, Recovered, vars, kernelVars, OpRun, OpShape, Names, Active, InSequence
<1>3. CASE CancelWrite
  BY <1>3, ProgramInSequence DEF CancelWrite
<1>4. CASE CancelLifecycle
  <2>1. \E k : AppendLifecycle("cancel", "TaskCancelled", k)
    BY <1>4 DEF CancelLifecycle
  <2> QED BY <2>1, ClientCallInSequence DEF TaskTerminals
<1>5. CASE Crash
  BY <1>5, IdleRun DEF Crash, KernelCrash, InSequence
<1>6. CASE Work
  BY <1>6, StepRun, StepInSequence DEF Work
<1>7. CASE RecoverOrphans
  BY <1>7, ProgramInSequence DEF RecoverOrphans
<1> QED BY <1>1, <1>2, <1>3, <1>4, <1>5, <1>6, <1>7 DEF Next, Progress, Requests

(***************************************************************************)
(* BeginExecute, MarkStarted and StartRun never start a run over another   *)
(* or on a task that is over, although BeginExecute checks, moves the      *)
(* lease and only then appends: nothing is started behind a check that     *)
(* does not hold any more.                                                 *)
(***************************************************************************)
THEOREM RunsFollowEachOther == Spec => RunsAreSequential
<1> DEFINE Follows == Active(log') /\ log'.run # log.run => ~Active(log) /\ ~log.terminal
<1>1. Init => OpRun
  BY DEF Init, KernelInit, Idle, OpRun, OpShape
<1>2. TypeInv => KernelOK
  BY DEF TypeInv
<1>3. KernelOK /\ OpRun /\ [Next]_vars => OpRun' /\ Follows
  BY SequenceStep DEF InSequence
<1>4. Spec => [][Follows]_vars
  BY <1>1, <1>2, <1>3, TypeInvariant, PTL DEF Spec
<1> QED BY <1>4 DEF RunsAreSequential
-----------------------------------------------------------------------------
(***************************************************************************)
(* Faults are counted, and what they left behind is not forgotten.         *)
(***************************************************************************)
Longer == log \in Log => Total(log)' >= Total(log)

Counted == faults' \in {faults, faults + 1} /\ unsynced \subseteq unsynced' /\ Longer

LEMMA LogGrows ==
    ASSUME NEW e, log' = log \/ log' = AppendEvent(log, e)
    PROVE  Longer
<1>1. CASE log' = log
  <2>1. log \in Log => Total(log) \in Nat
    BY OneMore
  <2>2. Total(log)' = Total(log)
    BY <1>1 DEF Total
  <2> QED BY <2>1, <2>2 DEF Longer
<1>2. CASE log' = AppendEvent(log, e)
  <2>1. log \in Log => Total(log) \in Nat /\ Total(AppendEvent(log, e)) = Total(log) + 1
    BY OneMore
  <2>2. Total(log)' = Total(AppendEvent(log, e))
    BY <1>2 DEF Total
  <2> QED BY <2>1, <2>2 DEF Longer
<1> QED BY <1>1, <1>2

LEMMA CallLoses ==
    ASSUME ApiCall
    PROVE  Counted
<1>1. ASSUME NEW c, NEW e, AppendCall(c, e) PROVE Counted
  <2>1. Longer
    BY <1>1, LogGrows DEF AppendCall, TryAppend
  <2> QED BY <1>1, <2>1 DEF AppendCall, TryAppend, Refused, Counted
<1>2. ASSUME NEW c, Reject(c) \/ Already(c) PROVE Counted
  BY <1>2, LogGrows DEF Reject, Already, Counted
<1>3. ASSUME NEW c, NEW p, BeginExecute(c, p) PROVE Counted
  <2>1. CASE ~CanStart
    BY <1>2, <1>3, <2>1 DEF BeginExecute
  <2>2. CASE CanStart
    BY <1>3, <2>2, LogGrows DEF BeginExecute, TryLease, Refused, Counted
  <2> QED BY <2>1, <2>2
<1>4. CASE \/ Create("api")
           \/ \E kind, p : StartRun("api", kind, p)
           \/ \E t : CloseRun("api", t)
           \/ \E i, k : Remove("api", i, k)
           \/ \E t, k : AppendLifecycle("api", t, k)
           \/ \E k : RecordProgress("api", k)
           \/ \E t, k : InitialInput("api", t, k)
  BY <1>1, <1>2, <1>4 DEF Create, StartRun, CloseRun, Remove, AppendLifecycle, RecordProgress,
     InitialInput
<1>5. CASE \/ \E k, t : TerminalExecute("api", k, t)
           \/ \E k : BeginChildHandoff("api", k)
           \/ \E k, p, t : TerminalChildHandoff("api", k, p, t)
           \/ \E run : Reconcile("api", run)
  <2>1. \/ \E c : Reject(c)
        \/ log' = log /\ faults' = faults /\ unsynced' = unsynced
    BY <1>5 DEF TerminalExecute, BeginChildHandoff, TerminalChildHandoff, Reconcile
  <2> QED BY <1>2, <2>1, LogGrows DEF Counted
<1> QED BY <1>3, <1>4, <1>5 DEF ApiCall

LEMMA FaultsGrow ==
    ASSUME Inv, [Next]_vars
    PROVE  /\ faults \in Nat /\ faults' \in Nat /\ faults' >= faults
           /\ unsynced \subseteq unsynced' /\ Longer
<1> DEFINE Grows == faults' \in {faults, faults + 1} /\ unsynced \subseteq unsynced' /\ Longer
<1>0. faults \in Nat
  BY DEF Inv, TypeInv, KernelOK, BoundsOK
<1> SUFFICES Grows
  BY <1>0
<1>s. ASSUME log' = log, faults' \in {faults, faults + 1}, unsynced' = unsynced PROVE Grows
  BY <1>s, LogGrows
<1>1. CASE ApiCall
  BY <1>1, CallLoses DEF Counted
<1>2. CASE CancelRead \/ Recovered \/ UNCHANGED vars
  BY <1>2, <1>s DEF CancelRead, Recovered, vars, kernelVars
<1>3. CASE CancelWrite
  BY <1>3, <1>s DEF CancelWrite, TerminalExecute, Reject
<1>4. CASE CancelLifecycle
  <2>1. \/ AppendCall("cancel", Plain("TaskCancelled"))
        \/ Reject("cancel")
    BY <1>4 DEF CancelLifecycle, AppendLifecycle
  <2>2. AppendCall("cancel", Plain("TaskCancelled")) => Longer
    BY LogGrows DEF AppendCall, TryAppend
  <2>3. AppendCall("cancel", Plain("TaskCancelled")) => Grows
    BY <2>2 DEF AppendCall, TryAppend, Refused
  <2> QED BY <1>s, <2>1, <2>3 DEF Reject
<1>5. CASE Crash
  BY <1>5, <1>s DEF Crash, KernelCrash, Refused
<1>6. CASE Work
  <2>1. ASSUME NEW STATE e, NEW ACTION Then, NEW ACTION Else, TryAppend(e, Then, Else)
        PROVE  Grows
    <3>1. Longer
      BY <2>1, LogGrows DEF TryAppend
    <3> QED BY <2>1, <3>1 DEF TryAppend, Refused
  <2>2. ASSUME AbandonBegin \/ EndRelease \/ CommitHandoffFrom PROVE Grows
    <3>1. Longer
      BY <2>2, LogGrows DEF AbandonBegin, EndRelease, CommitHandoffFrom
    <3> QED BY <2>2, <3>1 DEF AbandonBegin, EndRelease, CommitHandoffFrom, TryLease, Refused
  <2> HIDE DEF Grows
  <2> QED BY <1>6, <2>1, <2>2 DEF Work, KernelStep, RunStarted, EndChild, EndRun,
          ProposeHandoff, HandoffFailed, HandoffCommitted, ChildRunStarted, ReturnChild,
          ReconcileRollback, ReconcileChild, ReconcileRun
<1>7. CASE RecoverOrphans
  BY <1>7, <1>s DEF RecoverOrphans, Reconcile, Reject
<1> HIDE DEF Grows
<1> QED BY <1>1, <1>2, <1>3, <1>4, <1>5, <1>6, <1>7 DEF Next, Progress, Requests
-----------------------------------------------------------------------------
(***************************************************************************)
(* A claim and its run.  A run with an id has a token, so the empty claim  *)
(* does not end it, and a claim that names a run is compared with it.  A   *)
(* run without id (MarkStarted, StartRun) is compared with nothing: what   *)
(* keeps an older claim from ending it is that no claim its callers know   *)
(* holds the lease any more once the fenced run before it is over, unless  *)
(* the Release at that run's end was lost.                                 *)
(***************************************************************************)
Handoffs == {"to_child", "to_parent"}

Known == issued \cup (IF snapshot.pending THEN {snapshot.claim} ELSE {})

LogFenced ==
    /\ log.run.id # 0 => Active(log) /\ log.run.fence > 0
    /\ Active(log) => ~log.terminal

(* A handoff is of a run with an id, which was closed at most with the task. *)
Entitled == faults = 0 /\ op.kind \in Handoffs => log.run.id # 0 \/ log.terminal

Unnamed == log.run.id = 0 /\ ~log.terminal /\ op.pc # "release"

Settled == faults = 0 /\ Unnamed => \A k \in Known : ~Valid(k)

FencedInv ==
    /\ LogFenced /\ Entitled /\ Settled /\ ClaimEndsOwnRun
    /\ op.pc = "started" => op.claim.fence > 0

(* What a step takes for granted. *)
Fencing ==
    /\ Inv /\ OpRun /\ FencedInv /\ Record
    /\ snapshot' = snapshot \/ snapshot' = NoSnapshot
    /\ faults \in Nat /\ faults' \in Nat /\ faults' >= faults

(* What the callers know before and after. *)
LEMMA KnownFacts ==
    ASSUME Fencing
    PROVE  /\ \A k \in Known : k.fence \in Nat /\ k.fence <= lease.fence
           /\ \A k \in Known : k = NoClaim \/ k.run # 0
           /\ \A c, r : Return(c, r) => Known' \subseteq Known \cup {r.claim}
           /\ \A c, r : Return(c, r) /\ (~r.ok \/ r.claim = NoClaim) => Known' \subseteq Known
           /\ \A c : ret' = [ret EXCEPT ![c] = NoResult] => Known' \subseteq Known
           /\ ret' = ret => Known' \subseteq Known
<1>1. Known \subseteq Circulating
  BY DEF Known, Circulating
<1>2. snapshot'.pending => snapshot' = snapshot
  BY DEF Fencing, NoSnapshot
<1>3. /\ \A k \in Known : k.fence \in Nat /\ k.fence <= lease.fence
      /\ \A k \in Known : k = NoClaim \/ k.run # 0
  BY <1>1, CirculatingTypes DEF Fencing, Inv, AuthorityInv, Past, Named
<1>4. \A c, r : Return(c, r) => Known' \subseteq Known \cup {r.claim}
  BY <1>2, RecordReturn DEF Known, Return, Fencing, Inv, TypeInv, KernelOK, AuthorityInv, Named
<1>5. \A c, r : Return(c, r) /\ (~r.ok \/ r.claim = NoClaim) => Known' \subseteq Known
  BY <1>2, RecordReturn DEF Known, Return, Fencing, Inv, TypeInv, KernelOK, AuthorityInv, Named
<1>6. \A c : ret' = [ret EXCEPT ![c] = NoResult] => Known' \subseteq Known
  <2>1. ~NoResult.ok
    BY DEF NoResult
  <2> QED BY <1>2, <2>1, RecordReturn
          DEF Known, Fencing, Inv, TypeInv, KernelOK, AuthorityInv, Named
<1>7. ret' = ret => Known' \subseteq Known
  BY <1>2, RecordNothing DEF Known, Fencing, Inv, AuthorityInv, Named
<1> QED BY <1>3, <1>4, <1>5, <1>6, <1>7

(* No claim comes to hold the lease by standing still, or by its moving. *)
LEMMA StaysSettled ==
    ASSUME Fencing, Known' \subseteq Known,
           \/ lease' = lease /\ (faults' = 0 /\ Unnamed' => Unnamed)
           \/ lease'.fence = lease.fence + 1
    PROVE  Settled'
<1>0. lease.fence \in Nat
  BY DEF Fencing, Inv, BehindInv
<1>1. CASE lease' = lease /\ (faults' = 0 /\ Unnamed' => Unnamed)
  <2>1. faults' = 0 => faults = 0
    BY DEF Fencing
  <2>2. \A k : Valid(k)' <=> Valid(k)
    BY <1>1 DEF Valid, Holds
  <2> QED BY <1>1, <2>1, <2>2 DEF Fencing, FencedInv, Settled
<1>2. CASE lease'.fence = lease.fence + 1
  BY <1>0, <1>2, KnownFacts DEF Settled, Valid, Holds
<1> QED BY <1>1, <1>2

(* After a fault nothing is said of the claims. *)
LEMMA LostSettled == ASSUME faults' > 0, faults' \in Nat PROVE Settled' /\ Entitled'
  BY DEF Settled, Entitled

(* What an event does to the run and the task. *)
LEMMA AppendFenced ==
    ASSUME LogFenced, NEW e, Appends(e),
           e.type = "RunStarted" => ~log.terminal /\ (e.run = 0 \/ e.fence > 0),
           e.type \in TaskTerminals => ~Active(log)
    PROVE  /\ LogFenced'
           /\ log.terminal => log'.terminal
           /\ e.type \notin RunTerminals \cup {"RunStarted"} => log'.run = log.run
<1>1. CASE log' = log
  BY <1>1 DEF LogFenced, Active
<1>2. CASE log' = AppendEvent(log, e)
  <2>1. /\ log'.run = RunAfter(log, e) /\ log'.state = StateAfter(log, e)
        /\ log'.terminal = (log.terminal \/ Ends(e))
    BY <1>2 DEF AppendEvent
  <2>2. CASE e.type = "RunStarted"
    <3>1. log'.run.id = e.run /\ log'.run.fence = e.fence
      BY <2>1, <2>2 DEF RunAfter, RunTerminals
    <3>2. log'.state = "running"
      BY <2>1, <2>2 DEF StateAfter, RunState
    <3>3. ~Ends(e)
      BY <2>2 DEF Ends, RunTerminals, TaskTerminals
    <3> QED BY <2>1, <2>2, <3>1, <3>2, <3>3 DEF LogFenced, Active
  <2>3. CASE e.type \in RunTerminals
    <3>1. log'.run.id = 0 /\ log'.state # "running"
      BY <1>2, <2>3, AppendRun
    <3> QED BY <2>1, <2>3, <3>1 DEF LogFenced, Active
  <2>4. CASE e.type \notin RunTerminals \cup {"RunStarted"}
    <3>1. log'.run = log.run /\ log'.state = log.state
      BY <1>2, <2>4, AppendRun
    <3>2. Ends(e) => e.type \in TaskTerminals
      BY <2>4 DEF Ends
    <3> QED BY <2>1, <3>1, <3>2 DEF LogFenced, Active
  <2> QED BY <2>2, <2>3, <2>4
<1> QED BY <1>1, <1>2 DEF Appends

(* An operation that is over, and has handed no claim out. *)
LEMMA OverFenced ==
    ASSUME Fencing, op' = Idle, LogFenced', Known' \subseteq Known,
           \/ lease' = lease /\ (faults' = 0 /\ Unnamed' => Unnamed)
           \/ lease'.fence = lease.fence + 1
           \/ faults' > 0
    PROVE  FencedInv'
<1>1. Settled'
  BY StaysSettled, LostSettled DEF Fencing
<1> QED BY <1>1 DEF Idle, FencedInv, Entitled, Handoffs, ClaimEndsOwnRun

(* A program's append that neither starts nor ends a run or the task. *)
LEMMA QuietFenced ==
    ASSUME Fencing, lease' = lease, op.pc # "release", NEW e, Appends(e),
           e.type \notin RunTerminals \cup TaskTerminals \cup {"RunStarted"},
           \/ Return(op.caller, Failed)
           \/ \E at : /\ Goto(at) /\ at \notin {"started", "release"}
                      /\ op.kind = "end" => op.pc = "child"
    PROVE  FencedInv'
<1>0. op \in Operation /\ LogFenced /\ Entitled /\ ClaimEndsOwnRun
  BY DEF Fencing, Inv, TypeInv, KernelOK, OpOK, FencedInv
<1>1. LogFenced' /\ log'.run = log.run /\ (log.terminal => log'.terminal)
  BY <1>0, AppendFenced
<1>2. Unnamed' => Unnamed
  BY <1>1 DEF Unnamed
<1>3. Known' \subseteq Known
  BY KnownFacts DEF Failed, Goto
<1>4. CASE Return(op.caller, Failed)
  BY <1>1, <1>2, <1>3, <1>4, OverFenced DEF Return
<1>5. ASSUME NEW at, Goto(at), at \notin {"started", "release"}, op.kind = "end" => op.pc = "child"
      PROVE  FencedInv'
  <2>1. Settled'
    BY <1>2, <1>3, StaysSettled
  <2>2. op'.pc = at /\ op'.kind = op.kind /\ op'.claim = op.claim
    BY <1>0, <1>5, GotoFacts
  <2>3. Entitled' /\ ClaimEndsOwnRun'
    BY <1>0, <1>1, <1>5, <2>2 DEF Entitled, ClaimEndsOwnRun, Fencing
  <2> QED BY <1>1, <1>5, <2>1, <2>2, <2>3 DEF FencedInv
<1> QED BY <1>4, <1>5

(* A program that writes nothing to the log, and goes on or is over. *)
LEMMA MovedFenced ==
    ASSUME Fencing, log' = log, lease'.fence = lease.fence + 1 \/ faults' > 0,
           \/ \E c : Return(c, Failed) \/ Return(c, Done(NoClaim))
           \/ \E at : Goto(at) /\ at # "started" /\ op.kind # "end"
    PROVE  FencedInv'
<1>0. op \in Operation /\ LogFenced /\ Entitled /\ ClaimEndsOwnRun
  BY DEF Fencing, Inv, TypeInv, KernelOK, OpOK, FencedInv
<1>1. LogFenced'
  BY <1>0 DEF LogFenced, Active
<1>2. Known' \subseteq Known
  BY KnownFacts DEF Failed, Done, Goto
<1>3. ASSUME NEW c, Return(c, Failed) \/ Return(c, Done(NoClaim)) PROVE FencedInv'
  <2>1. op' = Idle
    BY <1>3 DEF Return
  <2> QED BY <1>1, <1>2, <2>1, OverFenced
<1>4. ASSUME NEW at, Goto(at), at # "started", op.kind # "end" PROVE FencedInv'
  <2>1. Settled'
    BY <1>2, StaysSettled, LostSettled DEF Fencing
  <2>2. op'.pc = at /\ op'.kind = op.kind /\ op'.claim = op.claim
    BY <1>0, <1>4, GotoFacts
  <2>3. Entitled' /\ ClaimEndsOwnRun'
    BY <1>0, <1>4, <2>2 DEF Entitled, ClaimEndsOwnRun, Fencing
  <2> QED BY <1>1, <1>4, <2>1, <2>2, <2>3 DEF FencedInv
<1> QED BY <1>3, <1>4

(* EndRun and ReconcileRun: the run is closed, and the lease released next. *)
LEMMA ClosingFenced ==
    ASSUME Fencing, lease' = lease, op.kind \in {"end", "reconcile"}, op.pc # "release",
           NEW STATE e, e.type \in RunTerminals,
           TryAppend(e, Goto("release"), Return(op.caller, Failed))
    PROVE  FencedInv'
<1>0. op \in Operation /\ LogFenced
  BY DEF Fencing, Inv, TypeInv, KernelOK, OpOK, FencedInv
<1>1. Appends(e) /\ e.type # "RunStarted" /\ e.type \notin TaskTerminals
  BY DEF TryAppend, Appends, RunTerminals, TaskTerminals
<1>2. LogFenced'
  BY <1>0, <1>1, AppendFenced
<1>3. CASE Goto("release")
  <2>1. op'.pc = "release" /\ op'.kind = op.kind
    BY <1>0, <1>3, GotoFacts
  <2> QED BY <1>2, <2>1 DEF FencedInv, Entitled, Handoffs, Settled, Unnamed, ClaimEndsOwnRun
<1>4. ASSUME Return(op.caller, Failed), log' = log \/ faults' > 0 PROVE FencedInv'
  <2>1. Known' \subseteq Known /\ op' = Idle
    BY <1>4, KnownFacts DEF Failed, Return
  <2>2. log' = log => (Unnamed' => Unnamed)
    BY DEF Unnamed
  <2> QED BY <1>2, <1>4, <2>1, <2>2, OverFenced
<1>5. \/ Goto("release")
      \/ Return(op.caller, Failed) /\ (log' = log \/ faults' > 0)
  BY DEF TryAppend, Refused, Fencing
<1> QED BY <1>3, <1>4, <1>5

(* A handoff that is complete hands its claim out. *)
LEMMA HandOutFenced ==
    ASSUME Fencing, lease' = lease, op.kind \in Handoffs, NEW e, Appends(e),
           e.type \notin RunTerminals \cup TaskTerminals \cup {"RunStarted"},
           NEW k, Return(op.caller, Done(k))
    PROVE  FencedInv'
<1>0. LogFenced /\ Entitled
  BY DEF Fencing, FencedInv
<1>1. LogFenced' /\ log'.run = log.run /\ (log.terminal => log'.terminal)
  BY <1>0, AppendFenced
<1>2. faults' = 0 => ~Unnamed'
  BY <1>0, <1>1 DEF Entitled, Unnamed, Fencing
<1>3. Settled' /\ op' = Idle
  BY <1>2 DEF Settled, Return
<1> QED BY <1>1, <1>3 DEF Idle, FencedInv, Entitled, Handoffs, ClaimEndsOwnRun

(* A call that writes at most one event. *)
LEMMA OnceFenced ==
    ASSUME Fencing, NEW c,
           \/ Create(c)
           \/ \E kind, p : StartRun(c, kind, p)
           \/ \E t \in {"RunCompleted", "RunFailed"} : CloseRun(c, t)
           \/ \E i, k : Remove(c, i, k)
           \/ \E t \in TaskTerminals : \E k : AppendLifecycle(c, t, k)
           \/ \E k : RecordProgress(c, k)
           \/ \E t \in InputEvents : \E k : InitialInput(c, t, k)
    PROVE  FencedInv'
<1>0. LogFenced /\ op.pc # "release"
  BY DEF Fencing, FencedInv, Idle, Create, StartRun, CloseRun, Remove, AppendLifecycle,
     RecordProgress, InitialInput
<1>1. ASSUME NEW r, Return(c, r), ~r.ok \/ r.claim = NoClaim PROVE op' = Idle /\ Known' \subseteq Known
  BY <1>1, KnownFacts DEF Return
<1>r. ~Failed.ok /\ Done(NoClaim).claim = NoClaim
  BY DEF Failed, Done
<1>2. ASSUME Reject(c) \/ Already(c) PROVE FencedInv'
  <2>1. op' = Idle /\ Known' \subseteq Known /\ log' = log /\ lease' = lease
    BY <1>1, <1>2, <1>r DEF Reject, Already
  <2>2. LogFenced' /\ (Unnamed' => Unnamed)
    BY <1>0, <2>1 DEF LogFenced, Active, Unnamed
  <2> QED BY <2>1, <2>2, OverFenced
<1>3. ASSUME NEW e, AppendCall(c, e),
             e.type = "RunStarted" => ~log.terminal /\ ~Active(log) /\ e.run = 0,
             e.type \in TaskTerminals => ~Active(log),
             e.type \in RunTerminals => e.type # "RunInterrupted"
      PROVE  FencedInv'
  <2>1. Appends(e) /\ op' = Idle /\ Known' \subseteq Known /\ lease' = lease
    BY <1>1, <1>3, <1>r DEF AppendCall, TryAppend, Appends
  <2>2. /\ LogFenced' /\ (log.terminal => log'.terminal)
        /\ e.type \notin RunTerminals \cup {"RunStarted"} => log'.run = log.run
    BY <1>0, <1>3, <2>1, AppendFenced
  <2>3. CASE log' = log
    <3>1. Unnamed' => Unnamed
      BY <1>0, <2>3 DEF Unnamed
    <3> QED BY <2>1, <2>2, <3>1, OverFenced
  <2>4. CASE e.type \notin RunTerminals \cup {"RunStarted"}
    <3>1. Unnamed' => Unnamed
      BY <1>0, <2>2, <2>4 DEF Unnamed
    <3> QED BY <2>1, <2>2, <3>1, OverFenced
  <2>5. CASE e.type = "RunStarted"
    <3>1. Unnamed
      BY <1>0, <1>3, <2>5 DEF Unnamed, LogFenced
    <3> QED BY <2>1, <2>2, <3>1, OverFenced
  <2>6. CASE e.type \in RunTerminals /\ log' = AppendEvent(log, e)
    <3>1. log'.terminal
      BY <1>3, <2>6 DEF AppendEvent, Ends
    <3>2. ~Unnamed'
      BY <3>1 DEF Unnamed
    <3> QED BY <2>1, <2>2, <3>2, OverFenced
  <2> QED BY <2>1, <2>3, <2>4, <2>5, <2>6 DEF Appends
<1>4. \A t : Plain(t).type = t
  BY DEF Plain
<1>5. CASE Create(c)
  BY <1>3, <1>4, <1>5 DEF Create, TaskTerminals, RunTerminals
<1>6. CASE \E kind, p : StartRun(c, kind, p)
  <2>1. PICK kind, p : StartRun(c, kind, p)
    BY <1>6
  <2> DEFINE e == RunEvent("RunStarted", kind, 0, Primary(p), 0)
  <2>2. e.type = "RunStarted" /\ e.run = 0
    BY DEF RunEvent
  <2>3. Reject(c) \/ (AppendCall(c, e) /\ ~log.terminal /\ ~Active(log))
    BY <2>1 DEF StartRun, CanStart
  <2> HIDE DEF e
  <2> QED BY <1>2, <1>3, <2>2, <2>3 DEF RunTerminals, TaskTerminals
<1>7. CASE \E t \in {"RunCompleted", "RunFailed"} : CloseRun(c, t)
  <2>1. PICK t \in {"RunCompleted", "RunFailed"} : CloseRun(c, t)
    BY <1>7
  <2>2. Plain(t).type = t /\ t \notin TaskTerminals \cup {"RunStarted", "RunInterrupted"}
    BY <1>4 DEF TaskTerminals
  <2> QED BY <1>2, <1>3, <2>1, <2>2 DEF CloseRun
<1>8. CASE \E i, k : Remove(c, i, k)
  <2>1. PICK i, k : Remove(c, i, k)
    BY <1>8
  <2>2. Reject(c) \/ Already(c) \/ (AppendCall(c, Plain("TaskRemoved")) /\ ~Active(log))
    BY <2>1 DEF Remove
  <2> QED BY <1>2, <1>3, <1>4, <2>2 DEF RunTerminals
<1>9. CASE \E t \in TaskTerminals : \E k : AppendLifecycle(c, t, k)
  <2>1. PICK t \in TaskTerminals : \E k : AppendLifecycle(c, t, k)
    BY <1>9
  <2>2. Reject(c) \/ (AppendCall(c, Plain(t)) /\ ~Active(log))
    BY <2>1 DEF AppendLifecycle, CanStart
  <2>3. Plain(t).type = t /\ t # "RunStarted" /\ t \notin RunTerminals
    BY <1>4 DEF TaskTerminals, RunTerminals
  <2> QED BY <1>2, <1>3, <2>2, <2>3
<1>10. CASE \E k : RecordProgress(c, k)
  <2>1. PICK k : RecordProgress(c, k)
    BY <1>10
  <2> DEFINE e == RunEvent("RunProgress", "none", k.run, k.owner, k.fence)
  <2>2. e.type = "RunProgress"
    BY DEF RunEvent
  <2>3. Reject(c) \/ AppendCall(c, e)
    BY <2>1 DEF RecordProgress
  <2> HIDE DEF e
  <2> QED BY <1>2, <1>3, <2>2, <2>3 DEF TaskTerminals, RunTerminals
<1>11. CASE \E t \in InputEvents : \E k : InitialInput(c, t, k)
  <2>1. PICK t \in InputEvents : \E k : InitialInput(c, t, k)
    BY <1>11
  <2>2. Reject(c) \/ Already(c) \/ AppendCall(c, Plain(t))
    BY <2>1 DEF InitialInput
  <2>3. Plain(t).type = t /\ t \notin RunTerminals \cup TaskTerminals \cup {"RunStarted"}
    BY <1>4 DEF InputEvents, TaskTerminals, RunTerminals
  <2> QED BY <1>2, <1>3, <2>2, <2>3
<1> QED BY <1>5, <1>6, <1>7, <1>8, <1>9, <1>10, <1>11

(* A call that starts a program, or is turned down, and writes nothing. *)
LEMMA LaunchFenced ==
    ASSUME Fencing, op = Idle, log' = log, lease' = lease, Known' \subseteq Known,
           \/ op' = Idle
           \/ op'.pc # "started" /\ Entitled' /\ ClaimEndsOwnRun'
    PROVE  FencedInv'
<1>1. LogFenced'
  BY DEF Fencing, FencedInv, LogFenced, Active
<1>2. op.pc = "none"
  BY DEF Idle
<1>3. Unnamed' => Unnamed
  BY <1>2 DEF Unnamed
<1>4. Settled'
  BY <1>3, StaysSettled
<1> QED BY <1>1, <1>3, <1>4, OverFenced DEF FencedInv

LEMMA BeginFenced ==
    ASSUME Fencing, NEW c, NEW p, BeginExecute(c, p)
    PROVE  FencedInv'
<1>0. op = Idle /\ lease.fence \in Nat /\ LogFenced
  BY DEF BeginExecute, Fencing, FencedInv, Inv, BehindInv
<1>r. ~Failed.ok
  BY DEF Failed
<1>1. CASE Reject(c)
  <2>1. op' = Idle /\ Known' \subseteq Known /\ log' = log /\ lease' = lease
    BY <1>1, <1>r, KnownFacts DEF Reject, Return
  <2> QED BY <1>0, <2>1, LaunchFenced
<1>2. CASE /\ Return(c, Failed) /\ log' = log
           /\ lease'.fence = lease.fence + 1 \/ faults' > 0
  BY <1>2, MovedFenced
<1>3. CASE /\ Begin(c, "begin", "started",
                    [run |-> runs + 1, owner |-> Primary(p), fence |-> lease.fence + 1],
                    "RunStarted", NoOwner)
           /\ log' = log /\ lease'.fence = lease.fence + 1
  <2>1. /\ op'.kind = "begin" /\ op'.pc = "started" /\ op'.claim.fence = lease.fence + 1
        /\ ret' = [ret EXCEPT ![c] = NoResult]
    BY <1>3 DEF Begin
  <2>2. LogFenced'
    BY <1>0, <1>3 DEF LogFenced, Active
  <2>3. Settled'
    BY <1>3, <2>1, KnownFacts, StaysSettled
  <2> QED BY <1>0, <2>1, <2>2, <2>3 DEF FencedInv, Entitled, Handoffs, ClaimEndsOwnRun
<1> QED BY <1>1, <1>2, <1>3 DEF BeginExecute, TryLease, Refused, Fencing

(* A terminal begins only under a claim of the active run, or after a      *)
(* fault, or where neither the run nor the claim has an id.                *)
LEMMA EndFenced ==
    ASSUME Fencing, NEW c, NEW k, NEW type, TerminalExecute(c, k, type),
           k = NoClaim \/ k \in Known
    PROVE  FencedInv'
<1>0. op = Idle /\ log' = log /\ lease' = lease /\ faults' = faults
  BY DEF TerminalExecute, Reject
<1>1. CASE ~MayEnd(k)
  <2>1. Return(c, Failed) /\ ~Failed.ok
    BY <1>1 DEF TerminalExecute, Reject, Failed
  <2>2. op' = Idle /\ Known' \subseteq Known
    BY <2>1, KnownFacts DEF Return
  <2> QED BY <1>0, <2>2, LaunchFenced
<1>2. CASE MayEnd(k)
  <2>1. /\ op'.kind = "end" /\ op'.claim = k /\ op'.pc \in {"child", "terminal"}
        /\ ret' = [ret EXCEPT ![c] = NoResult]
    BY <1>2 DEF TerminalExecute, Begin
  <2>2. Active(log) /\ ~log.terminal /\ (log.run.id # 0 => log.run.fence > 0) /\ Holds(k)
    BY <1>2 DEF MayEnd, Fencing, FencedInv, LogFenced
  <2>3. ASSUME log.run.id # 0 PROVE k.run = log.run.id
    <3>1. log.run.fence \in 0..lease.fence /\ lease.fence \in Nat
      BY DEF Fencing, Inv, BehindInv, Behind
    <3>2. k # NoClaim
      BY <2>2, <2>3, <3>1 DEF Holds, NoClaim
    <3>3. k.run # 0
      BY <3>2, KnownFacts
    <3> QED BY <1>2, <2>3, <3>3 DEF MayEnd
  <2>4. ASSUME log.run.id = 0, k.run # 0 PROVE faults # 0
    <3>1. k \in Known /\ Valid(k)
      BY <2>2, <2>4 DEF Valid, NoClaim
    <3>2. Unnamed
      BY <1>0, <2>2, <2>4 DEF Unnamed, Idle
    <3> QED BY <3>1, <3>2 DEF Fencing, FencedInv, Settled
  <2>5. k.run = log.run.id \/ (log.run.id = 0 /\ faults > 0)
    BY <2>3, <2>4 DEF Fencing
  <2>6. ClaimEndsOwnRun' /\ Entitled' /\ op'.pc # "started" /\ Known' \subseteq Known
    BY <1>0, <2>1, <2>5, KnownFacts DEF ClaimEndsOwnRun, Entitled, Handoffs
  <2> QED BY <1>0, <2>6, LaunchFenced
<1> QED BY <1>1, <1>2

(* The calls that start a handoff or a reconciliation. *)
LEMMA HandoffFenced ==
    ASSUME Fencing, NEW c, NEW k, k = NoClaim \/ k \in Known,
           \/ BeginChildHandoff(c, k)
           \/ \E p, t : TerminalChildHandoff(c, k, p, t)
    PROVE  FencedInv'
<1>0. op = Idle /\ log' = log /\ lease' = lease /\ faults' = faults
  BY DEF BeginChildHandoff, TerminalChildHandoff, Reject
<1>n. LogNamed
  BY DEF Fencing, Inv, AuthorityInv, Named, LogNamed
<1>1. CASE Reject(c)
  <2>1. op' = Idle /\ Known' \subseteq Known
    BY <1>1, KnownFacts DEF Reject, Return, Failed
  <2> QED BY <1>0, <2>1, LaunchFenced
<1>2. CASE ~Reject(c)
  <2>1. /\ op'.kind \in Handoffs /\ op'.pc \in {"propose", "child"}
        /\ ret' = [ret EXCEPT ![c] = NoResult]
        /\ MayDelegate(k) \/ \E t : MayReturn(k, t)
    BY <1>2 DEF BeginChildHandoff, TerminalChildHandoff, Handoffs
  <2>2. CASE MayDelegate(k)
    <3>1. log.run.id # 0
      BY <1>n, <2>2 DEF MayDelegate, ActiveExecute, LogNamed
    <3>2. Entitled' /\ ClaimEndsOwnRun'
      BY <1>0, <2>1, <3>1 DEF Entitled, ClaimEndsOwnRun, Handoffs
    <3> QED BY <1>0, <2>1, <3>2, KnownFacts, LaunchFenced
  <2>3. CASE \E t : MayReturn(k, t)
    <3>1. Holds(k) /\ k.run # 0
      BY <1>n, <2>3 DEF MayReturn, LogNamed
    <3>2. k \in Known /\ Valid(k)
      BY <3>1 DEF Valid, NoClaim
    <3>3. faults = 0 => ~Unnamed
      BY <3>2 DEF Fencing, FencedInv, Settled
    <3>4. Entitled' /\ ClaimEndsOwnRun'
      BY <1>0, <2>1, <3>3 DEF Entitled, Unnamed, Idle, ClaimEndsOwnRun, Handoffs
    <3> QED BY <1>0, <2>1, <3>4, KnownFacts, LaunchFenced
  <2> QED BY <2>1, <2>2, <2>3
<1> QED BY <1>1, <1>2

LEMMA ReconcileFenced ==
    ASSUME Fencing, NEW c, NEW run, Reconcile(c, run)
    PROVE  FencedInv'
<1>0. op = Idle /\ log' = log /\ lease' = lease
  BY DEF Reconcile, Reject
<1>1. CASE Reject(c)
  <2>1. op' = Idle /\ Known' \subseteq Known
    BY <1>1, KnownFacts DEF Reject, Return, Failed
  <2> QED BY <1>0, <2>1, LaunchFenced
<1>2. CASE ~Reject(c)
  <2>1. /\ op'.kind = "reconcile" /\ op'.pc \in {"rollback", "child_interrupt", "interrupt"}
        /\ ret' = [ret EXCEPT ![c] = NoResult]
    BY <1>2 DEF Reconcile, Begin, AfterRollback
  <2>2. Entitled' /\ ClaimEndsOwnRun'
    BY <2>1 DEF Entitled, ClaimEndsOwnRun, Handoffs
  <2> QED BY <1>0, <2>1, <2>2, KnownFacts, LaunchFenced
<1> QED BY <1>1, <1>2

(* The steps of the program that holds Repo.mu. *)
LEMMA StepFenced ==
    ASSUME Fencing, snapshot' = snapshot, KernelStep
    PROVE  FencedInv'
<1>0. op \in Operation /\ OpOK /\ OpShape /\ LogFenced
  BY DEF Fencing, Inv, TypeInv, KernelOK, OpOK, OpRun, FencedInv
<1>q. \A t \in ChildTerminals \cup HandoffEvents \cup {"ChildRunStarted"} :
         t \notin RunTerminals \cup TaskTerminals \cup {"RunStarted"}
  BY DEF ChildTerminals, HandoffEvents, RunTerminals, TaskTerminals
<1>1. CASE RunStarted
  <2> DEFINE e == RunEvent("RunStarted", "execute", op.claim.run, op.claim.owner,
                           op.claim.fence)
  <2>1. /\ op.kind = "begin" /\ op.pc = "started" /\ op.claim.fence > 0 /\ ~log.terminal
        /\ op.claim.run # 0 /\ lease' = lease
    BY <1>1 DEF RunStarted, Step, Fencing, FencedInv, OpRun, Inv, AuthorityInv, OpFresh
  <2>2. /\ e.type = "RunStarted" /\ e.fence = op.claim.fence
        /\ e.run = op.claim.run /\ e.type \notin TaskTerminals
    BY DEF RunEvent, TaskTerminals
  <2>3. /\ Appends(e)
        /\ \/ log' = AppendEvent(log, e) /\ Return(op.caller, Done(op.claim))
           \/ Goto("abandon") /\ (log' = log \/ faults' > 0)
    BY <1>1 DEF RunStarted, TryAppend, Appends, Refused, Fencing
  <2> HIDE DEF e
  <2>4. LogFenced'
    BY <1>0, <2>1, <2>2, <2>3, AppendFenced
  <2>5. CASE log' = AppendEvent(log, e) /\ Return(op.caller, Done(op.claim))
    <3>1. log'.run.id # 0
      BY <2>1, <2>2, <2>5, AppendRun
    <3>2. op'.kind = "none" /\ op'.pc = "none"
      BY <2>5 DEF Return, Idle
    <3> QED BY <2>4, <3>1, <3>2 DEF FencedInv, Entitled, Handoffs, Settled, Unnamed,
            ClaimEndsOwnRun
  <2>6. CASE Goto("abandon") /\ (log' = log \/ faults' > 0)
    <3>1. op'.pc = "abandon" /\ op'.kind = "begin" /\ Known' \subseteq Known
      BY <1>0, <2>1, <2>6, GotoFacts, KnownFacts
    <3>2. Unnamed' /\ log' = log => Unnamed
      BY <2>1 DEF Unnamed
    <3>3. Settled'
      BY <2>1, <2>6, <3>1, <3>2, StaysSettled, LostSettled DEF Fencing
    <3> QED BY <2>4, <3>1, <3>3 DEF FencedInv, Entitled, Handoffs, ClaimEndsOwnRun
  <2> QED BY <2>3, <2>5, <2>6
<1>2. CASE AbandonBegin \/ EndRelease \/ CommitHandoffFrom
  <2>1. lease.fence + 1 = lease'.fence \/ faults' > 0
    BY <1>2 DEF AbandonBegin, EndRelease, CommitHandoffFrom, TryLease, Refused, Fencing
  <2>2. log' = log
    BY <1>2 DEF AbandonBegin, EndRelease, CommitHandoffFrom
  <2>3. CommitHandoffFrom => op.kind # "end"
    BY <1>0 DEF CommitHandoffFrom, OpShape
  <2>4. \/ Return(op.caller, Failed) \/ Return(op.caller, Done(NoClaim))
        \/ op.kind # "end" /\ (Goto("commit") \/ Goto("cas_failed"))
    BY <1>2, <2>3 DEF AbandonBegin, EndRelease, CommitHandoffFrom, TryLease
  <2> QED BY <2>1, <2>2, <2>4, MovedFenced
<1>3. CASE EndChild
  <2> DEFINE e == ChildEvent(ChildTerminalFor[op.type], log.child, op.claim.owner,
                             op.claim.fence)
  <2>0. op.kind = "end" /\ op.pc = "child" /\ op.type \in RunTerminals /\ lease' = lease
    BY <1>0, <1>3 DEF EndChild, Step, OpOK
  <2>1. e.type \in ChildTerminals
    BY <2>0 DEF ChildEvent, ChildTerminalFor, RunTerminals, ChildTerminals
  <2>2. Appends(e) /\ (Return(op.caller, Failed) \/ Goto("terminal"))
    BY <1>3 DEF EndChild, TryAppend, Appends
  <2> HIDE DEF e
  <2> QED BY <1>q, <2>0, <2>1, <2>2, QuietFenced
<1>4. CASE EndRun
  <2> DEFINE e == RunEvent(op.type, "execute", op.claim.run, op.claim.owner, op.claim.fence)
  <2>1. op.kind = "end" /\ op.pc = "terminal" /\ lease' = lease /\ e.type \in RunTerminals
    BY <1>0, <1>4 DEF EndRun, Step, OpOK, RunEvent
  <2>2. TryAppend(e, Goto("release"), Return(op.caller, Failed))
    BY <1>4 DEF EndRun
  <2> HIDE DEF e
  <2> QED BY <2>1, <2>2, ClosingFenced
<1>5. CASE ReconcileRun
  <2> DEFINE e == RunEvent("RunInterrupted", "execute", op.claim.run, op.claim.owner,
                           op.claim.fence)
  <2>1. op.kind = "reconcile" /\ op.pc = "interrupt" /\ lease' = lease
        /\ e.type \in RunTerminals
    BY <1>5 DEF ReconcileRun, Step, RunEvent, RunTerminals
  <2>2. TryAppend(e, Goto("release"), Return(op.caller, Failed))
    BY <1>5 DEF ReconcileRun
  <2> HIDE DEF e
  <2> QED BY <2>1, <2>2, ClosingFenced
<1>6. CASE ProposeHandoff
  <2> DEFINE e == Transfer("HandoffProposed", Direction)
  <2>1. e.type \in HandoffEvents /\ op.kind # "end" /\ op.pc = "propose" /\ lease' = lease
    BY <1>6 DEF ProposeHandoff, Transfer, HandoffEvent, HandoffEvents
  <2>2. Appends(e) /\ (Return(op.caller, Failed) \/ Goto("cas"))
    BY <1>6 DEF ProposeHandoff, TryAppend, Appends
  <2> HIDE DEF e
  <2> QED BY <1>q, <2>1, <2>2, QuietFenced
<1>7. CASE HandoffFailed
  <2> DEFINE e == Transfer("HandoffFailed", Direction)
  <2>1. e.type \in HandoffEvents /\ op.pc # "release" /\ lease' = lease
    BY <1>7 DEF HandoffFailed, Transfer, HandoffEvent, HandoffEvents
  <2>2. Appends(e) /\ Return(op.caller, Failed)
    BY <1>7 DEF HandoffFailed, TryAppend, Appends
  <2> HIDE DEF e
  <2> QED BY <1>q, <2>1, <2>2, QuietFenced
<1>8. CASE HandoffCommitted
  <2> DEFINE e == Transfer("HandoffCommitted", Direction)
  <2>1. /\ e.type \in HandoffEvents /\ op.pc = "commit" /\ lease' = lease
        /\ op.kind \in Handoffs
    BY <1>0, <1>8 DEF HandoffCommitted, Transfer, HandoffEvent, HandoffEvents, OpShape, Handoffs
  <2>2. /\ Appends(e)
        /\ \/ Return(op.caller, Failed) \/ Goto("child_start")
           \/ Return(op.caller, Done(Transferred))
    BY <1>8 DEF HandoffCommitted, TryAppend, Appends
  <2> HIDE DEF e
  <2>3. op.kind # "end"
    BY <2>1 DEF Handoffs
  <2> QED BY <1>q, <2>1, <2>2, <2>3, QuietFenced, HandOutFenced
<1>9. CASE ChildRunStarted
  <2> DEFINE e == HandoffEvent("ChildRunStarted", "none", op.claim.run, op.handoff,
                               NoOwner, op.to, op.claim.fence + 1)
  <2>1. /\ e.type = "ChildRunStarted" /\ op.pc = "child_start" /\ lease' = lease
        /\ op.kind \in Handoffs
    BY <1>0, <1>9 DEF ChildRunStarted, HandoffEvent, OpShape, Handoffs
  <2>2. /\ Appends(e)
        /\ Return(op.caller, Done(Transferred)) \/ Goto("child_start_failed")
    BY <1>9 DEF ChildRunStarted, TryAppend, Appends
  <2> HIDE DEF e
  <2>3. op.kind # "end"
    BY <2>1 DEF Handoffs
  <2> QED BY <1>q, <2>1, <2>2, <2>3, QuietFenced, HandOutFenced
<1>10. CASE ReturnChild
  <2> DEFINE e == ChildEvent(op.type, log.child, log.child.owner, log.child.fence)
  <2>1. /\ e.type \in ChildTerminals /\ op.kind = "to_parent" /\ op.pc = "child"
        /\ lease' = lease
    BY <1>0, <1>10 DEF ReturnChild, Step, OpOK, ChildEvent
  <2>2. Appends(e) /\ (Return(op.caller, Failed) \/ Goto("propose"))
    BY <1>10 DEF ReturnChild, TryAppend, Appends
  <2> HIDE DEF e
  <2> QED BY <1>q, <2>1, <2>2, QuietFenced
<1>11. CASE ReconcileRollback
  <2> DEFINE e == HandoffEvent("HandoffRolledBack", "none", op.claim.run,
                               log.prop.handoff, NoOwner, NoOwner, op.claim.fence)
  <2>1. e.type \in HandoffEvents /\ op.kind # "end" /\ op.pc = "rollback" /\ lease' = lease
    BY <1>11 DEF ReconcileRollback, Step, HandoffEvent, HandoffEvents
  <2>2. Appends(e) /\ (Return(op.caller, Failed) \/ Goto(AfterRollback))
    BY <1>11 DEF ReconcileRollback, TryAppend, Appends
  <2>3. AfterRollback \notin {"started", "release"}
    BY DEF AfterRollback
  <2> HIDE DEF e
  <2> QED BY <1>q, <2>1, <2>2, <2>3, QuietFenced
<1>12. CASE ReconcileChild
  <2> DEFINE e == ChildEvent("ChildRunInterrupted", log.child, log.child.owner,
                             log.child.fence)
  <2>1. /\ e.type \in ChildTerminals /\ op.kind # "end" /\ op.pc = "child_interrupt"
        /\ lease' = lease
    BY <1>12 DEF ReconcileChild, Step, ChildEvent, ChildTerminals
  <2>2. Appends(e) /\ (Return(op.caller, Failed) \/ Goto("interrupt"))
    BY <1>12 DEF ReconcileChild, TryAppend, Appends
  <2> HIDE DEF e
  <2> QED BY <1>q, <2>1, <2>2, QuietFenced
<1> QED BY <1>1, <1>2, <1>3, <1>4, <1>5, <1>6, <1>7, <1>8, <1>9, <1>10, <1>11, <1>12
       DEF KernelStep

LEMMA FencedStep ==
    ASSUME Inv, OpRun, FencedInv, [Next]_vars
    PROVE  FencedInv'
<1>0. faults \in Nat /\ faults' \in Nat /\ faults' >= faults
  BY FaultsGrow
<1>p. \A k \in Presented : k = NoClaim \/ k \in Known
  BY DEF Presented, Known
<1>1. CASE ApiCall /\ Record
  <2>0. Fencing
    BY <1>0, <1>1 DEF ApiCall, Fencing
  <2>1. CASE \/ Create("api")
             \/ \E kind, p : StartRun("api", kind, p)
             \/ \E t \in {"RunCompleted", "RunFailed"} : CloseRun("api", t)
             \/ \E i, k : Remove("api", i, k)
             \/ \E t \in TaskTerminals : \E k : AppendLifecycle("api", t, k)
             \/ \E k : RecordProgress("api", k)
             \/ \E t \in InputEvents : \E k : InitialInput("api", t, k)
    BY <2>0, <2>1, OnceFenced
  <2>2. CASE \E p : BeginExecute("api", p)
    BY <2>0, <2>2, BeginFenced
  <2>3. CASE \E k \in Presented : \/ \E t : TerminalExecute("api", k, t)
                                 \/ BeginChildHandoff("api", k)
                                 \/ \E p, t : TerminalChildHandoff("api", k, p, t)
                                 \/ Reconcile("api", k.run)
    BY <1>p, <2>0, <2>3, EndFenced, HandoffFenced, ReconcileFenced
  <2> QED BY <1>1, <2>1, <2>2, <2>3 DEF ApiCall, TaskTerminals
<1>2. CASE CancelRead /\ Record
  <2>1. op = Idle /\ op' = op /\ log' = log /\ faults' = faults /\ log.run.id # 0
    BY <1>2 DEF CancelRead, kernelVars
  <2>2. op'.kind = "none" /\ op'.pc = "none"
    BY <2>1 DEF Idle
  <2> QED BY <2>1, <2>2 DEF FencedInv, LogFenced, Active, Entitled, Handoffs, Settled, Unnamed,
          ClaimEndsOwnRun
<1>3. CASE CancelWrite /\ Record
  <2>1. Fencing /\ snapshot.claim \in Known
        /\ TerminalExecute("cancel", snapshot.claim, "RunCancelled")
    BY <1>0, <1>3 DEF CancelWrite, Fencing, Known
  <2> QED BY <2>1, EndFenced
<1>4. CASE CancelLifecycle /\ Record
  <2>1. Fencing /\ \E k : AppendLifecycle("cancel", "TaskCancelled", k)
    BY <1>0, <1>4 DEF CancelLifecycle, Fencing
  <2> QED BY <2>1, OnceFenced DEF TaskTerminals
<1>5. CASE Crash /\ Record
  <2>1. faults' > 0 /\ op' = Idle /\ log' = log
    BY <1>0, <1>5 DEF Crash, KernelCrash, Refused
  <2>2. op'.kind = "none" /\ op'.pc = "none"
    BY <2>1 DEF Idle
  <2> QED BY <1>0, <2>1, <2>2, LostSettled DEF FencedInv, LogFenced, Active, ClaimEndsOwnRun
<1>6. CASE Work /\ Record
  BY <1>0, <1>6, StepFenced DEF Work, Fencing
<1>7. CASE RecoverOrphans /\ Record
  BY <1>0, <1>7, ReconcileFenced DEF RecoverOrphans, Fencing
<1>8. CASE (Recovered /\ Record) \/ UNCHANGED vars
  <2>1. UNCHANGED <<kernelVars, snapshot, issued>>
    BY <1>8, RecordNothing DEF Recovered, vars, kernelVars, Inv, AuthorityInv, Named
  <2> QED BY <2>1 DEF kernelVars, FencedInv, LogFenced, Active, Entitled, Settled, Unnamed, Known,
          Valid, Holds, ClaimEndsOwnRun
<1> QED BY <1>1, <1>2, <1>3, <1>4, <1>5, <1>6, <1>7, <1>8 DEF Next, Progress, Requests

(***************************************************************************)
(* The terminal that terminalExecute writes is that of the run its claim   *)
(* was issued for, however long ago, and whatever was refused, cancelled,  *)
(* interrupted or restarted since: CancelTask, which lets Repo.mu go       *)
(* between reading its claim and using it, included.  The one exception is *)
(* a run that MarkStarted or StartRun began, which has no id to compare,   *)
(* and only where a fault has occurred: without one, no claim of an        *)
(* earlier run still holds the lease when such a run is active.            *)
(***************************************************************************)
THEOREM ClaimsEndTheirOwnRun == Spec => []ClaimEndsOwnRun
<1>1. Init => FencedInv /\ OpRun
  BY DEF Init, KernelInit, EmptyLog, NoRun, Idle, NoSnapshot, FencedInv, LogFenced, Entitled,
     Handoffs, Settled, Known, ClaimEndsOwnRun, Active, OpRun, OpShape
<1>2. Inv /\ OpRun /\ FencedInv /\ [Next]_vars => FencedInv' /\ OpRun'
  BY FencedStep, SequenceStep DEF Inv, TypeInv
<1>3. FencedInv => ClaimEndsOwnRun
  BY DEF FencedInv
<1> QED BY <1>1, <1>2, <1>3, AuthorityInvariant, PTL DEF Spec
-----------------------------------------------------------------------------
(***************************************************************************)
(* One fault.  As long as at most one write failed or one process died,    *)
(* the log stays one that the kernel can rebuild, unless that write is a   *)
(* HandoffProposed which is in the log and was reported as failed: its     *)
(* proposal is open and the claim that proposed it still holds.  Every     *)
(* other open proposal is one whose handoff is under way, or stranded, and *)
(* the invariant says who can still act then: nobody that could write a    *)
(* second proposal before the first is closed.                             *)
(***************************************************************************)
OneFaultOnly == faults <= 1 /\ "HandoffProposed" \notin unsynced

Room(n) == Total(log) + n <= MaxOrdinary + Reserve

ChildShape ==
    log.child.id # 0 =>
        /\ log.child.run \in log.parents
        /\ log.check.dir = ToChild
        /\ log.commit.owner = log.child.owner /\ log.commit.fence = log.child.fence
        /\ log.terminal \/ (ActiveExecute(log) /\ log.run.id = log.child.run)

PropShape ==
    log.prop.handoff # 0 =>
        /\ log.child.id = 0
        /\ log.commit.fence < log.prop.next
        /\ log.fence < log.prop.next
        /\ log.run.fence < log.prop.next

LogShape ==
    /\ log.valid
    /\ log.check.child = log.child.id
    /\ log.terminal => ~Active(log)
    /\ log.removed => log.terminal
    /\ Active(log) => Total(log) > 0
    /\ ChildShape /\ PropShape

(* A claim that was handed out and holds is the one the log was judged by. *)
ClaimShape ==
    /\ \A k \in issued : k.owner # NoOwner /\ k.fence > 0
    /\ \A k \in issued : Holds(k) => log.check.run = k.run /\ log.check.fence = k.fence
    /\ ~booted => ~snapshot.pending

Proposed ==
    log.prop = [handoff |-> op.handoff, dir |-> Direction, from |-> op.claim.owner,
                to |-> op.to, next |-> op.claim.fence + 1]

(* Where a handoff is, and that the events it has yet to write fit. *)
HandoffPhase ==
    op.kind \in Handoffs =>
        /\ op.handoff # 0 /\ op.to # NoOwner /\ op.claim.owner # NoOwner /\ op.claim.fence > 0
        /\ log.terminal \/ ActiveExecute(log)
        /\ log.check.run = op.claim.run
        /\ op.pc \in {"child", "propose"} => log.prop.handoff = 0
        /\ op.pc \in {"child", "propose", "cas"} => Holds(op.claim)
        /\ op.pc \in {"child", "propose", "cas", "cas_failed", "commit"} =>
              log.check.fence = op.claim.fence
        /\ op.pc = "child" => log.child.id # 0 /\ Room(4)
        /\ op.pc \notin {"child", "child_start_failed"} => log.child.id = 0
        /\ op.pc = "propose" => Room(3) /\ (op.kind = "to_parent" => log.check.dir = ToChild)
        /\ op.pc \in {"cas", "cas_failed", "commit"} => Proposed /\ Room(2)
        /\ op.pc = "cas_failed" => faults = 1
        /\ op.pc \in {"child_start", "child_start_failed"} => log.prop.handoff = 0
        /\ op.pc = "child_start" =>
              /\ log.check.fence = op.claim.fence + 1
              /\ log.check.last = op.handoff /\ log.check.dir = ToChild
              /\ log.commit.owner = op.to /\ log.commit.fence = op.claim.fence + 1

OtherPhase ==
    /\ op.kind = "begin" =>
          /\ log.prop.handoff = 0 /\ log.child.id = 0
          /\ op.claim.owner # NoOwner /\ op.claim.fence > 0
    /\ op.kind = "end" =>
          /\ log.prop.handoff = 0
          /\ op.pc = "child" => log.child.id # 0
          /\ op.pc = "terminal" => log.child.id = 0
    /\ op.kind = "reconcile" =>
          /\ op.pc = "rollback" <=> log.prop.handoff # 0
          /\ op.pc = "child_interrupt" => log.child.id # 0
          /\ op.pc = "interrupt" => log.child.id = 0

(* An open proposal the lease has reached: no claim that is out holds it. *)
Ahead ==
    /\ lease.owner = log.prop.to /\ lease.fence = log.prop.next
    /\ \A k \in issued : k.fence < lease.fence
    /\ snapshot.pending => snapshot.claim.fence < lease.fence

(* One the lease has not reached: only RecoverOrphans runs before it is closed. *)
NotYet ==
    /\ lease.owner = log.prop.from /\ lease.fence + 1 = log.prop.next
    /\ lease.owner # NoOwner /\ lease.fence > 0
    /\ ~booted /\ ~ret["boot"].done /\ Room(1)

Stranded == ActiveExecute(log) /\ faults = 1 /\ (Ahead \/ NotYet)

PropPhase ==
    log.prop.handoff # 0 /\ op.kind \notin Handoffs =>
        (log.terminal /\ op.kind = "none") \/ Stranded

OneFault == LogShape /\ ClaimShape /\ HandoffPhase /\ OtherPhase /\ PropPhase

-----------------------------------------------------------------------------
(* What each event leaves of the shape of the log. *)
LEMMA SameShape ==
    ASSUME LogShape, log' = log
    PROVE  LogShape'
  BY DEF LogShape, ChildShape, PropShape, Active, ActiveExecute

LEMMA QuietShape ==
    ASSUME log \in Log, LogShape, NEW e, e.type \in QuietTypes, log' = AppendEvent(log, e),
           e.type \in TaskTerminals => ~Active(log)
    PROVE  /\ LogShape' /\ log'.check = log.check /\ log'.prop = log.prop
           /\ log'.run = log.run /\ log'.state = log.state /\ log'.child = log.child
           /\ log'.commit = log.commit
           /\ log'.terminal = (log.terminal \/ e.type \in TaskTerminals)
<1>1. /\ SameHandoffs(log, log') /\ log'.check = log.check /\ log'.fence = log.fence
      /\ log'.run = log.run /\ log'.state = log.state /\ log'.valid = log.valid
      /\ log'.terminal = (log.terminal \/ e.type \in TaskTerminals)
      /\ log'.removed = (log.removed \/ e.type = "TaskRemoved")
  BY QuietFolds
<1>2. Total(log)' = Total(log) + 1 /\ Total(log) \in Nat
  BY OneMore
<1>3. ChildShape' /\ PropShape'
  BY <1>1 DEF LogShape, ChildShape, PropShape, SameHandoffs, Active, ActiveExecute
<1>4. e.type = "TaskRemoved" => e.type \in TaskTerminals
  BY DEF TaskTerminals
<1>5. (Active(log') <=> Active(log)) /\ (Active(log') => Total(log)' > 0)
  BY <1>1, <1>2 DEF Active
<1>6. log'.valid /\ log'.check.child = log'.child.id
  BY <1>1 DEF LogShape, SameHandoffs
<1>7. log'.terminal => ~Active(log')
  BY <1>1, <1>5 DEF LogShape
<1>8. log'.removed => log'.terminal
  BY <1>1, <1>4 DEF LogShape
<1>9. LogShape'
  BY <1>3, <1>5, <1>6, <1>7, <1>8 DEF LogShape
<1> QED BY <1>1, <1>9 DEF SameHandoffs

(* A run ends: with a child or a proposal open only if the task does, too. *)
LEMMA EndShape ==
    ASSUME log \in Log, LogShape, NEW e, e.type \in RunTerminals, log' = AppendEvent(log, e),
           e.type = "RunInterrupted" => log.child.id = 0 /\ log.prop.handoff = 0
    PROVE  /\ LogShape' /\ log'.check = log.check /\ log'.prop = log.prop
           /\ ~Active(log') /\ log'.run = NoRun /\ log'.child = log.child
           /\ log'.commit = log.commit
           /\ log'.terminal = (log.terminal \/ e.type # "RunInterrupted")
<1>1. /\ SameHandoffs(log, log') /\ log'.check = log.check
      /\ log'.fence = log.fence \/ e.type = "RunInterrupted"
      /\ log'.run = NoRun /\ log'.state # "running" /\ log'.valid = log.valid
      /\ log'.terminal = (log.terminal \/ e.type # "RunInterrupted")
      /\ log'.removed = log.removed
  BY EndFolds
<1>2. /\ log.commit.fence \in Nat /\ NoRun.fence = 0 /\ log.prop.next \in Nat
      /\ log.run.fence \in Nat
  BY DEF Log, Claim, NoRun
<1>3. PropShape'
  BY <1>1, <1>2 DEF LogShape, PropShape, SameHandoffs
<1>4. ChildShape'
  BY <1>1 DEF LogShape, ChildShape, SameHandoffs, Active, ActiveExecute
<1> QED BY <1>1, <1>3, <1>4 DEF LogShape, SameHandoffs, Active

LEMMA StartShape ==
    ASSUME log \in Log, LogShape, NEW e, e.type = "RunStarted", log' = AppendEvent(log, e),
           ~log.terminal, log.child.id = 0, log.prop.handoff = 0
    PROVE  /\ LogShape' /\ log'.prop = log.prop /\ log'.child = log.child
           /\ log'.commit = log.commit /\ Active(log') /\ ~log'.terminal
           /\ e.kind # "execute" => log'.check = log.check
           /\ e.kind = "execute" => log'.check.run = e.run /\ log'.check.fence = e.fence
           /\ log'.run = [kind |-> e.kind, id |-> e.run, owner |-> e.owner, fence |-> e.fence]
<1>1. /\ SameHandoffs(log, log')
      /\ log'.check = IF e.kind = "execute"
                      THEN [run |-> e.run, fence |-> e.fence, child |-> 0, last |-> 0,
                            dir |-> "none"]
                      ELSE log.check
      /\ log'.run = [kind |-> e.kind, id |-> e.run, owner |-> e.owner, fence |-> e.fence]
      /\ log'.state = "running" /\ log'.valid = log.valid
      /\ log'.terminal = log.terminal /\ log'.removed = log.removed
  BY StartFolds
<1>2. Total(log)' = Total(log) + 1 /\ Total(log) \in Nat
  BY OneMore
<1>3. ChildShape' /\ PropShape'
  BY <1>1 DEF ChildShape, PropShape, SameHandoffs
<1>4. log'.check.child = log'.child.id
  BY <1>1 DEF LogShape, SameHandoffs
<1> QED BY <1>1, <1>2, <1>3, <1>4 DEF LogShape, SameHandoffs, Active

LEMMA ChildEndShape ==
    ASSUME log \in Log, LogShape, NEW e, e.type \in ChildTerminals, log' = AppendEvent(log, e),
           log.child.id # 0, e.handoff = log.child.id
    PROVE  /\ LogShape' /\ SameTask(log, log') /\ log'.child.id = 0 /\ log'.prop = log.prop
           /\ log.prop.handoff = 0 /\ log'.commit = log.commit
           /\ log'.check.run = log.check.run /\ log'.check.fence = log.check.fence
           /\ log'.check.dir = ToChild
<1>1. /\ SameTask(log, log') /\ log'.child = NoChild /\ log'.prop = log.prop
      /\ log'.commit = log.commit /\ log'.parents = log.parents
      /\ log'.check.child = 0 /\ log'.check.run = log.check.run
      /\ log'.check.fence = log.check.fence /\ log'.check.dir = log.check.dir
      /\ log.valid /\ log.check.child # 0 /\ log.check.child = e.handoff => log'.valid
  BY ChildEndFolds
<1>2. Total(log)' = Total(log) + 1 /\ Total(log) \in Nat
  BY OneMore
<1>3. log'.child.id = 0 /\ log.prop.handoff = 0 /\ log'.check.dir = ToChild
  BY <1>1 DEF NoChild, LogShape, ChildShape, PropShape
<1>4. ChildShape' /\ PropShape'
  BY <1>1, <1>3 DEF ChildShape, PropShape
<1> QED BY <1>1, <1>2, <1>3, <1>4 DEF LogShape, SameTask, Active

LEMMA ProposeShape ==
    ASSUME log \in Log, LogShape, NEW e, e.type = "HandoffProposed",
           log' = AppendEvent(log, e), CoherentProposal(log, e), log.child.id = 0,
           log.commit.fence < e.fence, log.fence < e.fence, log.run.fence < e.fence
    PROVE  /\ LogShape' /\ SameTask(log, log') /\ log'.child = log.child
           /\ log'.check = log.check /\ log'.commit = log.commit
           /\ log'.prop = [handoff |-> e.handoff, dir |-> e.kind, from |-> e.from,
                           to |-> e.owner, next |-> e.fence]
<1>1. /\ SameTask(log, log') /\ log'.child = log.child
      /\ log'.prop = [handoff |-> e.handoff, dir |-> e.kind, from |-> e.from,
                      to |-> e.owner, next |-> e.fence]
      /\ log'.commit = log.commit /\ log'.parents = log.parents /\ log'.check = log.check
      /\ log'.fence = log.fence
      /\ log.valid => log'.valid
  BY ProposeFolds
<1>2. Total(log)' = Total(log) + 1 /\ Total(log) \in Nat
  BY OneMore
<1>3. ChildShape' /\ PropShape'
  BY <1>1 DEF ChildShape, PropShape, SameTask
<1> QED BY <1>1, <1>2, <1>3 DEF LogShape, SameTask, Active

LEMMA CloseShape ==
    ASSUME log \in Log, LogShape, NEW e, e.type \in {"HandoffFailed", "HandoffRolledBack"},
           log' = AppendEvent(log, e), log.prop.handoff # 0 => e.handoff = log.prop.handoff
    PROVE  /\ LogShape' /\ SameTask(log, log') /\ log'.child = log.child
           /\ log'.prop.handoff = 0 /\ log'.check = log.check /\ log'.commit = log.commit
<1>1. /\ SameTask(log, log') /\ log'.child = log.child
      /\ log'.prop = IF log.prop.handoff = e.handoff THEN NoProp ELSE log.prop
      /\ log'.commit = log.commit /\ log'.parents = log.parents /\ log'.check = log.check
      /\ log'.fence = log.fence /\ log'.valid = log.valid
  BY CloseFolds
<1>2. Total(log)' = Total(log) + 1 /\ Total(log) \in Nat
  BY OneMore
<1>3. log'.prop.handoff = 0
  BY <1>1 DEF NoProp
<1>4. ChildShape' /\ PropShape'
  BY <1>1, <1>3 DEF LogShape, ChildShape, PropShape, SameTask, Active, ActiveExecute
<1> QED BY <1>1, <1>2, <1>3, <1>4 DEF LogShape, SameTask, Active

LEMMA CommitShape ==
    ASSUME log \in Log, LogShape, NEW e, e.type = "HandoffCommitted",
           log' = AppendEvent(log, e), CoherentCommit(log, e), log.child.id = 0
    PROVE  /\ LogShape' /\ SameTask(log, log') /\ log'.child = log.child
           /\ log'.prop.handoff = 0
           /\ log'.check.run = log.check.run /\ log'.check.fence = e.fence
           /\ log'.check.last = e.handoff /\ log'.check.dir = e.kind
           /\ log'.commit = [run |-> e.run, owner |-> e.owner, fence |-> e.fence]
<1>0. log.prop.handoff = e.handoff
  BY DEF CoherentCommit
<1>1. /\ SameTask(log, log') /\ log'.child = log.child /\ log'.prop = NoProp
      /\ log'.commit = [run |-> e.run, owner |-> e.owner, fence |-> e.fence]
      /\ log'.parents = log.parents
      /\ log'.check = [run |-> log.check.run, fence |-> e.fence, last |-> e.handoff,
                       dir |-> e.kind,
                       child |-> IF e.kind = ToParent THEN 0 ELSE log.check.child]
      /\ log.valid => log'.valid
  BY <1>0, CommitFolds
<1>2. Total(log)' = Total(log) + 1 /\ Total(log) \in Nat
  BY OneMore
<1>3. log'.prop.handoff = 0
  BY <1>1 DEF NoProp
<1>4. ChildShape' /\ PropShape'
  BY <1>1, <1>3 DEF ChildShape, PropShape
<1>5. log'.check.child = 0
  BY <1>1 DEF LogShape
<1> QED BY <1>1, <1>2, <1>3, <1>4, <1>5 DEF LogShape, SameTask, Active

LEMMA ChildStartShape ==
    ASSUME log \in Log, LogShape, NEW e, e.type = "ChildRunStarted",
           log' = AppendEvent(log, e), CoherentChildStart(log, e), log.prop.handoff = 0,
           log.commit.owner = e.owner, log.commit.fence = e.fence,
           log.terminal \/ (ActiveExecute(log) /\ log.run.id = e.run)
    PROVE  /\ LogShape' /\ SameTask(log, log') /\ log'.prop = log.prop
           /\ log'.check.run = log.check.run /\ log'.check.fence = log.check.fence
           /\ log'.commit = log.commit
<1>1. /\ SameTask(log, log') /\ log'.prop = log.prop /\ log'.commit = log.commit
      /\ log'.child = [id |-> e.handoff, run |-> e.run, owner |-> e.owner,
                       fence |-> e.fence]
      /\ log'.parents = log.parents \cup {e.run}
      /\ log'.check.child = e.handoff /\ log'.check.run = log.check.run
      /\ log'.check.fence = log.check.fence /\ log'.check.dir = log.check.dir
      /\ log.valid => log'.valid
  BY ChildStartFolds
<1>2. Total(log)' = Total(log) + 1 /\ Total(log) \in Nat
  BY OneMore
<1>3. log.check.dir = ToChild
  BY DEF CoherentChildStart
<1>4. PropShape'
  BY <1>1 DEF PropShape
<1>5. ChildShape'
  BY <1>1, <1>3 DEF ChildShape, SameTask, Active, ActiveExecute
<1> QED BY <1>1, <1>2, <1>4, <1>5 DEF LogShape, SameTask, Active
-----------------------------------------------------------------------------
(* The claims that are out, when a step keeps the lease, moves it, or hands *)
(* out the claim of a lease nobody has seen.                               *)
SameJudge == log'.check.run = log.check.run /\ log'.check.fence = log.check.fence

LEMMA ClaimsKept ==
    ASSUME ClaimShape, issued' = issued, lease' = lease, SameJudge,
           ~booted' => ~snapshot'.pending
    PROVE  ClaimShape'
  BY DEF ClaimShape, Holds, SameJudge

LEMMA ClaimsMoved ==
    ASSUME Inv, ClaimShape, issued' = issued, lease'.fence = lease.fence + 1,
           ~booted' => ~snapshot'.pending
    PROVE  ClaimShape'
<1>1. \A k \in issued : k.fence \in Nat /\ k.fence <= lease.fence
  BY CirculatingTypes DEF Inv, AuthorityInv, Past, Circulating
<1>2. \A k \in issued : ~Holds(k)'
  BY <1>1, CirculatingTypes DEF Inv, Holds
<1> QED BY <1>2 DEF ClaimShape

LEMMA ClaimsFresh ==
    ASSUME Inv, ClaimShape, Fresh, lease' = lease, NEW k, issued' \subseteq issued \cup {k},
           k \in issued' => /\ k.owner # NoOwner /\ k.fence > 0
                            /\ log'.check.run = k.run /\ log'.check.fence = k.fence,
           ~booted' => ~snapshot'.pending
    PROVE  ClaimShape'
<1>1. \A j \in issued : j.fence \in Nat /\ j.fence < lease.fence
  BY CirculatingTypes DEF Inv, Fresh, Circulating
<1>2. \A j \in issued : ~Holds(j)'
  BY <1>1, CirculatingTypes DEF Inv, Holds
<1> QED BY <1>2 DEF ClaimShape

(* No claim that is out holds a lease nobody has seen. *)
LEMMA FreshKept ==
    ASSUME Inv, ClaimShape, Fresh, lease' = lease, issued' = issued,
           ~booted' => ~snapshot'.pending
    PROVE  ClaimShape'
<1>1. \A j \in issued : j.fence \in Nat /\ j.fence < lease.fence
  BY CirculatingTypes DEF Inv, Fresh, Circulating
<1>2. \A j \in issued : ~Holds(j)'
  BY <1>1, CirculatingTypes DEF Inv, Holds
<1> QED BY <1>2 DEF ClaimShape

(* An operation that is over leaves no phase behind. *)
LEMMA OverShape ==
    ASSUME op' = Idle, LogShape', ClaimShape', PropPhase'
    PROVE  OneFault'
  BY DEF OneFault, HandoffPhase, OtherPhase, Handoffs, Idle

(* What a program's step takes for granted. *)
Working ==
    /\ Inv /\ OpRun /\ OneFault /\ Record
    /\ snapshot' = snapshot /\ booted' = booted
    /\ faults \in Nat /\ OneFaultOnly'

LEMMA WorkingFacts ==
    ASSUME Working
    PROVE  /\ log \in Log /\ op \in Operation /\ OpOK /\ lease.fence \in Nat
           /\ op.claim.fence \in Nat /\ op.claim.run \in Nat /\ op.handoff \in Nat
           /\ LogShape /\ ClaimShape /\ HandoffPhase /\ OtherPhase /\ PropPhase
           /\ ~booted' => ~snapshot'.pending
           /\ faults' <= 1 /\ "HandoffProposed" \notin unsynced'
  BY DEF Working, OneFaultOnly, OneFault, ClaimShape, Inv, TypeInv, KernelOK, OpOK, Operation, Claim, BehindInv

(* A program fails, or succeeds without a claim, with no proposal open. *)
LEMMA ReturnShape ==
    ASSUME Working, NEW c, NEW r, Return(c, r), ~r.ok \/ r.claim = NoClaim,
           lease' = lease \/ lease'.fence = lease.fence + 1,
           LogShape', SameJudge, log'.prop.handoff = 0
    PROVE  OneFault'
<1>1. op' = Idle /\ issued' = issued
  BY RecordReturn DEF Working, Inv, TypeInv, KernelOK, AuthorityInv, Named, Return
<1>2. ClaimShape'
  BY <1>1, WorkingFacts, ClaimsKept, ClaimsMoved DEF Working
<1>3. PropPhase'
  BY DEF PropPhase
<1> QED BY <1>1, <1>2, <1>3, OverShape

(* It hands out the claim of the lease it has taken. *)
LEMMA HandOutShape ==
    ASSUME Working, Fresh, lease' = lease, NEW c, NEW k, Return(c, Done(k)),
           k.owner # NoOwner, k.fence > 0,
           log'.check.run = k.run, log'.check.fence = k.fence,
           LogShape', log'.prop.handoff = 0
    PROVE  OneFault'
<1>1. Done(k).claim = k /\ op' = Idle
  BY DEF Done, Return
<1>2. issued' \subseteq issued \cup {k}
  BY <1>1, RecordReturn DEF Working, Inv, TypeInv, KernelOK, AuthorityInv, Named, Return
<1>3. ClaimShape'
  BY <1>2, WorkingFacts, ClaimsFresh DEF Working
<1>4. PropPhase'
  BY DEF PropPhase
<1> QED BY <1>1, <1>3, <1>4, OverShape

(* It goes on to another step. *)
LEMMA GoesOnShape ==
    ASSUME Working, NEW at, Goto(at)
    PROVE  /\ issued' = issued
           /\ op'.pc = at /\ op'.kind = op.kind /\ op'.claim = op.claim /\ op'.to = op.to
           /\ op'.handoff = op.handoff /\ op'.type = op.type
           /\ lease' = lease /\ SameJudge => ClaimShape'
           /\ log'.prop.handoff = 0 \/ op.kind \in Handoffs => PropPhase'
<1>0. op \in Operation
  BY WorkingFacts
<1>1. issued' = issued
  BY RecordNothing DEF Working, Inv, AuthorityInv, Named, Goto
<1>2. /\ op'.pc = at /\ op'.kind = op.kind /\ op'.claim = op.claim /\ op'.to = op.to
      /\ op'.handoff = op.handoff /\ op'.type = op.type
  BY <1>0 DEF Goto, Operation
<1>3. lease' = lease /\ SameJudge => ClaimShape'
  BY <1>1, WorkingFacts, ClaimsKept
<1>4. log'.prop.handoff = 0 \/ op.kind \in Handoffs => PropPhase'
  BY <1>2 DEF PropPhase
<1> QED BY <1>1, <1>2, <1>3, <1>4

(* How much the log still takes. *)
LEMMA RoomFacts ==
    ASSUME log \in Log
    PROVE  /\ \A t \in ControlEvents : Admits(log, t) <=> Room(1)
           /\ Room(4) => Room(3)
           /\ Room(3) => Room(2)
           /\ Room(2) => Room(1)
<1>1. Total(log) \in Nat
  BY OneMore
<1> QED BY <1>1, CapacityAssumption DEF Admits, Room

LEMMA RoomShrinks ==
    ASSUME log \in Log, NEW e, log' = AppendEvent(log, e)
    PROVE  /\ Room(4) => Room(3)'
           /\ Room(3) => Room(2)'
           /\ Room(2) => Room(1)'
<1>1. Total(log) \in Nat /\ Total(log)' = Total(log) + 1
  BY OneMore
<1> QED BY <1>1, CapacityAssumption DEF Room

(* BeginExecute: the run starts, or the lease is given back. *)
LEMMA BeginShape ==
    ASSUME Working, RunStarted \/ AbandonBegin
    PROVE  OneFault'
<1>0. /\ log.prop.handoff = 0 /\ log.child.id = 0
      /\ op.claim.owner # NoOwner /\ op.claim.fence > 0 /\ LogShape /\ log \in Log
  BY WorkingFacts DEF RunStarted, AbandonBegin, Step, OtherPhase
<1>f. Failed.ok = FALSE
  BY DEF Failed
<1>1. CASE AbandonBegin
  <2>1. /\ log' = log /\ Return(op.caller, Failed)
        /\ lease' = lease \/ lease'.fence = lease.fence + 1
    BY <1>1 DEF AbandonBegin, TryLease
  <2>2. LogShape' /\ SameJudge /\ log'.prop.handoff = 0
    BY <1>0, <2>1, SameShape DEF SameJudge
  <2> QED BY <1>f, <2>1, <2>2, ReturnShape
<1>2. CASE RunStarted
  <2> DEFINE e == RunEvent("RunStarted", "execute", op.claim.run, op.claim.owner,
                           op.claim.fence)
  <2>1. /\ lease' = lease /\ op.kind = "begin" /\ op.pc = "started"
        /\ \/ log' = log /\ Goto("abandon")
           \/ log' = AppendEvent(log, e) /\ Goto("abandon")
           \/ log' = AppendEvent(log, e) /\ Return(op.caller, Done(op.claim))
    BY <1>2 DEF RunStarted, TryAppend, Step
  <2>2. /\ e.type = "RunStarted" /\ e.kind = "execute" /\ e.run = op.claim.run
        /\ e.fence = op.claim.fence
    BY DEF RunEvent
  <2> HIDE DEF e
  <2>3. Fresh /\ ~log.terminal
    BY <2>1 DEF Working, Inv, AuthorityInv, OpFresh, OpRun
  <2>4. log' = AppendEvent(log, e) =>
           /\ LogShape' /\ log'.prop = log.prop /\ log'.child = log.child
           /\ log'.check.run = e.run /\ log'.check.fence = e.fence
    BY <1>0, <2>2, <2>3, StartShape
  <2>5. LogShape' /\ log'.prop = log.prop /\ log'.child = log.child
    BY <1>0, <2>1, <2>4, SameShape
  <2>6. CASE Goto("abandon")
    <3>1. /\ op'.kind = "begin" /\ op'.claim = op.claim /\ issued' = issued /\ PropPhase'
      BY <1>0, <2>1, <2>5, <2>6, GoesOnShape
    <3>2. ClaimShape'
      BY <2>1, <2>3, <3>1, WorkingFacts, FreshKept DEF Working
    <3>3. OtherPhase' /\ HandoffPhase'
      BY <1>0, <2>5, <3>1 DEF OtherPhase, HandoffPhase, Handoffs
    <3> QED BY <2>5, <3>1, <3>2, <3>3 DEF OneFault
  <2>7. CASE log' = AppendEvent(log, e) /\ Return(op.caller, Done(op.claim))
    BY <1>0, <2>1, <2>2, <2>3, <2>4, <2>7, HandOutShape
  <2> QED BY <2>1, <2>6, <2>7
<1> QED BY <1>1, <1>2
LEMMA FailFacts ==
    ASSUME Working, NEW c, Return(c, Failed)
    PROVE  op' = Idle /\ issued' = issued
<1>1. ~Failed.ok
  BY DEF Failed
<1> QED BY <1>1, RecordReturn DEF Working, Inv, TypeInv, KernelOK, AuthorityInv, Named, Return

(* A write that failed, whether it was made or not. *)
LEMMA FailShape ==
    ASSUME Working, NEW c, Return(c, Failed), lease' = lease, log.prop.handoff = 0,
           log' = log \/ (LogShape' /\ SameJudge /\ log'.prop = log.prop)
    PROVE  OneFault'
<1>1. LogShape' /\ SameJudge
  BY SameShape, WorkingFacts DEF SameJudge
<1>2. ~Failed.ok
  BY DEF Failed
<1> QED BY <1>1, <1>2, ReturnShape

(* The end of a run, and of its child before. *)
LEMMA EndingShape ==
    ASSUME Working, EndChild \/ EndRun \/ EndRelease
    PROVE  OneFault'
<1>0. LogShape /\ log \in Log /\ OtherPhase /\ OpOK
  BY WorkingFacts
<1>1. CASE EndRelease
  <2>1. /\ log' = log /\ Return(op.caller, Done(NoClaim))
        /\ lease' = lease \/ lease'.fence = lease.fence + 1
        /\ op.kind \in {"end", "reconcile"} /\ op.pc = "release"
    BY <1>1 DEF EndRelease, TryLease
  <2>2. log.prop.handoff = 0
    BY <1>0, <2>1 DEF OtherPhase
  <2>3. LogShape' /\ SameJudge /\ log'.prop.handoff = 0
    BY <1>0, <2>1, <2>2, SameShape DEF SameJudge
  <2>4. Done(NoClaim).claim = NoClaim
    BY DEF Done
  <2> QED BY <2>1, <2>3, <2>4, ReturnShape
<1>2. CASE EndChild
  <2> DEFINE e == ChildEvent(ChildTerminalFor[op.type], log.child, op.claim.owner,
                             op.claim.fence)
  <2>1. /\ op.kind = "end" /\ op.pc = "child" /\ lease' = lease
        /\ \/ log' = AppendEvent(log, e) /\ Goto("terminal")
           \/ log' \in {log, AppendEvent(log, e)} /\ Return(op.caller, Failed)
    BY <1>2 DEF EndChild, Step, TryAppend
  <2>2. e.type \in ChildTerminals /\ e.handoff = log.child.id
    BY <1>0, <2>1 DEF OpOK, ChildEvent, ChildTerminalFor, RunTerminals, ChildTerminals
  <2> HIDE DEF e
  <2>3. log.prop.handoff = 0 /\ log.child.id # 0
    BY <1>0, <2>1 DEF OtherPhase
  <2>4. log' = AppendEvent(log, e) => LogShape' /\ log'.child.id = 0 /\ log'.prop = log.prop /\ SameJudge
    BY <1>0, <2>2, <2>3, ChildEndShape DEF SameJudge
  <2>5. CASE Return(op.caller, Failed) /\ log' \in {log, AppendEvent(log, e)}
    BY <2>1, <2>3, <2>4, <2>5, FailShape
  <2>6. CASE log' = AppendEvent(log, e) /\ Goto("terminal")
    <3>1. ClaimShape' /\ PropPhase' /\ op'.kind = "end" /\ op'.pc = "terminal"
      BY <2>1, <2>3, <2>4, <2>6, GoesOnShape
    <3>2. OtherPhase' /\ HandoffPhase'
      BY <2>3, <2>4, <2>6, <3>1 DEF OtherPhase, HandoffPhase, Handoffs
    <3> QED BY <2>4, <2>6, <3>1, <3>2 DEF OneFault
  <2> QED BY <2>1, <2>5, <2>6
<1>3. CASE EndRun
  <2> DEFINE e == RunEvent(op.type, "execute", op.claim.run, op.claim.owner, op.claim.fence)
  <2>1. /\ op.kind = "end" /\ op.pc = "terminal" /\ lease' = lease
        /\ \/ log' = AppendEvent(log, e) /\ Goto("release")
           \/ log' \in {log, AppendEvent(log, e)} /\ Return(op.caller, Failed)
    BY <1>3 DEF EndRun, Step, TryAppend
  <2>2. e.type \in RunTerminals
    BY <1>0, <2>1 DEF OpOK, RunEvent
  <2> HIDE DEF e
  <2>3. log.prop.handoff = 0 /\ log.child.id = 0
    BY <1>0, <2>1 DEF OtherPhase
  <2>4. log' = AppendEvent(log, e) => LogShape' /\ log'.prop = log.prop /\ SameJudge
    BY <1>0, <2>2, <2>3, EndShape DEF SameJudge
  <2>5. CASE Return(op.caller, Failed) /\ log' \in {log, AppendEvent(log, e)}
    BY <2>1, <2>3, <2>4, <2>5, FailShape
  <2>6. CASE log' = AppendEvent(log, e) /\ Goto("release")
    <3>1. ClaimShape' /\ PropPhase' /\ op'.kind = "end" /\ op'.pc = "release"
      BY <2>1, <2>3, <2>4, <2>6, GoesOnShape
    <3>2. OtherPhase' /\ HandoffPhase'
      BY <2>3, <2>4, <2>6, <3>1 DEF OtherPhase, HandoffPhase, Handoffs
    <3> QED BY <2>4, <2>6, <3>1, <3>2 DEF OneFault
  <2> QED BY <2>1, <2>5, <2>6
<1> QED BY <1>1, <1>2, <1>3

(* reconcile: the proposal is closed if there is one, then the child, then *)
(* the run.  A proposal that cannot be closed is one the lease reached.    *)
LEMMA ReconcilingShape ==
    ASSUME Working, ReconcileRollback \/ ReconcileChild \/ ReconcileRun
    PROVE  OneFault'
<1>0. LogShape /\ log \in Log /\ OtherPhase /\ OpOK /\ PropPhase
  BY WorkingFacts
<1>1. CASE ReconcileRollback
  <2> DEFINE e == HandoffEvent("HandoffRolledBack", "none", op.claim.run,
                               log.prop.handoff, NoOwner, NoOwner, op.claim.fence)
  <2>1. /\ op.kind = "reconcile" /\ op.pc = "rollback" /\ lease' = lease
        /\ \/ log' = AppendEvent(log, e) /\ faults' = faults /\ Goto(AfterRollback)
           \/ log' = log /\ Return(op.caller, Failed) /\ faults' = faults
                 /\ ~Admits(log, "HandoffRolledBack")
           \/ faults' = faults + 1
    BY <1>1 DEF ReconcileRollback, Step, TryAppend, Refused, HandoffEvent
  <2>2. e.type = "HandoffRolledBack" /\ e.handoff = log.prop.handoff
    BY DEF HandoffEvent
  <2> HIDE DEF e
  <2>3. log.prop.handoff # 0 /\ Stranded /\ log.child.id = 0
    BY <1>0, <2>1 DEF OtherPhase, PropPhase, Handoffs, LogShape, PropShape
  <2>4. faults' = faults
    BY <2>1, <2>3, WorkingFacts DEF Stranded
  <2>5. CASE log' = AppendEvent(log, e) /\ Goto(AfterRollback)
    <3>1. Goto("interrupt")
      BY <2>3, <2>5 DEF AfterRollback
    <3>2. /\ LogShape' /\ SameJudge /\ log'.prop.handoff = 0 /\ log'.child = log.child
      BY <1>0, <2>2, <2>5, CloseShape DEF SameJudge
    <3>3. ClaimShape' /\ PropPhase' /\ op'.kind = "reconcile" /\ op'.pc = "interrupt"
      BY <2>1, <3>1, <3>2, GoesOnShape
    <3>4. OtherPhase' /\ HandoffPhase'
      BY <2>3, <3>2, <3>3 DEF OtherPhase, HandoffPhase, Handoffs
    <3> QED BY <3>2, <3>3, <3>4 DEF OneFault
  <2>6. CASE log' = log /\ Return(op.caller, Failed) /\ ~Admits(log, "HandoffRolledBack")
    <3>1. ~Room(1)
      BY <1>0, <2>6, RoomFacts DEF ControlEvents, HandoffEvents
    <3>2. Ahead
      BY <2>3, <3>1 DEF Stranded, NotYet
    <3>3. op' = Idle /\ issued' = issued
      BY <2>6, FailFacts
    <3>4. LogShape' /\ SameJudge
      BY <1>0, <2>6, SameShape DEF SameJudge
    <3>5. ClaimShape'
      BY <2>1, <3>3, <3>4, WorkingFacts, ClaimsKept DEF Working
    <3>6. Stranded'
      BY <2>1, <2>3, <2>4, <2>6, <3>2, <3>3 DEF Stranded, Ahead, Working, ActiveExecute, Active
    <3>7. PropPhase'
      BY <3>6 DEF PropPhase
    <3> QED BY <3>3, <3>4, <3>5, <3>7, OverShape
  <2> QED BY <2>1, <2>4, <2>5, <2>6 DEF Working
<1>2. CASE ReconcileChild
  <2> DEFINE e == ChildEvent("ChildRunInterrupted", log.child, log.child.owner,
                             log.child.fence)
  <2>1. /\ op.kind = "reconcile" /\ op.pc = "child_interrupt" /\ lease' = lease
        /\ \/ log' = AppendEvent(log, e) /\ Goto("interrupt")
           \/ log' \in {log, AppendEvent(log, e)} /\ Return(op.caller, Failed)
    BY <1>2 DEF ReconcileChild, Step, TryAppend
  <2>2. e.type \in ChildTerminals /\ e.handoff = log.child.id
    BY DEF ChildEvent, ChildTerminals
  <2> HIDE DEF e
  <2>3. log.prop.handoff = 0 /\ log.child.id # 0
    BY <1>0, <2>1 DEF OtherPhase
  <2>4. log' = AppendEvent(log, e) => LogShape' /\ log'.child.id = 0 /\ log'.prop = log.prop /\ SameJudge
    BY <1>0, <2>2, <2>3, ChildEndShape DEF SameJudge
  <2>5. CASE Return(op.caller, Failed) /\ log' \in {log, AppendEvent(log, e)}
    BY <2>1, <2>3, <2>4, <2>5, FailShape
  <2>6. CASE log' = AppendEvent(log, e) /\ Goto("interrupt")
    <3>1. ClaimShape' /\ PropPhase' /\ op'.kind = "reconcile" /\ op'.pc = "interrupt"
      BY <2>1, <2>3, <2>4, <2>6, GoesOnShape
    <3>2. OtherPhase' /\ HandoffPhase'
      BY <2>3, <2>4, <2>6, <3>1 DEF OtherPhase, HandoffPhase, Handoffs
    <3> QED BY <2>4, <2>6, <3>1, <3>2 DEF OneFault
  <2> QED BY <2>1, <2>5, <2>6
<1>3. CASE ReconcileRun
  <2> DEFINE e == RunEvent("RunInterrupted", "execute", op.claim.run, op.claim.owner,
                           op.claim.fence)
  <2>1. /\ op.kind = "reconcile" /\ op.pc = "interrupt" /\ lease' = lease
        /\ \/ log' = AppendEvent(log, e) /\ Goto("release")
           \/ log' \in {log, AppendEvent(log, e)} /\ Return(op.caller, Failed)
    BY <1>3 DEF ReconcileRun, Step, TryAppend
  <2>2. e.type \in RunTerminals
    BY DEF RunEvent, RunTerminals
  <2> HIDE DEF e
  <2>3. log.prop.handoff = 0 /\ log.child.id = 0
    BY <1>0, <2>1 DEF OtherPhase
  <2>4. log' = AppendEvent(log, e) => LogShape' /\ log'.prop = log.prop /\ SameJudge
    BY <1>0, <2>2, <2>3, EndShape DEF SameJudge
  <2>5. CASE Return(op.caller, Failed) /\ log' \in {log, AppendEvent(log, e)}
    BY <2>1, <2>3, <2>4, <2>5, FailShape
  <2>6. CASE log' = AppendEvent(log, e) /\ Goto("release")
    <3>1. ClaimShape' /\ PropPhase' /\ op'.kind = "reconcile" /\ op'.pc = "release"
      BY <2>1, <2>3, <2>4, <2>6, GoesOnShape
    <3>2. OtherPhase' /\ HandoffPhase'
      BY <2>3, <2>4, <2>6, <3>1 DEF OtherPhase, HandoffPhase, Handoffs
    <3> QED BY <2>4, <2>6, <3>1, <3>2 DEF OneFault
  <2> QED BY <2>1, <2>5, <2>6
<1> QED BY <1>1, <1>2, <1>3
-----------------------------------------------------------------------------
(***************************************************************************)
(* The steps of a handoff.  Capacity was checked before the first, so only *)
(* the one fault can refuse an event, and only where none came before.     *)
(***************************************************************************)
LEMMA HandoffFacts2 ==
    ASSUME Working, op.pc \in Transferring \/ op.kind \in Handoffs
    PROVE  /\ op.kind \in Handoffs /\ op.handoff # 0 /\ op.to # NoOwner
           /\ op.claim.owner # NoOwner /\ op.claim.fence > 0
           /\ log.terminal \/ ActiveExecute(log)
           /\ log.check.run = op.claim.run
           /\ op.pc \notin {"child", "child_start_failed"} => log.child.id = 0
           /\ log.run.id # 0 => op.claim.run = log.run.id
           /\ op.claim.run # 0 /\ op.claim.fence \in Nat
           /\ op.kind = "to_child" => Direction = ToChild
           /\ op.kind = "to_parent" => Direction = ToParent
<1>1. op.kind \in Handoffs
  BY DEF Working, OpRun, OpShape, Transferring, Swapped, Handoffs
<1>2. op.claim.run # 0 /\ (log.run.id # 0 => op.claim.run = log.run.id)
  BY <1>1 DEF Working, Inv, AuthorityInv, OpFresh, Handoffs
<1>3. HandoffPhase /\ op.claim.fence \in Nat
  BY WorkingFacts
<1>4. /\ op.kind = "to_child" => Direction = ToChild
      /\ op.kind = "to_parent" => Direction = ToParent
  BY DEF Direction
<1> QED BY <1>1, <1>2, <1>3, <1>4 DEF HandoffPhase

LEMMA ReturnChildShape ==
    ASSUME Working, ReturnChild
    PROVE  OneFault'
<1> DEFINE e == ChildEvent(op.type, log.child, log.child.owner, log.child.fence)
<1>0. LogShape /\ log \in Log /\ HandoffPhase /\ OpOK
  BY WorkingFacts
<1>1. /\ op.kind = "to_parent" /\ op.pc = "child" /\ lease' = lease
      /\ \/ log' = AppendEvent(log, e) /\ Goto("propose")
         \/ log' \in {log, AppendEvent(log, e)} /\ Return(op.caller, Failed)
  BY DEF ReturnChild, Step, TryAppend
<1>2. e.type \in ChildTerminals /\ e.handoff = log.child.id
  BY <1>0, <1>1 DEF OpOK, ChildEvent
<1> HIDE DEF e
<1>3. /\ op.kind \in Handoffs /\ log.child.id # 0 /\ Room(4) /\ Holds(op.claim)
      /\ log.prop.handoff = 0 /\ log.check.fence = op.claim.fence
  BY <1>0, <1>1 DEF HandoffPhase, Handoffs
<1>4. log' = AppendEvent(log, e) =>
         /\ LogShape' /\ SameTask(log, log') /\ log'.child.id = 0 /\ log'.prop = log.prop
         /\ SameJudge /\ log'.check.dir = ToChild
  BY <1>0, <1>2, <1>3, ChildEndShape DEF SameJudge
<1>5. CASE Return(op.caller, Failed) /\ log' \in {log, AppendEvent(log, e)}
  BY <1>1, <1>3, <1>4, <1>5, FailShape
<1>6. CASE log' = AppendEvent(log, e) /\ Goto("propose")
  <2>1. /\ LogShape' /\ SameTask(log, log') /\ log'.child.id = 0 /\ log'.prop = log.prop
        /\ SameJudge /\ log'.check.dir = ToChild
    BY <1>4, <1>6
  <2>2. Room(3)'
    BY <1>0, <1>3, <1>6, RoomShrinks
  <2>3. /\ op'.kind = "to_parent" /\ op'.pc = "propose" /\ op'.claim = op.claim
        /\ op'.to = op.to /\ op'.handoff = op.handoff
        /\ ClaimShape' /\ PropPhase'
    BY <1>1, <1>3, <1>6, <2>1, GoesOnShape
  <2>4. OtherPhase'
    BY <2>3 DEF OtherPhase
  <2>5. HandoffPhase'
    BY <1>1, <1>3, <2>1, <2>2, <2>3, HandoffFacts2
    DEF HandoffPhase, SameTask, SameJudge, ActiveExecute, Active, Holds
  <2> QED BY <2>1, <2>3, <2>4, <2>5 DEF OneFault
<1> QED BY <1>1, <1>5, <1>6

LEMMA ProposingShape ==
    ASSUME Working, ProposeHandoff
    PROVE  OneFault'
<1> DEFINE e == Transfer("HandoffProposed", Direction)
<1>0. LogShape /\ log \in Log /\ HandoffPhase /\ lease.fence \in Nat
  BY WorkingFacts
<1>1. /\ op.kind \in Handoffs /\ op.pc = "propose" /\ lease' = lease
      /\ \/ log' = AppendEvent(log, e) /\ Goto("cas")
         \/ log' = log /\ Return(op.caller, Failed)
  <2>1. e.type = "HandoffProposed"
    BY DEF Transfer, HandoffEvent
  <2>2. "HandoffProposed" \notin unsynced'
    BY WorkingFacts
  <2> HIDE DEF e
  <2> QED BY <2>1, <2>2 DEF ProposeHandoff, TryAppend, Handoffs, e
<1>2. /\ e.type = "HandoffProposed" /\ e.kind = Direction /\ e.run = op.claim.run
      /\ e.handoff = op.handoff /\ e.from = op.claim.owner /\ e.owner = op.to
      /\ e.fence = op.claim.fence + 1
  BY DEF Transfer, HandoffEvent
<1> HIDE DEF e
<1>3. /\ log.child.id = 0 /\ Room(3) /\ Holds(op.claim)
      /\ log.prop.handoff = 0 /\ log.check.fence = op.claim.fence
      /\ op.kind = "to_parent" => log.check.dir = ToChild
  BY <1>0, <1>1 DEF HandoffPhase
<1>4. CASE log' = log /\ Return(op.caller, Failed)
  BY <1>1, <1>3, <1>4, FailShape
<1>5. CASE log' = AppendEvent(log, e) /\ Goto("cas")
  <2>1. log.commit.fence < e.fence /\ log.fence < e.fence /\ log.run.fence < e.fence
    <3>1. /\ log.commit.fence \in 0..lease.fence /\ log.fence \in 0..lease.fence
          /\ log.run.fence \in 0..lease.fence /\ op.claim.fence = lease.fence
      BY <1>3 DEF Working, Inv, BehindInv, Behind, Holds
    <3> QED BY <1>0, <1>2, <3>1
  <2>2. CoherentProposal(log, e)
    <3>1. log.check.run = op.claim.run /\ log.check.child = 0
      BY <1>0, <1>1, <1>3, HandoffFacts2 DEF LogShape
    <3>2. e.kind = ToParent => log.check.dir # ToParent
      BY <1>1, <1>2, <1>3, HandoffFacts2 DEF ToParent, ToChild, Handoffs
    <3> QED BY <1>2, <1>3, <3>1, <3>2 DEF CoherentProposal
  <2>3. /\ LogShape' /\ SameTask(log, log') /\ log'.child = log.child /\ SameJudge
        /\ log'.prop = [handoff |-> op.handoff, dir |-> Direction, from |-> op.claim.owner,
                        to |-> op.to, next |-> op.claim.fence + 1]
    BY <1>0, <1>2, <1>3, <1>5, <2>1, <2>2, ProposeShape DEF SameJudge
  <2>4. Room(2)'
    BY <1>0, <1>3, <1>5, RoomShrinks
  <2>5. /\ op'.kind = op.kind /\ op'.pc = "cas" /\ op'.claim = op.claim
        /\ op'.to = op.to /\ op'.handoff = op.handoff
        /\ ClaimShape' /\ PropPhase'
    BY <1>1, <1>3, <1>5, <2>3, GoesOnShape
  <2>6. Proposed'
    BY <2>3, <2>5 DEF Proposed, Direction
  <2>7. OtherPhase'
    BY <1>1, <2>5 DEF OtherPhase, Handoffs
  <2>8. HandoffPhase'
    BY <1>1, <1>3, <2>3, <2>4, <2>5, <2>6, HandoffFacts2
    DEF HandoffPhase, SameTask, SameJudge, ActiveExecute, Active, Holds
  <2> QED BY <2>3, <2>5, <2>7, <2>8 DEF OneFault
<1> QED BY <1>1, <1>4, <1>5

LEMMA SwappingShape ==
    ASSUME Working, CommitHandoffFrom
    PROVE  OneFault'
<1>0. /\ LogShape /\ log \in Log /\ HandoffPhase /\ ClaimShape
      /\ ~booted' => ~snapshot'.pending
  BY WorkingFacts
<1>1. /\ op.pc = "cas" /\ log' = log
      /\ \/ lease'.fence = lease.fence + 1 /\ faults' = faults /\ Goto("commit")
         \/ /\ lease' = lease \/ lease'.fence = lease.fence + 1
            /\ faults' = faults + 1 /\ Goto("cas_failed")
  BY DEF CommitHandoffFrom, TryLease, Refused
<1>2. op.kind \in Handoffs
  BY <1>1, HandoffFacts2 DEF Transferring
<1>3. Proposed /\ Room(2) /\ log.check.fence = op.claim.fence /\ Holds(op.claim)
  BY <1>0, <1>1, <1>2 DEF HandoffPhase
<1>4. LogShape' /\ SameJudge
  BY <1>0, <1>1, SameShape DEF SameJudge
<1>5. PICK at \in {"commit", "cas_failed"} :
         /\ Goto(at)
         /\ lease' = lease \/ lease'.fence = lease.fence + 1
         /\ at = "cas_failed" => faults' = faults + 1
  BY <1>1
<1>6. /\ op'.kind = op.kind /\ op'.pc = at /\ op'.claim = op.claim
      /\ op'.to = op.to /\ op'.handoff = op.handoff /\ issued' = issued /\ PropPhase'
      /\ lease' = lease => ClaimShape'
  BY <1>2, <1>4, <1>5, GoesOnShape
<1>7. ClaimShape'
  BY <1>0, <1>5, <1>6, WorkingFacts, ClaimsMoved DEF Working
<1>8. Proposed' /\ Room(2)'
  BY <1>1, <1>3, <1>6 DEF Proposed, Direction, Room, Total
<1>9. at = "cas_failed" => faults' = 1
  BY <1>5, WorkingFacts DEF Working
<1>10. OtherPhase'
  BY <1>2, <1>6 DEF OtherPhase, Handoffs
<1>11. HandoffPhase'
  BY <1>1, <1>2, <1>3, <1>5, <1>6, <1>8, <1>9, HandoffFacts2
  DEF HandoffPhase, ActiveExecute, Active, Holds
<1> QED BY <1>4, <1>6, <1>7, <1>10, <1>11 DEF OneFault

(* The commit, or the one fault that leaves the proposal open behind it. *)
LEMMA CommittingShape ==
    ASSUME Working, HandoffCommitted
    PROVE  OneFault'
<1> DEFINE e == Transfer("HandoffCommitted", Direction)
<1>0. LogShape /\ log \in Log /\ HandoffPhase /\ ClaimShape
  BY WorkingFacts
<1>1. op.pc = "commit" /\ op.kind \in Handoffs /\ lease' = lease
  BY HandoffFacts2 DEF HandoffCommitted, Transferring, Swapped
<1>2. /\ e.type = "HandoffCommitted" /\ e.kind = Direction /\ e.run = op.claim.run
      /\ e.handoff = op.handoff /\ e.owner = op.to /\ e.fence = op.claim.fence + 1
  BY DEF Transfer, HandoffEvent
<1>3. \/ log' = AppendEvent(log, e) /\ op.kind = "to_child" /\ Goto("child_start")
      \/ log' = AppendEvent(log, e) /\ op.kind = "to_parent"
            /\ Return(op.caller, Done(Transferred))
      \/ log' = log /\ Return(op.caller, Failed) /\ ~Admits(log, "HandoffCommitted")
      \/ log' = log /\ Return(op.caller, Failed) /\ faults' = faults + 1
      \/ log' = AppendEvent(log, e) /\ Return(op.caller, Failed)
  BY <1>1, <1>2 DEF HandoffCommitted, TryAppend, Refused, Handoffs
<1> HIDE DEF e
<1>4. /\ log.child.id = 0 /\ Room(2) /\ Proposed /\ log.check.fence = op.claim.fence
  BY <1>0, <1>1 DEF HandoffPhase
<1>5. /\ log.prop.handoff = op.handoff /\ log.prop.dir = Direction /\ log.prop.to = op.to
      /\ log.prop.next = op.claim.fence + 1
  BY <1>4 DEF Proposed
<1>6. lease.owner = op.to /\ lease.fence = op.claim.fence + 1 /\ Fresh
  BY <1>1 DEF Working, Inv, AuthorityInv, OpFresh, Swapped
<1>7. CASE log' = log /\ Return(op.caller, Failed)
  <2>1. Admits(log, "HandoffCommitted")
    BY <1>0, <1>4, RoomFacts DEF ControlEvents, HandoffEvents
  <2>2. faults' = 1
    <3>1. Total(log) \in Nat /\ Total(AppendEvent(log, e)) = Total(log) + 1
      BY <1>0, OneMore
    <3>2. faults' = faults + 1
      BY <1>3, <1>7, <2>1, <3>1
    <3> QED BY <3>2, WorkingFacts DEF Working
  <2>3. op' = Idle /\ issued' = issued
    BY <1>7, FailFacts
  <2>4. LogShape' /\ SameJudge
    BY <1>0, <1>7, SameShape DEF SameJudge
  <2>5. ClaimShape'
    BY <1>1, <2>3, <2>4, WorkingFacts, ClaimsKept
  <2>6. \A k \in issued : k.fence < lease.fence
    BY <1>6 DEF Fresh, Circulating
  <2>7. snapshot.pending => snapshot.claim.fence < lease.fence
    BY <1>6 DEF Fresh, Circulating
  <2>8. Ahead'
    BY <1>1, <1>5, <1>6, <1>7, <2>3, <2>6, <2>7 DEF Ahead, Working
  <2>9. log.terminal \/ ActiveExecute(log)
    BY <1>1, HandoffFacts2
  <2>10. log'.terminal \/ Stranded'
    BY <1>7, <2>2, <2>8, <2>9 DEF Stranded, ActiveExecute, Active
  <2>11. PropPhase'
    BY <2>3, <2>10 DEF PropPhase, Idle
  <2> QED BY <2>3, <2>4, <2>5, <2>11, OverShape
<1>8. CASE log' = AppendEvent(log, e)
  <2>1. CoherentCommit(log, e)
    <3>1. log.check.run = op.claim.run /\ op.claim.fence \in Nat
      BY <1>1, HandoffFacts2
    <3> QED BY <1>2, <1>4, <1>5, <3>1 DEF CoherentCommit
  <2>2. /\ LogShape' /\ SameTask(log, log') /\ log'.child = log.child
        /\ log'.prop.handoff = 0
        /\ log'.check.run = log.check.run /\ log'.check.fence = e.fence
        /\ log'.check.last = e.handoff /\ log'.check.dir = e.kind
        /\ log'.commit = [run |-> e.run, owner |-> e.owner, fence |-> e.fence]
    BY <1>0, <1>2, <1>4, <1>8, <2>1, CommitShape
  <2>3. CASE op.kind = "to_parent" /\ Return(op.caller, Done(Transferred))
    <3>1. /\ Transferred.owner = op.to /\ Transferred.fence = op.claim.fence + 1
          /\ Transferred.run = op.claim.run
      BY DEF Transferred
    <3>2. Transferred.owner # NoOwner /\ Transferred.fence > 0
      BY <1>1, <3>1, HandoffFacts2
    <3>3. log'.check.run = Transferred.run /\ log'.check.fence = Transferred.fence
      BY <1>1, <1>2, <2>2, <3>1, HandoffFacts2
    <3> QED BY <1>1, <1>6, <2>2, <2>3, <3>2, <3>3, HandOutShape
  <2>4. CASE op.kind = "to_child" /\ Goto("child_start")
    <3>1. /\ op'.kind = "to_child" /\ op'.pc = "child_start" /\ op'.claim = op.claim
          /\ op'.to = op.to /\ op'.handoff = op.handoff /\ issued' = issued /\ PropPhase'
      BY <1>1, <2>2, <2>4, GoesOnShape
    <3>2. ClaimShape'
      BY <1>0, <1>1, <1>6, <3>1, WorkingFacts, FreshKept DEF Working
    <3>3. OtherPhase'
      BY <3>1 DEF OtherPhase
    <3>4. log'.check.dir = ToChild
      BY <1>1, <1>2, <2>2, <2>4, HandoffFacts2
    <3>5. log'.terminal \/ ActiveExecute(log')
      BY <1>1, <2>2, HandoffFacts2 DEF SameTask, ActiveExecute, Active
    <3>6. HandoffPhase'
      BY <1>1, <1>2, <1>4, <2>2, <3>1, <3>4, <3>5, HandoffFacts2 DEF HandoffPhase
    <3> QED BY <2>2, <3>1, <3>2, <3>3, <3>6 DEF OneFault
  <2>5. log' # log
    <3>1. Total(log') = Total(log) + 1 /\ Total(log) \in Nat
      BY <1>0, <1>8, OneMore
    <3> QED BY <3>1
  <2>6. CASE Return(op.caller, Failed)
    <3>1. op' = Idle /\ issued' = issued
      BY <2>6, FailFacts
    <3>2. ClaimShape'
      BY <1>1, <1>6, <3>1, WorkingFacts, FreshKept DEF Working
    <3>3. PropPhase'
      BY <2>2 DEF PropPhase
    <3> QED BY <2>2, <3>1, <3>2, <3>3, OverShape
  <2> QED BY <1>3, <2>3, <2>4, <2>5, <2>6
<1> QED BY <1>3, <1>7, <1>8

LEMMA ChildStartingShape ==
    ASSUME Working, ChildRunStarted
    PROVE  OneFault'
<1> DEFINE e == HandoffEvent("ChildRunStarted", "none", op.claim.run, op.handoff,
                             NoOwner, op.to, op.claim.fence + 1)
<1>0. LogShape /\ log \in Log /\ HandoffPhase /\ ClaimShape
  BY WorkingFacts
<1>1. op.pc = "child_start" /\ op.kind \in Handoffs /\ lease' = lease
  BY HandoffFacts2 DEF ChildRunStarted, Transferring, Swapped
<1>2. /\ e.type = "ChildRunStarted" /\ e.run = op.claim.run
      /\ e.handoff = op.handoff /\ e.owner = op.to /\ e.fence = op.claim.fence + 1
  BY DEF HandoffEvent
<1>3. \/ log' = AppendEvent(log, e) /\ Return(op.caller, Done(Transferred))
      \/ log' \in {log, AppendEvent(log, e)} /\ Goto("child_start_failed")
  BY DEF ChildRunStarted, TryAppend
<1> HIDE DEF e
<1>4. /\ log.child.id = 0 /\ log.prop.handoff = 0
      /\ log.check.fence = op.claim.fence + 1
      /\ log.check.last = op.handoff /\ log.check.dir = ToChild
      /\ log.commit.owner = op.to /\ log.commit.fence = op.claim.fence + 1
  BY <1>0, <1>1 DEF HandoffPhase
<1>5. lease.owner = op.to /\ lease.fence = op.claim.fence + 1 /\ Fresh
  BY <1>1 DEF Working, Inv, AuthorityInv, OpFresh, Swapped
<1>6. log' = AppendEvent(log, e) =>
         LogShape' /\ SameTask(log, log') /\ SameJudge /\ log'.prop = log.prop
  <2> SUFFICES ASSUME log' = AppendEvent(log, e)
               PROVE  LogShape' /\ SameTask(log, log') /\ SameJudge /\ log'.prop = log.prop
    OBVIOUS
  <2>1. CoherentChildStart(log, e)
    BY <1>0, <1>1, <1>2, <1>4, HandoffFacts2 DEF CoherentChildStart, LogShape
  <2>2. log.terminal \/ (ActiveExecute(log) /\ log.run.id = e.run)
    <3>1. ActiveExecute(log) => log.run.id # 0
      BY DEF Working, Inv, AuthorityInv, Named, ActiveExecute
    <3> QED BY <1>1, <1>2, <3>1, HandoffFacts2
  <2> QED BY <1>0, <1>2, <1>4, <2>1, <2>2, ChildStartShape DEF SameJudge
<1>7. CASE log' \in {log, AppendEvent(log, e)} /\ Goto("child_start_failed")
  <2>1. LogShape' /\ SameJudge /\ log'.prop = log.prop
    BY <1>0, <1>6, <1>7, SameShape DEF SameJudge
  <2>t. log' = log \/ SameTask(log, log')
    BY <1>6, <1>7
  <2>2. /\ op'.kind = op.kind /\ op'.pc = "child_start_failed" /\ op'.claim = op.claim
        /\ op'.to = op.to /\ op'.handoff = op.handoff /\ ClaimShape' /\ PropPhase'
    BY <1>1, <1>4, <1>7, <2>1, GoesOnShape
  <2>3. OtherPhase'
    BY <1>1, <2>2 DEF OtherPhase, Handoffs
  <2>4. HandoffPhase'
    BY <1>1, <1>4, <2>1, <2>2, <2>t, HandoffFacts2
    DEF HandoffPhase, ActiveExecute, Active, SameTask, SameJudge
  <2> QED BY <2>1, <2>2, <2>3, <2>4 DEF OneFault
<1>8. CASE log' = AppendEvent(log, e) /\ Return(op.caller, Done(Transferred))
  <2>1. LogShape' /\ SameJudge /\ log'.prop = log.prop
    BY <1>6, <1>8
  <2>2. /\ Transferred.owner = op.to /\ Transferred.fence = op.claim.fence + 1
        /\ Transferred.run = op.claim.run
    BY DEF Transferred
  <2>3. Transferred.owner # NoOwner /\ Transferred.fence > 0
    BY <1>1, <2>2, HandoffFacts2
  <2>4. log'.check.run = Transferred.run /\ log'.check.fence = Transferred.fence
    BY <1>1, <1>4, <2>1, <2>2, HandoffFacts2 DEF SameJudge
  <2> QED BY <1>1, <1>4, <1>5, <1>8, <2>1, <2>3, <2>4, HandOutShape
<1> QED BY <1>3, <1>7, <1>8

LEMMA FailingShape ==
    ASSUME Working, HandoffFailed
    PROVE  OneFault'
<1> DEFINE e == Transfer("HandoffFailed", Direction)
<1>0. LogShape /\ log \in Log /\ HandoffPhase /\ ClaimShape
  BY WorkingFacts
<1>1. /\ op.pc \in {"cas_failed", "child_start_failed"} /\ op.kind \in Handoffs
      /\ lease' = lease /\ Return(op.caller, Failed)
  BY HandoffFacts2 DEF HandoffFailed, Transferring, Swapped, TryAppend
<1>2. e.type = "HandoffFailed" /\ e.handoff = op.handoff
  BY DEF Transfer, HandoffEvent
<1>3. \/ log' = AppendEvent(log, e)
      \/ log' = log /\ ~Admits(log, "HandoffFailed")
      \/ log' = log /\ faults' = faults + 1
  BY <1>2 DEF HandoffFailed, TryAppend, Refused
<1> HIDE DEF e
<1>4. CASE log' = log
  <2>1. CASE op.pc = "child_start_failed"
    <3>1. log.prop.handoff = 0
      BY <1>0, <1>1, <2>1 DEF HandoffPhase
    <3> QED BY <1>1, <1>4, <3>1, FailShape
  <2>2. CASE op.pc = "cas_failed"
    <3>1. Room(2) /\ faults = 1
      BY <1>0, <1>1, <2>2 DEF HandoffPhase
    <3>2. Admits(log, "HandoffFailed")
      BY <1>0, <3>1, RoomFacts DEF ControlEvents, HandoffEvents
    <3>3. Total(log) \in Nat /\ Total(AppendEvent(log, e)) = Total(log) + 1
      BY <1>0, OneMore
    <3> QED BY <1>3, <1>4, <3>1, <3>2, <3>3, WorkingFacts DEF Working
  <2> QED BY <1>1, <2>1, <2>2
<1>5. CASE log' = AppendEvent(log, e)
  <2>1. log.prop.handoff # 0 => e.handoff = log.prop.handoff
    BY <1>0, <1>1, <1>2 DEF HandoffPhase, Proposed
  <2>2. LogShape' /\ SameJudge /\ log'.prop.handoff = 0
    BY <1>0, <1>2, <1>5, <2>1, CloseShape DEF SameJudge
  <2>3. ~Failed.ok
    BY DEF Failed
  <2> QED BY <1>1, <2>2, <2>3, ReturnShape
<1> QED BY <1>3, <1>4, <1>5

LEMMA ProgramShape ==
    ASSUME Working, KernelStep
    PROVE  OneFault'
  BY BeginShape, EndingShape, ReconcilingShape, ReturnChildShape, ProposingShape,
     SwappingShape, CommittingShape, ChildStartingShape, FailingShape DEF KernelStep
-----------------------------------------------------------------------------
(* The calls.  What a call finds, since no other operation is under way.   *)
Calling ==
    /\ Inv /\ OneFault /\ Record /\ op = Idle
    /\ booted' = booted /\ snapshot' \in {snapshot, NoSnapshot}
    /\ faults \in Nat /\ faults' \in {faults, faults + 1} /\ OneFaultOnly'

LEMMA CallingFacts ==
    ASSUME Calling
    PROVE  /\ log \in Log /\ lease.fence \in Nat /\ LogShape /\ ClaimShape
           /\ ~booted' => ~snapshot'.pending
           /\ log.prop.handoff # 0 => log.terminal \/ Stranded
           /\ booted /\ Stranded => Ahead
           /\ ~Active(log) /\ ~log.terminal => log.prop.handoff = 0 /\ log.child.id = 0
           /\ faults' <= 1
<1>0. faults' <= 1
  BY DEF Calling, OneFaultOnly
<1>1. log \in Log /\ lease.fence \in Nat /\ LogShape /\ ClaimShape /\ PropPhase
  BY DEF Calling, OneFault, Inv, TypeInv, KernelOK, BehindInv
<1>2. ~booted' => ~snapshot'.pending
  BY <1>1 DEF Calling, ClaimShape, NoSnapshot
<1>3. log.prop.handoff # 0 => log.terminal \/ Stranded
  BY <1>1 DEF Calling, PropPhase, Idle, Handoffs
<1>4. booted /\ Stranded => Ahead
  BY DEF Stranded, NotYet
<1>5. ~Active(log) /\ ~log.terminal => log.prop.handoff = 0 /\ log.child.id = 0
  BY <1>1, <1>3 DEF Stranded, ActiveExecute, LogShape, ChildShape
<1> QED BY <1>0, <1>1, <1>2, <1>3, <1>4, <1>5

LEMMA CallReturns ==
    ASSUME Calling, NEW c, NEW r, Return(c, r), ~r.ok \/ r.claim = NoClaim
    PROVE  op' = Idle /\ issued' = issued
  BY RecordReturn DEF Calling, Inv, TypeInv, KernelOK, AuthorityInv, Named, Return

(* A call that is over at once and leaves the proposal as it is. *)
LEMMA CallShape ==
    ASSUME Calling, booted, op' = Idle, issued' = issued, lease' = lease,
           LogShape', SameJudge, log'.prop = log.prop,
           log.terminal => log'.terminal,
           ActiveExecute(log) => log'.terminal \/ ActiveExecute(log')
    PROVE  OneFault'
<1>1. ClaimShape'
  BY CallingFacts, ClaimsKept
<1>2. ASSUME log'.prop.handoff # 0, ~log'.terminal PROVE Stranded'
  <2>1. Stranded /\ Ahead /\ ~log.terminal
    BY <1>2, CallingFacts
  <2>2. ActiveExecute(log')
    BY <1>2, <2>1 DEF Stranded
  <2>3. faults' = 1
    BY <2>1, CallingFacts DEF Stranded, Calling
  <2>4. snapshot'.pending => snapshot' = snapshot
    BY DEF Calling, NoSnapshot
  <2>5. Ahead'
    BY <2>1, <2>4 DEF Ahead
  <2> QED BY <2>2, <2>3, <2>5 DEF Stranded
<1>3. PropPhase'
  BY <1>2 DEF PropPhase, Idle
<1> QED BY <1>1, <1>3, OverShape

LEMMA UnwrittenShape ==
    ASSUME Calling, booted, NEW c, Return(c, Failed) \/ Return(c, Done(NoClaim)),
           log' = log, lease' = lease
    PROVE  OneFault'
<1>1. ~Failed.ok /\ Done(NoClaim).claim = NoClaim
  BY DEF Failed, Done
<1>2. op' = Idle /\ issued' = issued
  BY <1>1, CallReturns
<1>3. LogShape' /\ SameJudge
  BY CallingFacts, SameShape DEF SameJudge
<1> QED BY <1>2, <1>3, CallShape

LEMMA TurnedDownShape ==
    ASSUME Calling, booted, NEW c, Reject(c) \/ Already(c)
    PROVE  OneFault'
  BY UnwrittenShape DEF Reject, Already

LEMMA AppendedShape ==
    ASSUME Calling, booted, NEW c, NEW e, AppendCall(c, e),
           e.type \in QuietTypes \cup {"RunCompleted", "RunFailed"},
           e.type \in TaskTerminals => ~Active(log)
    PROVE  OneFault'
<1>1. /\ lease' = lease
      /\ \/ log' = AppendEvent(log, e) /\ (Return(c, Done(NoClaim)) \/ Return(c, Failed))
         \/ log' = log /\ Return(c, Failed)
  BY DEF AppendCall, TryAppend
<1>2. CASE log' = log /\ Return(c, Failed)
  BY <1>1, <1>2, UnwrittenShape
<1>3. CASE log' = AppendEvent(log, e) /\ (Return(c, Done(NoClaim)) \/ Return(c, Failed))
  <2>1. Done(NoClaim).claim = NoClaim /\ ~Failed.ok
    BY DEF Done, Failed
  <2>2. op' = Idle /\ issued' = issued
    BY <1>3, <2>1, CallReturns
  <2>3. CASE e.type \in QuietTypes
    <3>1. /\ LogShape' /\ SameJudge /\ log'.prop = log.prop
          /\ log'.run = log.run /\ log'.state = log.state
          /\ log'.terminal = (log.terminal \/ e.type \in TaskTerminals)
      BY <1>3, <2>3, CallingFacts, QuietShape DEF SameJudge
    <3>2. log.terminal => log'.terminal
      BY <3>1
    <3>3. ActiveExecute(log) => ActiveExecute(log')
      BY <3>1 DEF ActiveExecute, Active
    <3> QED BY <1>1, <2>2, <3>1, <3>2, <3>3, CallShape
  <2>4. CASE e.type \in {"RunCompleted", "RunFailed"}
    <3>1. /\ LogShape' /\ SameJudge /\ log'.prop = log.prop
          /\ log'.terminal = (log.terminal \/ e.type # "RunInterrupted")
      BY <1>3, <2>4, CallingFacts, EndShape DEF SameJudge, RunTerminals
    <3>2. log'.terminal
      BY <2>4, <3>1
    <3> QED BY <1>1, <2>2, <3>1, <3>2, CallShape
  <2> QED BY <2>3, <2>4
<1> QED BY <1>1, <1>2, <1>3

LEMMA StartedShape ==
    ASSUME Calling, booted, NEW c, NEW p, NEW kind \in {"mark", "session"}, StartRun(c, kind, p)
    PROVE  OneFault'
<1> DEFINE e == RunEvent("RunStarted", kind, 0, Primary(p), 0)
<1>1. e.type = "RunStarted" /\ e.kind # "execute"
  BY DEF RunEvent
<1>2. CASE ~CanStart
  BY <1>2, TurnedDownShape DEF StartRun
<1>3. CASE CanStart
  <2>1. /\ lease' = lease
        /\ \/ log' = AppendEvent(log, e) /\ (Return(c, Done(NoClaim)) \/ Return(c, Failed))
           \/ log' = log /\ Return(c, Failed)
    BY <1>3 DEF StartRun, AppendCall, TryAppend
  <2> HIDE DEF e
  <2>2. ~log.terminal /\ ~Active(log) /\ log.prop.handoff = 0 /\ log.child.id = 0
    BY <1>3, CallingFacts DEF CanStart
  <2>3. CASE log' = log /\ Return(c, Failed)
    BY <2>1, <2>3, UnwrittenShape
  <2>4. CASE log' = AppendEvent(log, e) /\ (Return(c, Done(NoClaim)) \/ Return(c, Failed))
    <3>1. Done(NoClaim).claim = NoClaim /\ ~Failed.ok
      BY DEF Done, Failed
    <3>2. op' = Idle /\ issued' = issued
      BY <2>4, <3>1, CallReturns
    <3>3. LogShape' /\ SameJudge /\ log'.prop = log.prop
      BY <1>1, <2>2, <2>4, CallingFacts, StartShape DEF SameJudge
    <3> QED BY <2>1, <2>2, <3>2, <3>3, CallShape DEF ActiveExecute
  <2> QED BY <2>1, <2>3, <2>4
<1> QED BY <1>2, <1>3

LEMMA OnceShape ==
    ASSUME Calling, booted, NEW c,
           \/ Create(c)
           \/ \E t \in {"RunCompleted", "RunFailed"} : CloseRun(c, t)
           \/ \E i, k : Remove(c, i, k)
           \/ \E t \in TaskTerminals : \E k : AppendLifecycle(c, t, k)
           \/ \E k : RecordProgress(c, k)
           \/ \E t \in InputEvents : \E k : InitialInput(c, t, k)
    PROVE  OneFault'
<1>0. \A t : Plain(t).type = t
  BY DEF Plain
<1>1. CASE Create(c)
  <2>1. AppendCall(c, Plain("TaskCreated"))
    BY <1>1 DEF Create
  <2> QED BY <1>0, <2>1, AppendedShape DEF QuietTypes, TaskTerminals
<1>2. CASE \E t \in {"RunCompleted", "RunFailed"} : CloseRun(c, t)
  <2>1. PICK t \in {"RunCompleted", "RunFailed"} : CloseRun(c, t)
    BY <1>2
  <2>2. AppendCall(c, Plain(t)) \/ Reject(c)
    BY <2>1 DEF CloseRun
  <2>3. Plain(t).type = t /\ t \notin TaskTerminals
    BY <1>0, <2>1 DEF TaskTerminals
  <2> QED BY <2>2, <2>3, AppendedShape, TurnedDownShape
<1>3. CASE \E i, k : Remove(c, i, k)
  <2>1. \/ Reject(c) \/ Already(c)
        \/ AppendCall(c, Plain("TaskRemoved")) /\ ~Active(log)
    BY <1>3 DEF Remove
  <2>2. Plain("TaskRemoved").type \in QuietTypes
    BY <1>0 DEF QuietTypes, TaskTerminals
  <2> QED BY <2>1, <2>2, AppendedShape, TurnedDownShape
<1>4. CASE \E t \in TaskTerminals : \E k : AppendLifecycle(c, t, k)
  <2>1. PICK t \in TaskTerminals : \E k : AppendLifecycle(c, t, k)
    BY <1>4
  <2>2. Reject(c) \/ (AppendCall(c, Plain(t)) /\ ~Active(log))
    BY <2>1 DEF AppendLifecycle, CanStart
  <2>3. Plain(t).type \in QuietTypes
    BY <1>0, <2>1 DEF QuietTypes
  <2> QED BY <2>2, <2>3, AppendedShape, TurnedDownShape
<1>5. CASE \E k : RecordProgress(c, k)
  <2>1. PICK k : RecordProgress(c, k)
    BY <1>5
  <2> DEFINE e == RunEvent("RunProgress", "none", k.run, k.owner, k.fence)
  <2>2. Reject(c) \/ AppendCall(c, e)
    BY <2>1 DEF RecordProgress
  <2>3. e.type \in QuietTypes /\ e.type \notin TaskTerminals
    BY DEF RunEvent, QuietTypes, TaskTerminals
  <2> HIDE DEF e
  <2> QED BY <2>2, <2>3, AppendedShape, TurnedDownShape
<1>6. CASE \E t \in InputEvents : \E k : InitialInput(c, t, k)
  <2>1. PICK t \in InputEvents : \E k : InitialInput(c, t, k)
    BY <1>6
  <2>2. Reject(c) \/ Already(c) \/ AppendCall(c, Plain(t))
    BY <2>1 DEF InitialInput
  <2>3. Plain(t).type \in QuietTypes /\ Plain(t).type \notin TaskTerminals
    BY <1>0, <2>1 DEF QuietTypes, InputEvents, TaskTerminals
  <2> QED BY <2>2, <2>3, AppendedShape, TurnedDownShape
<1> QED BY <1>1, <1>2, <1>3, <1>4, <1>5, <1>6
(* A call that starts a program: what it checked is what the first step needs. *)
LEMMA LaunchIssued ==
    ASSUME Calling, NEW c, ret' = [ret EXCEPT ![c] = NoResult]
    PROVE  issued' = issued
<1>1. ~NoResult.ok
  BY DEF NoResult
<1> QED BY <1>1, RecordReturn DEF Calling, Inv, TypeInv, KernelOK, AuthorityInv, Named

LEMMA LaunchShape ==
    ASSUME Calling, NEW c, ret' = [ret EXCEPT ![c] = NoResult], log' = log, lease' = lease
    PROVE  LogShape' /\ ClaimShape' /\ issued' = issued
<1>1. LogShape' /\ SameJudge
  BY CallingFacts, SameShape DEF SameJudge
<1>2. issued' = issued
  BY LaunchIssued
<1> QED BY <1>1, <1>2, CallingFacts, ClaimsKept

LEMMA BeginLaunch ==
    ASSUME Calling, booted, NEW c, NEW p \in PrimaryOwners, BeginExecute(c, p)
    PROVE  OneFault'
<1>1. CASE ~CanStart
  BY <1>1, TurnedDownShape DEF BeginExecute
<1>2. CASE CanStart /\ lease' = lease
  <2>1. lease.fence + 1 # lease.fence
    BY CallingFacts
  <2>2. Return(c, Failed) /\ log' = log
    BY <1>2, <2>1 DEF BeginExecute, TryLease
  <2> QED BY <1>2, <2>2, UnwrittenShape
<1>3. CASE CanStart /\ lease' # lease
  <2>1. /\ lease'.fence = lease.fence + 1 /\ log' = log
        /\ \/ /\ op'.kind = "begin" /\ op'.claim.owner = Primary(p)
              /\ op'.claim.fence = lease.fence + 1
              /\ ret' = [ret EXCEPT ![c] = NoResult]
           \/ Return(c, Failed)
    BY <1>3 DEF BeginExecute, TryLease, Begin
  <2>2. ~log.terminal /\ ~Active(log) /\ log.prop.handoff = 0 /\ log.child.id = 0
    BY <1>3, CallingFacts DEF CanStart
  <2>3. issued' = issued /\ (Return(c, Failed) => op' = Idle)
    BY <2>1, LaunchIssued, CallReturns DEF Failed
  <2>4. ClaimShape'
    BY <2>1, <2>3, CallingFacts, ClaimsMoved DEF Calling
  <2>5. LogShape'
    BY <2>1, CallingFacts, SameShape
  <2>6. Primary(p) # NoOwner /\ lease.fence + 1 > 0
    BY CallingFacts, OwnersAssumption DEF Primary, NoOwner
  <2>7. HandoffPhase' /\ OtherPhase' /\ PropPhase'
    BY <2>1, <2>2, <2>3, <2>6 DEF HandoffPhase, OtherPhase, PropPhase, Handoffs, Idle
  <2> QED BY <2>4, <2>5, <2>7 DEF OneFault
<1> QED BY <1>1, <1>2, <1>3

(* A claim that holds the lease finds no proposal open. *)
LEMMA HeldNoProposal ==
    ASSUME Calling, booted, NEW k, Holds(k), ~log.terminal,
           k = NoClaim \/ k \in issued \/ (snapshot.pending /\ k = snapshot.claim)
    PROVE  log.prop.handoff = 0
<1> SUFFICES ASSUME log.prop.handoff # 0 PROVE FALSE
  OBVIOUS
<1>1. Ahead
  BY CallingFacts
<1>2. log.prop.next > log.commit.fence /\ log.commit.fence \in Nat /\ log.prop.next \in Nat
  BY CallingFacts DEF LogShape, PropShape, Log, Claim
<1>3. lease.fence > 0 /\ lease.fence = log.prop.next
  BY <1>1, <1>2 DEF Ahead
<1>4. k = NoClaim => k.fence = 0
  BY DEF NoClaim
<1>5. k.fence = lease.fence
  BY DEF Holds
<1>6. k # NoClaim
  BY <1>3, <1>4, <1>5
<1>7. k.fence < lease.fence
  BY <1>1, <1>6 DEF Ahead
<1> QED BY <1>5, <1>7, CallingFacts

LEMMA EndLaunch ==
    ASSUME Calling, booted, NEW c, NEW k, NEW type, TerminalExecute(c, k, type),
           k = NoClaim \/ k \in issued \/ (snapshot.pending /\ k = snapshot.claim)
    PROVE  OneFault'
<1>1. CASE ~MayEnd(k)
  BY <1>1, TurnedDownShape DEF TerminalExecute
<1>2. CASE MayEnd(k)
  <2>1. /\ log' = log /\ lease' = lease /\ ret' = [ret EXCEPT ![c] = NoResult]
        /\ op'.kind = "end"
        /\ op'.pc = IF log.child.id # 0 THEN "child" ELSE "terminal"
    BY <1>2 DEF TerminalExecute, Begin
  <2>2. Holds(k) /\ ~log.terminal
    BY <1>2, CallingFacts DEF MayEnd, LogShape
  <2>3. log.prop.handoff = 0
    BY <2>2, HeldNoProposal
  <2>4. LogShape' /\ ClaimShape'
    BY <2>1, LaunchShape
  <2>5. HandoffPhase' /\ OtherPhase' /\ PropPhase'
    BY <2>1, <2>3 DEF HandoffPhase, OtherPhase, PropPhase, Handoffs
  <2> QED BY <2>4, <2>5 DEF OneFault
<1> QED BY <1>1, <1>2

LEMMA DelegateLaunch ==
    ASSUME Calling, booted, NEW c, NEW k, BeginChildHandoff(c, k), k = NoClaim \/ k \in issued
    PROVE  OneFault'
<1>1. CASE ~MayDelegate(k)
  BY <1>1, TurnedDownShape DEF BeginChildHandoff
<1>2. CASE MayDelegate(k)
  <2>1. /\ log' = log /\ lease' = lease /\ ret' = [ret EXCEPT ![c] = NoResult]
        /\ op' = [kind |-> "to_child", pc |-> "propose", caller |-> c, claim |-> k,
                  type |-> "none", handoff |-> handoffs + 1, to |-> ChildOwner(handoffs + 1)]
    BY <1>2 DEF BeginChildHandoff
  <2>2. /\ op'.kind = "to_child" /\ op'.pc = "propose" /\ op'.claim = k
        /\ op'.handoff = handoffs + 1 /\ op'.to = ChildOwner(handoffs + 1)
    BY <2>1
  <2>3. /\ Holds(k) /\ ActiveExecute(log) /\ ~log.terminal /\ k.run = log.run.id
        /\ k.run \notin log.parents /\ AdmitsChildHandoff(log)
    BY <1>2, CallingFacts DEF MayDelegate, LogShape, ActiveExecute
  <2>4. log.run.id # 0
    BY <2>3 DEF Calling, Inv, AuthorityInv, Named, ActiveExecute
  <2>5. k \in issued
    BY <2>3, <2>4 DEF NoClaim
  <2>6. /\ k.owner # NoOwner /\ k.fence > 0
        /\ log.check.run = k.run /\ log.check.fence = k.fence
    BY <2>3, <2>5, CallingFacts DEF ClaimShape
  <2>7. log.prop.handoff = 0
    BY <2>3, <2>5, HeldNoProposal
  <2>8. log.child.id = 0
    BY <2>3, CallingFacts DEF LogShape, ChildShape
  <2>9. Room(3)
    <3>1. Admits(Grown(log, 2, 5), "RunCompleted")
      BY <2>3 DEF AdmitsChildHandoff
    <3>2. log.ordinary \in Nat /\ log.control \in Nat
      BY CallingFacts DEF Log
    <3>3. Total(Grown(log, 2, 5)) = Total(log) + 7
      BY <3>2, CallingFacts DEF Grown, Total, Log
    <3> QED BY <3>1, <3>2, <3>3, CapacityAssumption
            DEF Admits, ControlEvents, RunTerminals, Room, Total
  <2>10. handoffs + 1 # 0 /\ ChildOwner(handoffs + 1) # NoOwner
    BY DEF Calling, Inv, TypeInv, KernelOK, BoundsOK, ChildOwner, NoOwner
  <2>11. LogShape' /\ ClaimShape'
    BY <2>1, LaunchShape
  <2>12. OtherPhase' /\ PropPhase'
    BY <2>2 DEF OtherPhase, PropPhase, Handoffs
  <2>13. HandoffPhase'
    BY <2>1, <2>2, <2>3, <2>6, <2>7, <2>8, <2>9, <2>10
    DEF HandoffPhase, Room, Total, Holds, ActiveExecute, Active
  <2> QED BY <2>11, <2>12, <2>13 DEF OneFault
<1> QED BY <1>1, <1>2

LEMMA ReturnLaunch ==
    ASSUME Calling, booted, NEW c, NEW k, NEW p \in PrimaryOwners, NEW type \in ChildTerminals,
           TerminalChildHandoff(c, k, p, type), k = NoClaim \/ k \in issued
    PROVE  OneFault'
<1>1. CASE ~MayReturn(k, type)
  BY <1>1, TurnedDownShape DEF TerminalChildHandoff
<1>2. CASE MayReturn(k, type)
  <2>1. /\ log' = log /\ lease' = lease /\ ret' = [ret EXCEPT ![c] = NoResult]
        /\ op' = [kind |-> "to_parent", pc |-> "child", caller |-> c, claim |-> k,
                  type |-> type, handoff |-> handoffs + 1, to |-> Primary(p)]
    BY <1>2 DEF TerminalChildHandoff
  <2>2. /\ op'.kind = "to_parent" /\ op'.pc = "child" /\ op'.claim = k
        /\ op'.handoff = handoffs + 1 /\ op'.to = Primary(p)
    BY <2>1
  <2>3. /\ Holds(k) /\ log.child.id # 0 /\ log.child.run = k.run
        /\ AdmitsChildReturn(log, type)
    BY <1>2 DEF MayReturn
  <2>4. log.child.run # 0
    BY <2>3 DEF Calling, Inv, AuthorityInv, Named
  <2>5. k \in issued
    BY <2>3, <2>4 DEF NoClaim
  <2>6. /\ k.owner # NoOwner /\ k.fence > 0
        /\ log.check.run = k.run /\ log.check.fence = k.fence
    BY <2>3, <2>5, CallingFacts DEF ClaimShape
  <2>7. log.prop.handoff = 0 /\ (log.terminal \/ ActiveExecute(log))
    BY <2>3, CallingFacts DEF LogShape, ChildShape, PropShape
  <2>9. Room(4)
    <3>1. Admits(Grown(log, 0, 3), "RunCompleted")
      BY <2>3 DEF AdmitsChildReturn
    <3>2. log.ordinary \in Nat /\ log.control \in Nat
      BY CallingFacts DEF Log
    <3>3. Total(Grown(log, 0, 3)) = Total(log) + 3
      BY <3>2, CallingFacts DEF Grown, Total, Log
    <3> QED BY <3>1, <3>2, <3>3, CapacityAssumption
            DEF Admits, ControlEvents, RunTerminals, Room, Total
  <2>10. handoffs + 1 # 0 /\ Primary(p) # NoOwner
    BY OwnersAssumption DEF Calling, Inv, TypeInv, KernelOK, BoundsOK, Primary, NoOwner
  <2>11. LogShape' /\ ClaimShape'
    BY <2>1, LaunchShape
  <2>12. OtherPhase' /\ PropPhase'
    BY <2>2 DEF OtherPhase, PropPhase, Handoffs
  <2>13. HandoffPhase'
    BY <2>1, <2>2, <2>3, <2>6, <2>7, <2>9, <2>10
    DEF HandoffPhase, Room, Total, Holds, ActiveExecute, Active
  <2> QED BY <2>11, <2>12, <2>13 DEF OneFault
<1> QED BY <1>1, <1>2

(* The process that starts takes over the run whose proposal is open. *)
LEMMA NotYetIsTaken ==
    ASSUME Calling, Stranded, NotYet, log.prop.handoff # 0
    PROVE  \A run : run = 0 => MayReconcile(run)
<1>1. ActiveExecute(log) /\ LogShape
  BY CallingFacts DEF Stranded
<1>2. Readable(log) /\ ~log.removed
  BY <1>1 DEF LogShape, Readable, ActiveExecute
<1> QED BY <1>1, <1>2 DEF MayReconcile, RecoverAuthorityClaim, OpenProposalExplains, NotYet
LEMMA ReconcileLaunch ==
    ASSUME Calling, NEW c, NEW run, Reconcile(c, run), booted \/ run = 0
    PROVE  OneFault'
<1>s. snapshot'.pending => snapshot' = snapshot
  BY DEF Calling, NoSnapshot
<1>r. ret \in [Callers -> Result]
  BY DEF Calling, Inv, TypeInv, KernelOK, RetOK
<1>1. CASE ~MayReconcile(run) /\ booted
  BY <1>1, TurnedDownShape DEF Reconcile
<1>2. CASE ~MayReconcile(run) /\ ~booted
  <2>1. Return(c, Failed) /\ log' = log /\ lease' = lease /\ faults' = faults
    BY <1>2 DEF Reconcile, Reject
  <2>2. ~Failed.ok
    BY DEF Failed
  <2>3. op' = Idle /\ issued' = issued
    BY <2>1, <2>2, CallReturns
  <2>4. LogShape' /\ SameJudge
    BY <2>1, CallingFacts, SameShape DEF SameJudge
  <2>5. ClaimShape'
    BY <2>1, <2>3, <2>4, CallingFacts, ClaimsKept
  <2>6. ASSUME log.prop.handoff # 0, ~log.terminal PROVE Stranded'
    <3>1. Stranded
      BY <2>6, CallingFacts
    <3>2. Ahead
      BY <1>2, <2>6, <3>1, NotYetIsTaken DEF Stranded
    <3>3. Ahead'
      BY <1>s, <2>1, <2>3, <3>2 DEF Ahead
    <3> QED BY <2>1, <3>1, <3>3 DEF Stranded, ActiveExecute, Active
  <2>7. PropPhase'
    BY <2>1, <2>3, <2>6 DEF PropPhase, Idle
  <2> QED BY <2>3, <2>4, <2>5, <2>7, OverShape
<1>3. CASE MayReconcile(run)
  <2> DEFINE at == IF log.prop.handoff # 0 THEN "rollback" ELSE AfterRollback
  <2>1. /\ log' = log /\ lease' = lease /\ faults' = faults
        /\ ret' = [ret EXCEPT ![c] = NoResult]
        /\ op'.kind = "reconcile" /\ op'.pc = at
    BY <1>3 DEF Reconcile, Begin
  <2>2. LogShape' /\ ClaimShape' /\ issued' = issued
    BY <2>1, LaunchShape
  <2>3. HandoffPhase' /\ OtherPhase'
    BY <2>1 DEF HandoffPhase, OtherPhase, Handoffs, AfterRollback
  <2>4. ASSUME log.prop.handoff # 0 PROVE Stranded'
    <3>1. Stranded
      BY <1>3, <2>4, CallingFacts DEF MayReconcile, ActiveExecute, LogShape
    <3>2. ASSUME Ahead PROVE Ahead'
      BY <1>s, <2>1, <2>2, <3>2 DEF Ahead
    <3>3. ASSUME NotYet PROVE NotYet'
      <4>1. ret'["boot"] = ret["boot"] \/ ret'["boot"] = NoResult
        BY <1>r, <2>1, CallersAssumption
      <4>2. ~ret'["boot"].done
        BY <3>3, <4>1 DEF NotYet, NoResult
      <4> QED BY <2>1, <3>3, <4>2 DEF NotYet, Calling, Room, Total
    <3> QED BY <2>1, <3>1, <3>2, <3>3 DEF Stranded, ActiveExecute, Active
  <2>5. PropPhase'
    BY <2>1, <2>4 DEF PropPhase
  <2> QED BY <2>2, <2>3, <2>5 DEF OneFault
<1> QED BY <1>1, <1>2, <1>3

(* CancelTask reads a claim that does not hold a lease a proposal has moved. *)
LEMMA ReadShape ==
    ASSUME Inv, OneFault, Record, CancelRead
    PROVE  OneFault'
<1>1. /\ snapshot' = [pending |-> TRUE, claim |-> CancelClaim(log)] /\ op = Idle /\ op' = op
      /\ ret' = ret /\ log' = log /\ lease' = lease /\ faults' = faults
      /\ booted /\ booted' = booted
  BY DEF CancelRead, kernelVars
<1>2. issued' = issued
  BY <1>1, RecordNothing DEF Inv, AuthorityInv, Named
<1>3. LogShape' /\ SameJudge /\ LogShape
  BY <1>1, SameShape DEF OneFault, SameJudge
<1>4. ClaimShape'
  BY <1>1, <1>2, <1>3, ClaimsKept DEF OneFault
<1>5. ASSUME log.prop.handoff # 0, ~log.terminal PROVE Stranded'
  <2>1. Stranded /\ Ahead
    BY <1>1, <1>5 DEF OneFault, PropPhase, Stranded, NotYet, Idle, Handoffs
  <2>2. CancelClaim(log).fence \in {log.commit.fence, log.fence, log.run.fence}
    BY <1>3, <1>5 DEF LogShape, PropShape, CancelClaim
  <2>3. snapshot'.claim.fence < lease.fence
    BY <1>1, <1>3, <1>5, <2>1, <2>2 DEF LogShape, PropShape, Ahead
  <2>4. Ahead'
    BY <1>1, <1>2, <2>1, <2>3 DEF Ahead
  <2> QED BY <1>1, <2>1, <2>4 DEF Stranded, ActiveExecute, Active
<1>6. PropPhase'
  BY <1>1, <1>5 DEF PropPhase, Idle
<1> QED BY <1>1, <1>3, <1>4, <1>6, OverShape

(* The process has recovered and starts to serve. *)
LEMMA RecoveredShape ==
    ASSUME Inv, OneFault, Record, Recovered
    PROVE  OneFault'
<1>1. /\ log' = log /\ lease' = lease /\ op' = op /\ ret' = ret /\ faults' = faults
      /\ snapshot' = snapshot /\ booted' = TRUE /\ ret["boot"].done
  BY DEF Recovered, kernelVars
<1>2. issued' = issued
  BY <1>1, RecordNothing DEF Inv, AuthorityInv, Named
<1>3. LogShape' /\ SameJudge
  BY <1>1, SameShape DEF OneFault, SameJudge
<1>4. ClaimShape'
  BY <1>1, <1>2, <1>3, ClaimsKept DEF OneFault
<1>5. HandoffPhase' /\ OtherPhase'
  BY <1>1 DEF OneFault, HandoffPhase, OtherPhase, Proposed, Direction, Room, Total, Holds,
     Active, ActiveExecute
<1>6. Stranded => Stranded'
  BY <1>1, <1>2 DEF Stranded, Ahead, NotYet, ActiveExecute, Active
<1>7. PropPhase'
  BY <1>1, <1>6 DEF OneFault, PropPhase
<1> QED BY <1>3, <1>4, <1>5, <1>7 DEF OneFault

(* The process dies: what it leaves open, RecoverOrphans finds. *)
LEMMA CrashShape ==
    ASSUME Inv, OpRun, OneFault, Record, Crash, OneFaultOnly'
    PROVE  OneFault'
<1>1. /\ op' = Idle /\ snapshot' = NoSnapshot /\ booted' = FALSE /\ log' = log
      /\ lease' = lease /\ ret' = [c \in Callers |-> NoResult] /\ faults' = faults + 1
      /\ faults \in Nat
  BY DEF Crash, KernelCrash, Refused, Inv, TypeInv, KernelOK, BoundsOK
<1>2. \A c \in Callers : ~ret'[c].ok /\ ~ret'[c].done
  BY <1>1 DEF NoResult
<1>3. issued' = issued
  BY <1>2 DEF Record
<1>4. LogShape' /\ SameJudge
  BY <1>1, SameShape DEF OneFault, SameJudge
<1>5. ~snapshot'.pending
  BY <1>1 DEF NoSnapshot
<1>6. ClaimShape'
  BY <1>1, <1>3, <1>4, <1>5, ClaimsKept DEF OneFault
<1>7. faults = 0 /\ faults' = 1
  BY <1>1 DEF OneFaultOnly
<1>8. ASSUME log.prop.handoff # 0, ~log.terminal PROVE Stranded'
  <2>1. op.kind \in Handoffs
    BY <1>7, <1>8 DEF OneFault, PropPhase, Stranded
  <2>2. op.pc \in {"cas", "commit"}
    BY <1>7, <1>8, <2>1 DEF OneFault, HandoffPhase, OpRun, OpShape, Handoffs
  <2>3. /\ ActiveExecute(log) /\ Proposed /\ Room(2)
        /\ op.claim.owner # NoOwner /\ op.claim.fence > 0
        /\ op.pc = "cas" => Holds(op.claim)
    BY <1>8, <2>1, <2>2 DEF OneFault, HandoffPhase
  <2>4. /\ log.prop.from = op.claim.owner /\ log.prop.to = op.to
        /\ log.prop.next = op.claim.fence + 1
    BY <2>3 DEF Proposed
  <2>5. ActiveExecute(log')
    BY <1>1, <2>3
  <2>6. CASE op.pc = "commit"
    <3>1. lease.owner = op.to /\ lease.fence = op.claim.fence + 1 /\ Fresh
      BY <2>6 DEF Inv, AuthorityInv, OpFresh, Swapped
    <3>2. Ahead'
      BY <1>1, <1>3, <1>5, <2>4, <3>1 DEF Ahead, Fresh, Circulating
    <3> QED BY <1>7, <2>5, <3>2 DEF Stranded
  <2>7. CASE op.pc = "cas"
    <3>1. lease.owner = op.claim.owner /\ lease.fence = op.claim.fence
      BY <2>3, <2>7 DEF Holds
    <3>2. Room(1)'
      BY <1>1, <2>3, RoomFacts DEF Inv, TypeInv, KernelOK, Room, Total
    <3>3. ~ret'["boot"].done
      BY <1>2, CallersAssumption
    <3>4. NotYet'
      BY <1>1, <2>3, <2>4, <3>1, <3>2, <3>3 DEF NotYet
    <3> QED BY <1>7, <2>5, <3>4 DEF Stranded
  <2> QED BY <2>2, <2>6, <2>7
<1>9. PropPhase'
  BY <1>1, <1>8 DEF PropPhase, Idle
<1> QED BY <1>1, <1>4, <1>6, <1>9, OverShape

(* No step takes a fault back, and none but a call or a crash adds to them. *)
LEMMA OneFaultStep ==
    ASSUME Inv, OpRun, OneFault, [Next]_vars, OneFaultOnly'
    PROVE  OneFault'
<1>0. faults \in Nat
  BY DEF Inv, TypeInv, KernelOK, BoundsOK
<1>1. CASE ApiCall /\ Record
  <2>0. op = Idle /\ booted /\ booted' = booted /\ snapshot' = snapshot
    BY <1>1 DEF ApiCall, Create, StartRun, BeginExecute, CloseRun, Remove, AppendLifecycle,
       RecordProgress, InitialInput, TerminalExecute, BeginChildHandoff, TerminalChildHandoff,
       Reconcile
  <2>f. faults' \in {faults, faults + 1}
    BY <1>1, CallLoses DEF Counted
  <2>c. Calling
    BY <1>0, <1>1, <2>0, <2>f DEF Calling
  <2>p. \A k \in Presented : k = NoClaim \/ k \in issued
    BY DEF Presented
  <2>1. CASE \/ Create("api")
             \/ \E t \in {"RunCompleted", "RunFailed"} : CloseRun("api", t)
             \/ \E i, k : Remove("api", i, k)
             \/ \E t \in TaskTerminals : \E k : AppendLifecycle("api", t, k)
             \/ \E k : RecordProgress("api", k)
             \/ \E t \in InputEvents : \E k : InitialInput("api", t, k)
    BY <2>0, <2>1, <2>c, OnceShape
  <2>2. CASE \E p \in PrimaryOwners :
                \/ \E kind \in {"mark", "session"} : StartRun("api", kind, p)
                \/ BeginExecute("api", p)
    BY <2>0, <2>2, <2>c, StartedShape, BeginLaunch
  <2>3. CASE \E k \in Presented :
                \/ \E t \in RunTerminals : TerminalExecute("api", k, t)
                \/ BeginChildHandoff("api", k)
                \/ \E t \in ChildTerminals : \E p \in PrimaryOwners :
                      TerminalChildHandoff("api", k, p, t)
                \/ Reconcile("api", k.run)
    BY <2>0, <2>3, <2>c, <2>p, EndLaunch, DelegateLaunch, ReturnLaunch, ReconcileLaunch
  <2> QED BY <1>1, <2>1, <2>2, <2>3 DEF ApiCall, TaskTerminals
<1>2. CASE CancelRead /\ Record
  BY <1>2, ReadShape
<1>3. CASE CancelWrite /\ Record
  <2>1. /\ snapshot.pending /\ snapshot' = NoSnapshot /\ booted' = booted
        /\ TerminalExecute("cancel", snapshot.claim, "RunCancelled")
    BY <1>3 DEF CancelWrite
  <2>2. op = Idle /\ faults' = faults
    BY <2>1 DEF TerminalExecute, Reject
  <2>3. Calling
    BY <1>0, <1>3, <2>1, <2>2 DEF Calling
  <2>4. booted
    BY <2>1 DEF OneFault, ClaimShape
  <2> QED BY <2>1, <2>3, <2>4, EndLaunch
<1>4. CASE CancelLifecycle /\ Record
  <2>1. booted /\ booted' = booted /\ snapshot' = snapshot
        /\ \E k \in Presented : AppendLifecycle("cancel", "TaskCancelled", k)
    BY <1>4 DEF CancelLifecycle
  <2>2. op = Idle /\ faults' \in {faults, faults + 1}
    BY <2>1 DEF AppendLifecycle, AppendCall, TryAppend, Reject, Refused
  <2>3. Calling
    BY <1>0, <1>4, <2>1, <2>2 DEF Calling
  <2> QED BY <2>1, <2>3, OnceShape DEF TaskTerminals
<1>5. CASE Crash /\ Record
  BY <1>5, CrashShape
<1>6. CASE Work /\ Record
  BY <1>0, <1>6, ProgramShape DEF Work, Working
<1>7. CASE RecoverOrphans /\ Record
  <2>1. Reconcile("boot", 0) /\ booted' = booted /\ snapshot' = snapshot
    BY <1>7 DEF RecoverOrphans
  <2>2. op = Idle /\ faults' = faults
    BY <2>1 DEF Reconcile, Reject
  <2>3. Calling
    BY <1>0, <1>7, <2>1, <2>2 DEF Calling
  <2> QED BY <2>1, <2>3, ReconcileLaunch
<1>8. CASE Recovered /\ Record
  BY <1>8, RecoveredShape
<1>9. CASE UNCHANGED vars
  BY <1>9 DEF vars, kernelVars, OneFault, LogShape, ChildShape, PropShape, ClaimShape,
     HandoffPhase, OtherPhase, PropPhase, Stranded, Ahead, NotYet, Proposed, Direction, Room,
     Total, Holds, Active, ActiveExecute
<1> QED BY <1>1, <1>2, <1>3, <1>4, <1>5, <1>6, <1>7, <1>8, <1>9 DEF Next, Progress, Requests

(* Beyond that the invariant says nothing. *)
OneFaultInv == OneFaultOnly => OneFault

LEMMA OneFaultInvariant == Spec => [](Inv /\ OpRun /\ OneFaultInv)
<1>1. Init => OneFaultInv /\ OpRun
  BY DEF Init, KernelInit, EmptyLog, NoRun, NoChild, NoProp, NoCheck, NoClaim, Idle, OpRun,
     OpShape, NoSnapshot, OneFaultInv, OneFault, LogShape, ChildShape, PropShape, ClaimShape,
     HandoffPhase, OtherPhase, PropPhase, Handoffs, Active, ActiveExecute, Total
<1>2. Inv /\ OpRun /\ OneFaultInv /\ [Next]_vars => OneFaultInv' /\ OpRun'
  <2> SUFFICES ASSUME Inv, OpRun, OneFaultInv, [Next]_vars PROVE OneFaultInv' /\ OpRun'
    OBVIOUS
  <2>1. OpRun'
    BY SequenceStep DEF Inv, TypeInv
  <2>2. OneFaultOnly' => OneFaultOnly
    BY FaultsGrow DEF OneFaultOnly
  <2>3. ASSUME OneFaultOnly' PROVE OneFault'
    <3>1. OneFaultOnly
      BY <2>2, <2>3
    <3>2. OneFault
      BY <3>1 DEF OneFaultInv
    <3> QED BY <2>3, <3>2, OneFaultStep
  <2> QED BY <2>1, <2>3 DEF OneFaultInv
<1> QED BY <1>1, <1>2, AuthorityInvariant, PTL DEF Spec

(***************************************************************************)
(* Whatever calls are made in whatever order, and wherever the one write   *)
(* is refused, the one sync fails or the one process dies, the kernel has  *)
(* only written events that validateHandoffFenceProgression accepts: the   *)
(* task can be read, unless that one sync is of a HandoffProposed.         *)
(***************************************************************************)
THEOREM LogStaysReadableUnderOneFault == Spec => [](faults <= 1 => LogStaysReadable)
<1>1. OneFaultInv => (faults <= 1 => LogStaysReadable)
  BY DEF OneFaultInv, OneFaultOnly, OneFault, LogShape, LogStaysReadable
<1> QED BY <1>1, OneFaultInvariant, PTL
-----------------------------------------------------------------------------
(***************************************************************************)
(* What recoverAuthorityClaim has to go by.  The lease of an active run is *)
(* explained by the log, except while reconcile, which holds Repo.mu, has  *)
(* closed the proposal that explained it; what it has yet to write fits,   *)
(* and the one fault was spent on leaving that proposal open.              *)
(*                                                                         *)
(* The marks of the initial input ask for no claim, so they can use up the *)
(* log while a proposal is open, until reconcile writes its rollback in    *)
(* the last place and has none for the RunInterrupted after it: where they *)
(* are used, a full log is left out.                                       *)
(***************************************************************************)
Kept(n) == "input" \notin Ops => Room(n)

Clean ==
    /\ OneFaultOnly
    /\ unsynced \cap {"RunStarted", "CommitHandoffFrom"} = {}
    /\ "input" \in Ops => Room(1)

Explained ==
    \/ log.commit.owner = lease.owner /\ log.commit.fence = lease.fence
    \/ log.run.owner = lease.owner /\ log.run.fence = lease.fence
    \/ log.prop.handoff # 0 /\ lease.owner = log.prop.to /\ lease.fence = log.prop.next

Interrupting == op.kind = "reconcile" /\ op.pc = "interrupt"

Recoverable ==
    ActiveExecute(log) =>
        /\ lease.owner # NoOwner /\ lease.fence > 0
        /\ Explained \/ (Interrupting /\ faults = 1 /\ Kept(1))
        /\ log.prop.handoff # 0 => Kept(2)

(* Nor has a write that failed been made, where the kernel counts on that. *)
Undone ==
    /\ op.pc = "cas_failed" => Holds(op.claim)
    /\ op.pc = "abandon" => ~ActiveExecute(log)

LEMMA RecoverableSuffices ==
    ASSUME OneFault, Recoverable
    PROVE  HalfCommitsRecoverable
  BY DEF Recoverable, Explained, Interrupting, Idle, HalfCommitsRecoverable,
     RecoverAuthorityClaim, OpenProposalExplains

(* The run is not active, or nothing the lease is explained by changes. *)
LEMMA DeadRecovers ==
    ASSUME ~ActiveExecute(log')
    PROVE  Recoverable'
  BY DEF Recoverable

SameAuthority ==
    /\ log'.run = log.run /\ log'.state = log.state
    /\ log'.commit = log.commit /\ log'.prop = log.prop
    /\ lease' = lease

LEMMA SameRecovers ==
    ASSUME Recoverable, SameAuthority, ~Interrupting,
           log' = log \/ log.prop.handoff = 0 \/ "input" \in Ops
    PROVE  Recoverable'
<1>1. CASE ~ActiveExecute(log)
  BY <1>1 DEF SameAuthority, ActiveExecute, Active, Recoverable
<1>2. CASE ActiveExecute(log)
  <2>1. Explained'
    BY <1>2 DEF Recoverable, Explained, SameAuthority
  <2>2. log'.prop.handoff # 0 => Kept(2)'
    BY <1>2 DEF Recoverable, SameAuthority, Kept, Room, Total
  <2> QED BY <1>2, <2>1, <2>2 DEF Recoverable, SameAuthority
<1> QED BY <1>1, <1>2

LEMMA StillRecovers ==
    ASSUME Recoverable, log' = log, lease' = lease, ~Interrupting
    PROVE  Recoverable'
  BY SameRecovers DEF SameAuthority

(* A released lease is that of a run that has ended. *)
LEMMA ReleasedRecovers ==
    ASSUME Working, Undone, op.pc \in {"release", "started", "abandon"}, log' = log
    PROVE  Recoverable'
<1>1. ~ActiveExecute(log)
  <2>1. CASE op.pc \in {"started", "abandon"}
    BY <2>1 DEF Working, OpRun, Undone, ActiveExecute
  <2>2. CASE op.pc = "release"
    BY <2>2 DEF Working, OpRun, Inv, AuthorityInv, Named, ActiveExecute
  <2> QED BY <2>1, <2>2
<1> QED BY <1>1, DeadRecovers DEF ActiveExecute, Active

LEMMA StartRecovers ==
    ASSUME Working, Undone, Recoverable, RunStarted
    PROVE  Recoverable'
<1> DEFINE e == RunEvent("RunStarted", "execute", op.claim.run, op.claim.owner,
                         op.claim.fence)
<1>0. /\ log.prop.handoff = 0 /\ log.child.id = 0 /\ ~Active(log) /\ ~log.terminal
      /\ op.claim.owner # NoOwner /\ op.claim.fence > 0 /\ LogShape /\ log \in Log
  BY WorkingFacts DEF RunStarted, Step, OtherPhase, Working, OpRun
<1>1. /\ op.kind = "begin" /\ op.pc = "started" /\ lease' = lease
      /\ log' = AppendEvent(log, e) \/ log' = log
  BY DEF RunStarted, TryAppend, Step
<1>2. /\ e.type = "RunStarted" /\ e.kind = "execute" /\ e.owner = op.claim.owner
      /\ e.fence = op.claim.fence
  BY DEF RunEvent
<1> HIDE DEF e
<1>3. CASE log' = log
  BY <1>1, <1>3, ReleasedRecovers
<1>4. CASE log' = AppendEvent(log, e)
  <2>1. /\ log'.prop = log.prop
        /\ log'.run = [kind |-> e.kind, id |-> e.run, owner |-> e.owner, fence |-> e.fence]
    BY <1>0, <1>2, <1>4, StartShape
  <2>2. op.claim.owner = lease.owner /\ op.claim.fence = lease.fence
    BY <1>1 DEF Working, Inv, AuthorityInv, OpFresh, Holds
  <2>3. Explained'
    BY <1>1, <1>2, <2>1, <2>2 DEF Explained
  <2> QED BY <1>0, <1>1, <2>1, <2>2, <2>3 DEF Recoverable
<1> QED BY <1>1, <1>3, <1>4

(* The steps that close a child, or the run. *)
LEMMA EndingRecovers ==
    ASSUME Working, Recoverable, EndChild \/ EndRun \/ ReturnChild \/ ReconcileChild
    PROVE  Recoverable'
<1>0. LogShape /\ log \in Log /\ OtherPhase /\ OpOK /\ HandoffPhase
  BY WorkingFacts
<1>1. ASSUME NEW e, e.type \in ChildTerminals, e.handoff = log.child.id, log.child.id # 0,
             log.prop.handoff = 0, log' = log \/ log' = AppendEvent(log, e),
             lease' = lease, ~Interrupting
      PROVE  Recoverable'
  <2>1. CASE log' = log
    BY <1>1, <2>1, StillRecovers
  <2>2. CASE log' = AppendEvent(log, e)
    <3>1. SameTask(log, log') /\ log'.prop = log.prop /\ log'.commit = log.commit
      BY <1>0, <1>1, <2>2, ChildEndShape
    <3> QED BY <1>1, <3>1, SameRecovers DEF SameAuthority, SameTask
  <2> QED BY <1>1, <2>1, <2>2
<1>2. CASE EndChild
  <2> DEFINE e == ChildEvent(ChildTerminalFor[op.type], log.child, op.claim.owner,
                             op.claim.fence)
  <2>1. /\ op.kind = "end" /\ op.pc = "child" /\ lease' = lease
        /\ log' = AppendEvent(log, e) \/ log' = log
    BY <1>2 DEF EndChild, Step, TryAppend
  <2>2. e.type \in ChildTerminals /\ e.handoff = log.child.id
    BY <1>0, <2>1 DEF OpOK, ChildEvent, ChildTerminalFor, RunTerminals, ChildTerminals
  <2> HIDE DEF e
  <2>3. log.prop.handoff = 0 /\ log.child.id # 0 /\ ~Interrupting
    BY <1>0, <2>1 DEF OtherPhase, Interrupting
  <2> QED BY <1>1, <2>1, <2>2, <2>3
<1>3. CASE ReturnChild
  <2> DEFINE e == ChildEvent(op.type, log.child, log.child.owner, log.child.fence)
  <2>1. /\ op.kind = "to_parent" /\ op.pc = "child" /\ lease' = lease
        /\ log' = AppendEvent(log, e) \/ log' = log
    BY <1>3 DEF ReturnChild, Step, TryAppend
  <2>2. e.type \in ChildTerminals /\ e.handoff = log.child.id
    BY <1>0, <2>1 DEF OpOK, ChildEvent
  <2> HIDE DEF e
  <2>3. log.prop.handoff = 0 /\ log.child.id # 0 /\ ~Interrupting
    BY <1>0, <2>1 DEF HandoffPhase, Handoffs, Interrupting
  <2> QED BY <1>1, <2>1, <2>2, <2>3
<1>4. CASE ReconcileChild
  <2> DEFINE e == ChildEvent("ChildRunInterrupted", log.child, log.child.owner,
                             log.child.fence)
  <2>1. /\ op.kind = "reconcile" /\ op.pc = "child_interrupt" /\ lease' = lease
        /\ log' = AppendEvent(log, e) \/ log' = log
    BY <1>4 DEF ReconcileChild, Step, TryAppend
  <2>2. e.type \in ChildTerminals /\ e.handoff = log.child.id
    BY DEF ChildEvent, ChildTerminals
  <2> HIDE DEF e
  <2>3. log.prop.handoff = 0 /\ log.child.id # 0 /\ ~Interrupting
    BY <1>0, <2>1 DEF OtherPhase, Interrupting
  <2> QED BY <1>1, <2>1, <2>2, <2>3
<1>5. CASE EndRun
  <2> DEFINE e == RunEvent(op.type, "execute", op.claim.run, op.claim.owner, op.claim.fence)
  <2>1. /\ op.kind = "end" /\ op.pc = "terminal" /\ lease' = lease
        /\ log' = AppendEvent(log, e) \/ log' = log
    BY <1>5 DEF EndRun, Step, TryAppend
  <2>2. e.type \in RunTerminals
    BY <1>0, <2>1 DEF OpOK, RunEvent
  <2> HIDE DEF e
  <2>3. CASE log' = log
    BY <2>1, <2>3, StillRecovers DEF Interrupting
  <2>4. CASE log' = AppendEvent(log, e)
    <3>1. log'.state # "running"
      BY <1>0, <2>2, <2>4, EndFolds
    <3> QED BY <3>1, DeadRecovers DEF ActiveExecute, Active
  <2> QED BY <2>1, <2>3, <2>4
<1> QED BY <1>2, <1>3, <1>4, <1>5

LEMMA ReconcilingRecovers ==
    ASSUME Working, Clean', Recoverable, ReconcileRollback \/ ReconcileRun
    PROVE  Recoverable'
<1>0. LogShape /\ log \in Log /\ OtherPhase /\ OpOK /\ PropPhase
  BY WorkingFacts
<1>1. CASE ReconcileRollback
  <2> DEFINE e == HandoffEvent("HandoffRolledBack", "none", op.claim.run,
                               log.prop.handoff, NoOwner, NoOwner, op.claim.fence)
  <2>1. /\ op.kind = "reconcile" /\ op.pc = "rollback" /\ lease' = lease
        /\ \/ log' = AppendEvent(log, e) /\ faults' = faults /\ Goto(AfterRollback)
           \/ log' = log
           \/ faults' = faults + 1
    BY <1>1 DEF ReconcileRollback, Step, TryAppend, Refused
  <2>2. e.type = "HandoffRolledBack" /\ e.handoff = log.prop.handoff
    BY DEF HandoffEvent
  <2> HIDE DEF e
  <2>3. CASE log' = log
    BY <2>1, <2>3, StillRecovers DEF Interrupting
  <2>s. log.prop.handoff # 0 /\ Stranded /\ log.child.id = 0
    BY <1>0, <2>1 DEF OtherPhase, PropPhase, Handoffs, LogShape, PropShape
  <2>f. faults' # faults + 1
    BY <2>s, WorkingFacts DEF Stranded
  <2>4. CASE log' = AppendEvent(log, e) /\ faults' = faults /\ Goto(AfterRollback)
    <3>1. log.prop.handoff # 0 /\ Stranded /\ log.child.id = 0
      BY <2>s
    <3>2. Goto("interrupt")
      BY <2>4, <3>1 DEF AfterRollback
    <3>3. Interrupting'
      BY <2>1, <3>2, GoesOnShape DEF Interrupting
    <3>4. faults' = 1
      BY <2>4, <3>1 DEF Stranded
    <3>5. Kept(1)' /\ lease.owner # NoOwner /\ lease.fence > 0
      BY <1>0, <2>4, <3>1, RoomShrinks DEF Recoverable, Stranded, Kept
    <3>6. log'.prop.handoff = 0
      BY <1>0, <2>2, <2>4, CloseShape
    <3> QED BY <2>1, <3>3, <3>4, <3>5, <3>6 DEF Recoverable
  <2> QED BY <2>1, <2>3, <2>4, <2>f
<1>2. CASE ReconcileRun
  <2> DEFINE e == RunEvent("RunInterrupted", "execute", op.claim.run, op.claim.owner,
                           op.claim.fence)
  <2>1. e.type = "RunInterrupted"
    BY DEF RunEvent
  <2>2. /\ op.kind = "reconcile" /\ op.pc = "interrupt" /\ lease' = lease
        /\ \/ log' = AppendEvent(log, e)
           \/ log' = log /\ ~Admits(log, "RunInterrupted")
           \/ log' = log /\ faults' = faults + 1
    BY <1>2, <2>1 DEF ReconcileRun, Step, TryAppend, Refused
  <2> HIDE DEF e
  <2>3. CASE log' = AppendEvent(log, e)
    <3>1. log'.state # "running"
      BY <1>0, <2>1, <2>3, EndFolds DEF RunTerminals
    <3> QED BY <3>1, DeadRecovers DEF ActiveExecute, Active
  <2>4. CASE log' = log
    <3>1. ASSUME faults = 1, Kept(1) PROVE FALSE
      <4>r. Room(1)
        BY <2>4, <3>1 DEF Clean, Kept, Room, Total
      <4>1. Admits(log, "RunInterrupted")
        BY <1>0, <4>r, RoomFacts DEF ControlEvents, RunTerminals
      <4>2. Total(log) \in Nat /\ Total(AppendEvent(log, e)) = Total(log) + 1
        BY <1>0, OneMore
      <4> QED BY <2>2, <2>4, <3>1, <4>1, <4>2, WorkingFacts
    <3>2. log.prop.handoff = 0
      BY <1>0, <2>2 DEF OtherPhase
    <3> QED BY <2>2, <2>4, <3>1, <3>2
            DEF Recoverable, Explained, Interrupting, ActiveExecute, Active
  <2> QED BY <2>2, <2>3, <2>4
<1> QED BY <1>1, <1>2

(* The steps of a handoff: the lease is explained by what it held before   *)
(* the compare-and-swap, by the open proposal after it, then by the commit. *)
LEMMA HandoffRecovers ==
    ASSUME Working, Clean', Undone, Recoverable,
           ProposeHandoff \/ CommitHandoffFrom \/ HandoffFailed \/ HandoffCommitted
             \/ ChildRunStarted
    PROVE  Recoverable'
<1>0. LogShape /\ log \in Log /\ HandoffPhase /\ lease.fence \in Nat
  BY WorkingFacts
<1>i. op.kind \in Handoffs /\ ~Interrupting
  <2>1. op.pc \in Transferring \/ op.kind \in Handoffs
    BY DEF ProposeHandoff, CommitHandoffFrom, HandoffFailed, HandoffCommitted, ChildRunStarted,
       Handoffs, Transferring, Swapped
  <2> QED BY <2>1, HandoffFacts2 DEF Interrupting, Handoffs
<1>1. CASE ProposeHandoff
  <2> DEFINE e == Transfer("HandoffProposed", Direction)
  <2>1. /\ op.pc = "propose" /\ lease' = lease
        /\ log' = AppendEvent(log, e) \/ log' = log
    BY <1>1 DEF ProposeHandoff, TryAppend
  <2>2. e.type = "HandoffProposed"
    BY DEF Transfer, HandoffEvent
  <2> HIDE DEF e
  <2>3. CASE log' = log
    BY <1>i, <2>1, <2>3, StillRecovers
  <2>4. CASE log' = AppendEvent(log, e)
    <3>1. log.prop.handoff = 0 /\ Room(3)
      BY <1>0, <1>i, <2>1 DEF HandoffPhase
    <3>2. SameTask(log, log') /\ log'.commit = log.commit
      BY <1>0, <2>2, <2>4, ProposeFolds
    <3>3. Kept(2)'
      BY <1>0, <2>4, <3>1, RoomShrinks DEF Kept
    <3> QED BY <1>i, <2>1, <3>1, <3>2, <3>3
            DEF Recoverable, Explained, SameTask, ActiveExecute, Active
  <2> QED BY <2>1, <2>3, <2>4
<1>2. CASE CommitHandoffFrom
  <2>1. /\ op.pc = "cas" /\ log' = log
        /\ lease' = lease \/ lease' = [owner |-> op.to, fence |-> lease.fence + 1]
    BY <1>2 DEF CommitHandoffFrom, TryLease
  <2>2. CASE lease' = lease
    BY <1>i, <2>1, <2>2, StillRecovers
  <2>3. CASE lease' = [owner |-> op.to, fence |-> lease.fence + 1]
    <3>1. /\ Proposed /\ Room(2) /\ Holds(op.claim) /\ op.handoff # 0 /\ op.to # NoOwner
      BY <1>0, <1>i, <2>1 DEF HandoffPhase
    <3>2. /\ log.prop.handoff = op.handoff /\ log.prop.to = op.to
          /\ log.prop.next = lease.fence + 1
      BY <3>1 DEF Proposed, Holds
    <3>3. Explained'
      BY <2>1, <2>3, <3>1, <3>2 DEF Explained
    <3>4. Kept(2)'
      BY <2>1, <3>1 DEF Kept, Room, Total
    <3> QED BY <1>0, <2>3, <3>1, <3>3, <3>4 DEF Recoverable
  <2> QED BY <2>1, <2>2, <2>3
<1>3. CASE HandoffFailed
  <2> DEFINE e == Transfer("HandoffFailed", Direction)
  <2>1. /\ op.pc \in {"cas_failed", "child_start_failed"} /\ lease' = lease
        /\ log' = AppendEvent(log, e) \/ log' = log
    BY <1>3 DEF HandoffFailed, TryAppend
  <2>2. e.type = "HandoffFailed" /\ e.handoff = op.handoff
    BY DEF Transfer, HandoffEvent
  <2> HIDE DEF e
  <2>3. CASE log' = log
    BY <1>i, <2>1, <2>3, StillRecovers
  <2>4. CASE log' = AppendEvent(log, e)
    <3>1. log.prop.handoff # 0 =>
              e.handoff = log.prop.handoff /\ lease.fence # log.prop.next
      <4>1. CASE op.pc = "child_start_failed"
        BY <1>0, <1>i, <4>1 DEF HandoffPhase
      <4>2. CASE op.pc = "cas_failed"
        BY <1>0, <1>i, <2>2, <4>2 DEF HandoffPhase, Proposed, Holds, Undone
      <4> QED BY <2>1, <4>1, <4>2
    <3>2. SameTask(log, log') /\ log'.prop.handoff = 0 /\ log'.commit = log.commit
      BY <1>0, <2>2, <2>4, <3>1, CloseShape
    <3> QED BY <1>i, <2>1, <3>1, <3>2
            DEF Recoverable, Explained, SameTask, ActiveExecute, Active
  <2> QED BY <2>1, <2>3, <2>4
<1>4. CASE HandoffCommitted
  <2> DEFINE e == Transfer("HandoffCommitted", Direction)
  <2>1. /\ op.pc = "commit" /\ lease' = lease
        /\ log' = AppendEvent(log, e) \/ log' = log
    BY <1>4 DEF HandoffCommitted, TryAppend
  <2>2. /\ e.type = "HandoffCommitted" /\ e.handoff = op.handoff
        /\ e.owner = op.to /\ e.fence = op.claim.fence + 1
    BY DEF Transfer, HandoffEvent
  <2> HIDE DEF e
  <2>3. CASE log' = log
    BY <1>i, <2>1, <2>3, StillRecovers
  <2>4. CASE log' = AppendEvent(log, e)
    <3>1. log.prop.handoff = e.handoff
      BY <1>0, <1>i, <2>1, <2>2 DEF HandoffPhase, Proposed
    <3>2. /\ log'.prop = NoProp
          /\ log'.commit = [run |-> e.run, owner |-> e.owner, fence |-> e.fence]
      BY <1>0, <2>2, <2>4, <3>1, CommitFolds
    <3>3. lease.owner = op.to /\ lease.fence = op.claim.fence + 1
      BY <2>1 DEF Working, Inv, AuthorityInv, OpFresh, Swapped
    <3>4. Explained' /\ log'.prop.handoff = 0
      BY <2>1, <2>2, <3>2, <3>3 DEF Explained, NoProp
    <3>5. lease.owner # NoOwner /\ lease.fence > 0
      BY <1>i, <3>3, HandoffFacts2
    <3> QED BY <2>1, <3>4, <3>5 DEF Recoverable
  <2> QED BY <2>1, <2>3, <2>4
<1>5. CASE ChildRunStarted
  <2> DEFINE e == HandoffEvent("ChildRunStarted", "none", op.claim.run, op.handoff,
                               NoOwner, op.to, op.claim.fence + 1)
  <2>1. /\ op.pc = "child_start" /\ lease' = lease
        /\ log' = AppendEvent(log, e) \/ log' = log
    BY <1>5 DEF ChildRunStarted, TryAppend
  <2>2. e.type = "ChildRunStarted"
    BY DEF HandoffEvent
  <2> HIDE DEF e
  <2>3. CASE log' = log
    BY <1>i, <2>1, <2>3, StillRecovers
  <2>4. CASE log' = AppendEvent(log, e)
    <3>1. SameTask(log, log') /\ log'.prop = log.prop /\ log'.commit = log.commit
      BY <1>0, <2>2, <2>4, ChildStartFolds
    <3>2. log.prop.handoff = 0
      BY <1>0, <1>i, <2>1 DEF HandoffPhase
    <3> QED BY <1>i, <2>1, <3>1, <3>2, SameRecovers DEF SameAuthority, SameTask
  <2> QED BY <2>1, <2>3, <2>4
<1> QED BY <1>1, <1>2, <1>3, <1>4, <1>5

LEMMA ProgramRecovers ==
    ASSUME Working, Clean', Undone, Recoverable, KernelStep
    PROVE  Recoverable'
<1>1. CASE AbandonBegin \/ EndRelease
  BY <1>1, ReleasedRecovers DEF AbandonBegin, EndRelease, Step
<1>2. CASE RunStarted
  BY <1>2, StartRecovers
<1> QED BY <1>1, <1>2, EndingRecovers, ReconcilingRecovers, HandoffRecovers DEF KernelStep
(* The calls find no operation under way, so that the lease is explained.  *)
LEMMA AppendRecovers ==
    ASSUME Calling, Recoverable, NEW c, NEW e, AppendCall(c, e),
           \/ /\ e.type \in QuietTypes
              /\ ActiveExecute(log) => log.prop.handoff = 0 \/ "input" \in Ops
           \/ e.type \in RunTerminals
           \/ e.type = "RunStarted" /\ e.kind # "execute"
    PROVE  Recoverable'
<1>0. log \in Log /\ LogShape /\ ~Interrupting
  BY CallingFacts DEF Calling, Interrupting, Idle
<1>1. lease' = lease /\ (log' = AppendEvent(log, e) \/ log' = log)
  BY DEF AppendCall, TryAppend
<1>2. CASE log' = log
  BY <1>0, <1>1, <1>2, StillRecovers
<1>3. CASE log' = AppendEvent(log, e) /\ e.type \in QuietTypes
  <2>1. /\ log'.run = log.run /\ log'.state = log.state
        /\ log'.commit = log.commit /\ log'.prop = log.prop
    BY <1>0, <1>3, QuietFolds DEF SameHandoffs
  <2>2. CASE ActiveExecute(log)
    <3>1. SameAuthority
      BY <1>1, <2>1 DEF SameAuthority
    <3>2. log.prop.handoff = 0 \/ "input" \in Ops
      BY <1>3, <2>2 DEF QuietTypes, TaskTerminals, InputEvents, RunTerminals
    <3> QED BY <1>0, <3>1, <3>2, SameRecovers
  <2>3. CASE ~ActiveExecute(log)
    BY <2>1, <2>3, DeadRecovers DEF ActiveExecute, Active
  <2> QED BY <2>2, <2>3
<1>4. CASE log' = AppendEvent(log, e) /\ e.type \in RunTerminals
  <2>1. log'.state # "running"
    BY <1>0, <1>4, EndFolds
  <2> QED BY <2>1, DeadRecovers DEF ActiveExecute, Active
<1>5. CASE log' = AppendEvent(log, e) /\ e.type = "RunStarted" /\ e.kind # "execute"
  <2>1. log'.run.kind # "execute"
    <3>1. log'.run = [kind |-> e.kind, id |-> e.run, owner |-> e.owner, fence |-> e.fence]
      BY <1>0, <1>5, StartFolds
    <3> QED BY <1>5, <3>1
  <2> QED BY <2>1, DeadRecovers DEF ActiveExecute
<1> QED BY <1>1, <1>2, <1>3, <1>4, <1>5 DEF QuietTypes, TaskTerminals, InputEvents, RunTerminals

LEMMA KeptRecovers ==
    ASSUME Calling, Recoverable, log' = log, lease' = lease
    PROVE  Recoverable'
  BY StillRecovers DEF Calling, Interrupting, Idle

LEMMA OnceRecovers ==
    ASSUME Calling, booted, Recoverable, NEW c,
           \/ Create(c)
           \/ \E t \in {"RunCompleted", "RunFailed"} : CloseRun(c, t)
           \/ \E i, k : Remove(c, i, k)
           \/ \E t \in TaskTerminals : \E k : AppendLifecycle(c, t, k)
           \/ \E k \in Presented : RecordProgress(c, k)
           \/ "input" \in Ops /\ \E t \in InputEvents : \E k : InitialInput(c, t, k)
           \/ \E kind \in {"mark", "session"} : \E p : StartRun(c, kind, p)
    PROVE  Recoverable'
<1>0. \A t : Plain(t).type = t
  BY DEF Plain
<1>k. ASSUME Reject(c) \/ Already(c) PROVE Recoverable'
  BY <1>k, KeptRecovers DEF Reject, Already
<1>a. LogShape
  BY CallingFacts
<1>1. CASE Create(c)
  <2>1. AppendCall(c, Plain("TaskCreated")) /\ ~ActiveExecute(log)
    BY <1>1, <1>a DEF Create, LogShape, ActiveExecute
  <2>2. Plain("TaskCreated").type \in QuietTypes
    BY <1>0 DEF QuietTypes
  <2> QED BY <2>1, <2>2, AppendRecovers
<1>2. CASE \E t \in {"RunCompleted", "RunFailed"} : CloseRun(c, t)
  <2>1. PICK t \in {"RunCompleted", "RunFailed"} : CloseRun(c, t)
    BY <1>2
  <2>2. AppendCall(c, Plain(t)) \/ Reject(c)
    BY <2>1 DEF CloseRun
  <2>3. Plain(t).type \in RunTerminals
    BY <1>0, <2>1 DEF RunTerminals
  <2> QED BY <1>k, <2>2, <2>3, AppendRecovers
<1>3. CASE \E i, k : Remove(c, i, k)
  <2>1. \/ Reject(c) \/ Already(c)
        \/ AppendCall(c, Plain("TaskRemoved")) /\ ~ActiveExecute(log)
    BY <1>3 DEF Remove, ActiveExecute
  <2>2. Plain("TaskRemoved").type \in QuietTypes
    BY <1>0 DEF QuietTypes, TaskTerminals
  <2> QED BY <1>k, <2>1, <2>2, AppendRecovers
<1>4. CASE \E t \in TaskTerminals : \E k : AppendLifecycle(c, t, k)
  <2>1. PICK t \in TaskTerminals : \E k : AppendLifecycle(c, t, k)
    BY <1>4
  <2>2. Reject(c) \/ (AppendCall(c, Plain(t)) /\ ~ActiveExecute(log))
    BY <2>1 DEF AppendLifecycle, CanStart, ActiveExecute
  <2>3. Plain(t).type \in QuietTypes
    BY <1>0, <2>1 DEF QuietTypes
  <2> QED BY <1>k, <2>2, <2>3, AppendRecovers
<1>5. CASE \E k \in Presented : RecordProgress(c, k)
  <2>1. PICK k \in Presented : RecordProgress(c, k)
    BY <1>5
  <2> DEFINE e == RunEvent("RunProgress", "none", k.run, k.owner, k.fence)
  <2>2. Reject(c) \/ (AppendCall(c, e) /\ Holds(k) /\ Active(log))
    BY <2>1 DEF RecordProgress
  <2>3. e.type \in QuietTypes
    BY DEF RunEvent, QuietTypes
  <2> HIDE DEF e
  <2>4. Holds(k) /\ Active(log) => log.prop.handoff = 0
    BY <1>a, <2>1, HeldNoProposal DEF Presented, LogShape
  <2> QED BY <1>k, <2>2, <2>3, <2>4, AppendRecovers
<1>6. CASE \E kind \in {"mark", "session"} : \E p : StartRun(c, kind, p)
  <2>1. PICK kind \in {"mark", "session"} : \E p : StartRun(c, kind, p)
    BY <1>6
  <2>2. PICK p : StartRun(c, kind, p)
    BY <2>1
  <2> DEFINE e == RunEvent("RunStarted", kind, 0, Primary(p), 0)
  <2>3. Reject(c) \/ AppendCall(c, e)
    BY <2>2 DEF StartRun
  <2>4. e.type = "RunStarted" /\ e.kind # "execute"
    BY <2>1 DEF RunEvent
  <2> HIDE DEF e
  <2> QED BY <1>k, <2>3, <2>4, AppendRecovers
<1>7. CASE "input" \in Ops /\ \E t \in InputEvents : \E k : InitialInput(c, t, k)
  <2>1. PICK t \in InputEvents : \E k : InitialInput(c, t, k)
    BY <1>7
  <2>2. Reject(c) \/ Already(c) \/ AppendCall(c, Plain(t))
    BY <2>1 DEF InitialInput
  <2>3. Plain(t).type \in QuietTypes
    BY <1>0, <2>1 DEF QuietTypes, InputEvents
  <2> QED BY <1>7, <1>k, <2>2, <2>3, AppendRecovers
<1> QED BY <1>1, <1>2, <1>3, <1>4, <1>5, <1>6, <1>7

LEMMA LaunchRecovers ==
    ASSUME Calling, Recoverable, NEW c,
           \/ \E p : BeginExecute(c, p)
           \/ \E k, t : TerminalExecute(c, k, t)
           \/ \E k : BeginChildHandoff(c, k)
           \/ \E k, p, t : TerminalChildHandoff(c, k, p, t)
           \/ \E run : Reconcile(c, run)
    PROVE  Recoverable'
<1>1. CASE \E p : BeginExecute(c, p)
  <2>1. (log' = log /\ lease' = lease) \/ (log' = log /\ ~Active(log))
    BY <1>1 DEF BeginExecute, CanStart, Reject
  <2> QED BY <2>1, KeptRecovers, DeadRecovers DEF ActiveExecute
<1>2. CASE ~ \E p : BeginExecute(c, p)
  <2>1. log' = log /\ lease' = lease
    BY <1>2 DEF TerminalExecute, BeginChildHandoff, TerminalChildHandoff, Reconcile, Reject
  <2> QED BY <2>1, KeptRecovers
<1> QED BY <1>1, <1>2

(* The process dies with the fault that no proposal was left open by yet.  *)
LEMMA CrashRecovers ==
    ASSUME Inv, Recoverable, Crash, OneFaultOnly'
    PROVE  Recoverable'
<1>1. log' = log /\ lease' = lease /\ faults' = faults + 1 /\ faults \in Nat
  BY DEF Crash, KernelCrash, Refused, Inv, TypeInv, KernelOK, BoundsOK
<1>2. faults = 0
  BY <1>1 DEF OneFaultOnly
<1> QED BY <1>1, <1>2 DEF Recoverable, Explained, Kept, Room, Total, ActiveExecute, Active

(* A program goes on from a failed write only where that write was not made. *)
LEMMA UndoneStep ==
    ASSUME Inv, OpRun, Undone, [Next]_vars, Clean'
    PROVE  Undone'
<1>o. op \in Operation
  BY DEF Inv, TypeInv, KernelOK, OpOK
<1>i. op' = Idle => Undone'
  BY DEF Idle, Undone
<1>g. ASSUME NEW at, Goto(at), at \notin {"cas_failed", "abandon"} PROVE Undone'
  <2>1. op'.pc = at
    BY <1>g, <1>o DEF Goto, Operation
  <2> QED BY <1>g, <2>1 DEF Undone
<1>1. CASE ApiCall
  <2>1. op' = Idle \/ op'.pc \in {"started", "child", "terminal", "propose", "rollback",
                                  "child_interrupt", "interrupt"}
    BY <1>1 DEF ApiCall, Create, StartRun, BeginExecute, CloseRun, Remove, AppendLifecycle,
       RecordProgress, InitialInput, TerminalExecute, BeginChildHandoff, TerminalChildHandoff,
       Reconcile, AppendCall, TryAppend, TryLease, Reject, Already, Return, Begin, AfterRollback
  <2> QED BY <1>i, <2>1 DEF Undone
<1>2. CASE CancelRead \/ Recovered \/ UNCHANGED vars
  <2>1. log' = log /\ lease' = lease /\ op' = op
    BY <1>2 DEF CancelRead, Recovered, vars, kernelVars
  <2> QED BY <2>1 DEF Undone, Holds, ActiveExecute, Active
<1>3. CASE CancelWrite \/ CancelLifecycle \/ RecoverOrphans
  <2>1. op' = Idle \/ op'.pc \in {"child", "terminal", "rollback", "child_interrupt",
                                  "interrupt"}
    BY <1>3 DEF CancelWrite, CancelLifecycle, RecoverOrphans, TerminalExecute, AppendLifecycle,
       Reconcile, AppendCall, TryAppend, Reject, Return, Begin, AfterRollback
  <2> QED BY <1>i, <2>1 DEF Undone
<1>4. CASE Crash
  BY <1>4, <1>i DEF Crash, KernelCrash
<1>5. CASE Work
  <2>1. CASE RunStarted
    <3>1. RunEvent("RunStarted", "execute", op.claim.run, op.claim.owner,
                   op.claim.fence).type = "RunStarted"
      BY DEF RunEvent
    <3>2. "RunStarted" \notin unsynced'
      BY DEF Clean
    <3>3. op' = Idle \/ (Goto("abandon") /\ log' = log)
      BY <2>1, <3>1, <3>2 DEF RunStarted, TryAppend, Return
    <3>4. ~Active(log)
      BY <2>1 DEF RunStarted, Step, OpRun
    <3>5. Goto("abandon") => op'.pc = "abandon"
      BY <1>o DEF Goto, Operation
    <3> QED BY <1>i, <3>3, <3>4, <3>5 DEF Undone, ActiveExecute, Active
  <2>2. CASE CommitHandoffFrom
    <3>1. "CommitHandoffFrom" \notin unsynced'
      BY DEF Clean
    <3>2. Holds(op.claim) /\ (Goto("commit") \/ (Goto("cas_failed") /\ lease' = lease))
      BY <2>2, <3>1 DEF CommitHandoffFrom, TryLease
    <3>3. Goto("cas_failed") => op'.pc = "cas_failed" /\ op'.claim = op.claim
      BY <1>o DEF Goto, Operation
    <3> QED BY <1>g, <3>2, <3>3 DEF Undone, Holds
  <2>3. CASE AbandonBegin \/ EndRelease
    BY <1>i, <2>3 DEF AbandonBegin, EndRelease, TryLease, Return
  <2>4. CASE \/ EndChild \/ EndRun \/ ProposeHandoff \/ HandoffFailed \/ HandoffCommitted
             \/ ChildRunStarted \/ ReturnChild \/ ReconcileRollback \/ ReconcileChild
             \/ ReconcileRun
    <3>1. \/ op' = Idle \/ Goto("terminal") \/ Goto("release") \/ Goto("cas")
          \/ Goto("child_start") \/ Goto("propose") \/ Goto("child_interrupt")
          \/ Goto("interrupt") \/ Goto("child_start_failed")
      BY <2>4 DEF EndChild, EndRun, ProposeHandoff, HandoffFailed, HandoffCommitted,
         ChildRunStarted, ReturnChild, ReconcileRollback, ReconcileChild, ReconcileRun,
         TryAppend, Return, AfterRollback
    <3> QED BY <1>g, <1>i, <3>1
  <2> QED BY <1>5, <2>1, <2>2, <2>3, <2>4 DEF Work, KernelStep
<1> QED BY <1>1, <1>2, <1>3, <1>4, <1>5 DEF Next, Progress, Requests

LEMMA RecoverableStep ==
    ASSUME Inv, OpRun, OneFault, Undone, Recoverable, [Next]_vars, Clean'
    PROVE  Recoverable'
<1>0. faults \in Nat /\ OneFaultOnly'
  BY DEF Inv, TypeInv, KernelOK, BoundsOK, Clean
<1>1. CASE ApiCall /\ Record
  <2>0. op = Idle /\ booted /\ booted' = booted /\ snapshot' = snapshot
    BY <1>1 DEF ApiCall, Create, StartRun, BeginExecute, CloseRun, Remove, AppendLifecycle,
       RecordProgress, InitialInput, TerminalExecute, BeginChildHandoff, TerminalChildHandoff,
       Reconcile
  <2>f. faults' \in {faults, faults + 1}
    BY <1>1, CallLoses DEF Counted
  <2>c. Calling
    BY <1>0, <1>1, <2>0, <2>f DEF Calling
  <2>1. CASE \/ Create("api")
             \/ \E t \in {"RunCompleted", "RunFailed"} : CloseRun("api", t)
             \/ \E i, k : Remove("api", i, k)
             \/ \E t \in TaskTerminals : \E k : AppendLifecycle("api", t, k)
             \/ \E k \in Presented : RecordProgress("api", k)
             \/ "input" \in Ops /\ \E t \in InputEvents : \E k : InitialInput("api", t, k)
             \/ \E kind \in {"mark", "session"} : \E p : StartRun("api", kind, p)
    BY <2>0, <2>1, <2>c, OnceRecovers
  <2>2. CASE \/ \E p : BeginExecute("api", p)
             \/ \E k, t : TerminalExecute("api", k, t)
             \/ \E k : BeginChildHandoff("api", k)
             \/ \E k, p, t : TerminalChildHandoff("api", k, p, t)
             \/ \E run : Reconcile("api", run)
    BY <2>2, <2>c, LaunchRecovers
  <2> QED BY <1>1, <2>1, <2>2 DEF ApiCall, TaskTerminals
<1>2. CASE CancelRead \/ Recovered \/ UNCHANGED vars
  <2>1. log' = log /\ lease' = lease /\ op' = op /\ faults' = faults
    BY <1>2 DEF CancelRead, Recovered, vars, kernelVars
  <2> QED BY <2>1
          DEF Recoverable, Explained, Interrupting, Kept, Room, Total, ActiveExecute, Active
<1>3. CASE CancelWrite /\ Record
  <2>1. /\ snapshot' = NoSnapshot /\ booted' = booted
        /\ TerminalExecute("cancel", snapshot.claim, "RunCancelled")
    BY <1>3 DEF CancelWrite
  <2>2. op = Idle /\ faults' = faults
    BY <2>1 DEF TerminalExecute, Reject
  <2>3. Calling
    BY <1>0, <1>3, <2>1, <2>2 DEF Calling
  <2> QED BY <2>1, <2>3, LaunchRecovers
<1>4. CASE CancelLifecycle /\ Record
  <2>1. booted /\ booted' = booted /\ snapshot' = snapshot
        /\ \E k \in Presented : AppendLifecycle("cancel", "TaskCancelled", k)
    BY <1>4 DEF CancelLifecycle
  <2>2. op = Idle /\ faults' \in {faults, faults + 1}
    BY <2>1 DEF AppendLifecycle, AppendCall, TryAppend, Reject, Refused
  <2>3. Calling
    BY <1>0, <1>4, <2>1, <2>2 DEF Calling
  <2> QED BY <2>1, <2>3, OnceRecovers DEF TaskTerminals
<1>5. CASE Crash
  BY <1>0, <1>5, CrashRecovers
<1>6. CASE Work /\ Record
  BY <1>0, <1>6, ProgramRecovers DEF Work, Working
<1>7. CASE RecoverOrphans /\ Record
  <2>1. Reconcile("boot", 0) /\ booted' = booted /\ snapshot' = snapshot
    BY <1>7 DEF RecoverOrphans
  <2>2. op = Idle /\ faults' = faults
    BY <2>1 DEF Reconcile, Reject
  <2>3. Calling
    BY <1>0, <1>7, <2>1, <2>2 DEF Calling
  <2> QED BY <2>1, <2>3, LaunchRecovers
<1> QED BY <1>1, <1>2, <1>3, <1>4, <1>5, <1>6, <1>7 DEF Next, Progress, Requests

RecoverableInv == Clean => Recoverable /\ Undone

(***************************************************************************)
(* Wherever the one write is refused, the one sync fails or the one        *)
(* process dies, the lease of an active run is one recoverAuthorityClaim   *)
(* finds explained: whichever operations are used, as long as the log is   *)
(* not full if the marks of the initial input are among them, and unless   *)
(* the one sync is of a proposal (or one the property itself excludes).    *)
(***************************************************************************)
THEOREM HalfCommitsRecoverableUnderOneFault ==
    Spec => [](OneFaultOnly /\ ("input" \in Ops => Room(1)) => HalfCommitsRecoverable)
<1>1. Init => RecoverableInv
  BY DEF Init, KernelInit, EmptyLog, Idle, RecoverableInv, Recoverable, Undone, ActiveExecute,
     Active
<1>2. Inv /\ OpRun /\ OneFaultInv /\ RecoverableInv /\ [Next]_vars => RecoverableInv'
  <2> SUFFICES ASSUME Inv, OpRun, OneFaultInv, RecoverableInv, [Next]_vars, Clean'
               PROVE  Recoverable' /\ Undone'
    BY DEF RecoverableInv
  <2>1. Clean
    <3>1. log \in Log /\ Total(log)' >= Total(log) /\ Total(log) \in Nat
      BY FaultsGrow, OneMore DEF Longer, Inv, TypeInv, KernelOK
    <3>2. Total(log)' \in Nat
      BY OneMore, TypeStep DEF Inv, TypeInv, KernelOK
    <3>3. Room(1)' => Room(1)
      BY <3>1, <3>2, CapacityAssumption DEF Room
    <3> QED BY <3>3, FaultsGrow DEF Clean, OneFaultOnly
  <2>2. OneFault /\ Recoverable /\ Undone
    BY <2>1 DEF OneFaultInv, RecoverableInv, Clean
  <2> QED BY <2>2, RecoverableStep, UndoneStep
<1>3. OneFaultInv /\ RecoverableInv =>
         (OneFaultOnly /\ ("input" \in Ops => Room(1)) => HalfCommitsRecoverable)
  BY RecoverableSuffices DEF OneFaultInv, RecoverableInv, Clean, HalfCommitsRecoverable
<1> QED BY <1>1, <1>2, <1>3, OneFaultInvariant, PTL DEF Spec
-----------------------------------------------------------------------------
(***************************************************************************)
(* The kernel implements FabricAuthority.  A program moves the lease in    *)
(* one step and tells the log in another: AckInv says that in between the  *)
(* token is one the log has not acknowledged.                              *)
(***************************************************************************)
Promised == Authority!AuthorityNext \/ UNCHANGED Authority!authorityVars

AckLog ==
    /\ log.check.fence <= lease.fence
    /\ Active(log) => log.run # NoRun

AckOp ==
    /\ op.kind = "begin" => op.claim.owner # NoOwner
    /\ op.kind \in Handoffs => op.to # NoOwner
    /\ op.pc \in {"started", "commit"} => log.check.fence < lease.fence

AckInv == AckLog /\ AckOp

Numbers == log \in Log /\ lease.fence \in Nat /\ log.check.fence \in Nat

LEMMA InvNumbers == Inv => Numbers
  BY DEF Inv, TypeInv, KernelOK, BehindInv, Numbers, Log

LEMMA IdleAck == op' = Idle => AckOp'
  BY DEF Idle, AckOp, Handoffs

LEMMA GotoAck ==
    ASSUME op \in Operation, AckOp, NEW at, Goto(at),
           at \in {"started", "commit"} => log'.check.fence < lease'.fence
    PROVE  AckOp'
<1>1. op'.pc = at /\ op'.kind = op.kind /\ op'.claim = op.claim /\ op'.to = op.to
  BY DEF Goto, Operation
<1> QED BY <1>1 DEF AckOp

(* The lease moves, or nothing that the promise is about does. *)
LEMMA LeasePromised ==
    ASSUME Numbers, AckLog, log' = log, lease' = lease \/ lease'.fence = lease.fence + 1
    PROVE  /\ Promised /\ AckLog'
           /\ lease'.fence = lease.fence + 1 => log'.check.fence < lease'.fence
<1>1. CASE lease' = lease
  BY <1>1 DEF Promised, Authority!authorityVars, AckLog, Active, Numbers
<1>2. CASE lease'.fence = lease.fence + 1
  <2>1. Authority!Take
    BY <1>2 DEF Authority!Take, Active
  <2> QED BY <1>2, <2>1 DEF Promised, Authority!AuthorityNext, AckLog, Active, Numbers
<1> QED BY <1>1, <1>2

(* An event that acknowledges no token. *)
LEMMA AppendPromised ==
    ASSUME Numbers, AckLog, lease' = lease, NEW e, log' = AppendEvent(log, e),
           e.type # "HandoffCommitted",
           e.type = "RunStarted" =>
               e.kind \notin {"none", "execute"} /\ ~Active(log) /\ ~log.terminal,
           e.type \in TaskTerminals => ~Active(log)
    PROVE  Promised /\ AckLog' /\ log'.check.fence = log.check.fence
<1>0. log \in Log /\ log.terminal \in BOOLEAN
  BY DEF Numbers, Log
<1>1. log'.check.fence = log.check.fence
  <2>1. log'.check = CheckAfter(log, e)
    BY <1>0, Folds
  <2>2. CheckAfter(log, e).fence = log.check.fence
    BY <1>0 DEF CheckAfter, Log
  <2> QED BY <2>1, <2>2
<1>2. log'.terminal = (log.terminal \/ Ends(e))
  BY <1>0, Folds
<1>3. CASE e.type \in RunTerminals
  <2>1. log'.state # "running"
    BY <1>0, <1>3, EndFolds
  <2>2. ~Active(log') /\ AckLog'
    BY <1>1, <2>1 DEF Active, AckLog
  <2>3. CASE Active(log)
    <3>1. Authority!Finish
      BY <1>0, <1>1, <1>2, <2>2, <2>3 DEF Authority!Finish, AckLog
    <3> QED BY <1>1, <2>2, <3>1 DEF Promised, Authority!AuthorityNext
  <2>4. CASE ~Active(log)
    <3>1. Authority!Close \/ UNCHANGED Authority!authorityVars
      BY <1>0, <1>1, <1>2, <2>2, <2>4 DEF Authority!Close, Authority!authorityVars
    <3> QED BY <1>1, <2>2, <3>1 DEF Promised, Authority!AuthorityNext
  <2> QED BY <2>3, <2>4
<1>4. CASE e.type = "RunStarted"
  <2>1. log'.run = [kind |-> e.kind, id |-> e.run, owner |-> e.owner, fence |-> e.fence]
        /\ log'.state = "running" /\ log'.terminal = log.terminal
    BY <1>0, <1>4, StartFolds
  <2>2. log'.run.kind = e.kind /\ log'.run # NoRun /\ Active(log')
    BY <1>4, <2>1 DEF NoRun, Active
  <2>3. Authority!Start
    BY <1>1, <1>4, <2>1, <2>2 DEF Authority!Start
  <2>4. AckLog'
    BY <1>1, <2>2 DEF AckLog
  <2> QED BY <1>1, <2>3, <2>4 DEF Promised, Authority!AuthorityNext
<1>5. CASE e.type \notin RunTerminals \cup {"RunStarted"}
  <2>1. log'.run = log.run /\ log'.state = log.state
    BY <1>5, AppendRun
  <2>2. AckLog'
    BY <1>1, <2>1 DEF AckLog, Active
  <2>3. CASE e.type \in TaskTerminals /\ ~log.terminal
    <3>1. log'.terminal = TRUE /\ ~Active(log) /\ ~Active(log')
      BY <1>2, <2>1, <2>3 DEF Ends, Active
    <3>2. Authority!Close
      BY <1>1, <2>3, <3>1 DEF Authority!Close
    <3> QED BY <1>1, <2>2, <3>2 DEF Promised, Authority!AuthorityNext
  <2>4. CASE e.type \notin TaskTerminals \/ log.terminal
    <3>1. log'.terminal = log.terminal
      BY <1>0, <1>2, <1>5, <2>4 DEF Ends
    <3>2. UNCHANGED Authority!authorityVars
      BY <1>1, <2>1, <3>1 DEF Authority!authorityVars, Active
    <3> QED BY <1>1, <2>2, <3>2 DEF Promised
  <2> QED BY <2>3, <2>4
<1> QED BY <1>3, <1>4, <1>5

(* The two events that do, with the token the lease has. *)
LEMMA StartPromised ==
    ASSUME Numbers, AckLog, lease' = lease, NEW e, log' = AppendEvent(log, e),
           e.type = "RunStarted", e.kind = "execute", ~Active(log), ~log.terminal,
           e.owner = lease.owner, e.fence = lease.fence, lease.owner # NoOwner,
           log.check.fence < lease.fence
    PROVE  Promised /\ AckLog'
<1>1. log'.run = [kind |-> e.kind, id |-> e.run, owner |-> e.owner, fence |-> e.fence]
      /\ log'.state = "running" /\ log'.terminal = log.terminal
      /\ log'.check = [run |-> e.run, fence |-> e.fence, child |-> 0, last |-> 0,
                       dir |-> "none"]
  BY StartFolds DEF Numbers
<1>2. /\ log'.run.kind = "execute" /\ log'.run.owner = lease.owner
      /\ log'.run.fence = lease.fence /\ log'.run # NoRun /\ Active(log')
      /\ log'.check.fence = lease.fence
  BY <1>1 DEF NoRun, Active
<1>3. Authority!Start
  BY <1>1, <1>2 DEF Authority!Start, Authority!Acknowledge
<1>4. AckLog'
  BY <1>2 DEF AckLog, Numbers
<1> QED BY <1>3, <1>4 DEF Promised, Authority!AuthorityNext

LEMMA CommitPromised ==
    ASSUME Numbers, AckLog, lease' = lease, NEW e, log' = AppendEvent(log, e),
           e.type = "HandoffCommitted", e.fence = lease.fence, lease.owner # NoOwner,
           log.check.fence < lease.fence
    PROVE  Promised /\ AckLog'
<1>0. log \in Log /\ log.terminal \in BOOLEAN
  BY DEF Numbers, Log
<1>1. log'.check.fence = lease.fence
  <2>1. log'.check = CheckAfter(log, e)
    BY <1>0, Folds
  <2>2. CheckAfter(log, e).fence = e.fence
    BY DEF CheckAfter, ChildTerminals
  <2> QED BY <2>1, <2>2
<1>2. log'.run = log.run /\ log'.state = log.state
  BY AppendRun DEF RunTerminals
<1>3. log'.terminal = log.terminal
  <2>1. ~Ends(e)
    BY DEF Ends, RunTerminals, TaskTerminals
  <2> QED BY <1>0, <2>1, Folds
<1>4. Authority!Transfer
  BY <1>1, <1>2, <1>3 DEF Authority!Transfer, Authority!Acknowledge, Active
<1>5. AckLog'
  BY <1>1, <1>2 DEF AckLog, Active, Numbers
<1> QED BY <1>4, <1>5 DEF Promised, Authority!AuthorityNext
(* A program's steps. *)
LEMMA ProgramPromised ==
    ASSUME Inv, OpRun, AckInv, KernelStep
    PROVE  Promised /\ AckInv'
<1>0. /\ Numbers /\ AckLog /\ AckOp /\ OpFresh /\ OpShape /\ op \in Operation
      /\ op.kind = "end" => op.type \in RunTerminals
      /\ op.kind = "to_parent" => op.type \in ChildTerminals
  BY InvNumbers DEF Inv, TypeInv, KernelOK, OpOK, AuthorityInv, OpRun, AckInv
<1>a. ASSUME AckLog', op' = Idle \/ \E at : Goto(at) /\ at \notin {"started", "commit"}
      PROVE  AckInv'
  BY <1>0, <1>a, IdleAck, GotoAck DEF AckInv
(* An append of anything but a start or a commit. *)
<1>b. ASSUME NEW e, log' = AppendEvent(log, e) \/ log' = log, lease' = lease,
             e.type \notin {"HandoffCommitted", "RunStarted"} \cup TaskTerminals,
             op' = Idle \/ \E at : Goto(at) /\ at \notin {"started", "commit"}
      PROVE  Promised /\ AckInv'
  <2>1. Promised /\ AckLog'
    BY <1>0, <1>b, AppendPromised, LeasePromised
  <2> QED BY <1>a, <1>b, <2>1
<1>1. CASE RunStarted
  <2> DEFINE e == RunEvent("RunStarted", "execute", op.claim.run, op.claim.owner,
                           op.claim.fence)
  <2>1. /\ op.kind = "begin" /\ op.pc = "started" /\ lease' = lease
        /\ log' = AppendEvent(log, e) \/ log' = log
        /\ op' = Idle \/ Goto("abandon")
    BY <1>1 DEF RunStarted, TryAppend, Step, Return
  <2>2. /\ e.type = "RunStarted" /\ e.kind = "execute" /\ e.owner = op.claim.owner
        /\ e.fence = op.claim.fence
    BY DEF RunEvent
  <2> HIDE DEF e
  <2>3. /\ op.claim.owner = lease.owner /\ op.claim.fence = lease.fence
        /\ lease.owner # NoOwner /\ log.check.fence < lease.fence
    BY <1>0, <2>1 DEF OpFresh, Holds, AckOp
  <2>4. ~Active(log) /\ ~log.terminal
    BY <2>1 DEF OpRun
  <2>5. Promised /\ AckLog'
    BY <1>0, <2>1, <2>2, <2>3, <2>4, StartPromised, LeasePromised
  <2> QED BY <1>a, <2>1, <2>5
<1>2. CASE HandoffCommitted
  <2> DEFINE e == Transfer("HandoffCommitted", Direction)
  <2>1. /\ op.pc = "commit" /\ lease' = lease
        /\ log' = AppendEvent(log, e) \/ log' = log
        /\ op' = Idle \/ Goto("child_start")
    BY <1>2 DEF HandoffCommitted, TryAppend, Return
  <2>2. e.type = "HandoffCommitted" /\ e.fence = op.claim.fence + 1
    BY DEF Transfer, HandoffEvent
  <2> HIDE DEF e
  <2>3. lease.owner = op.to /\ lease.fence = op.claim.fence + 1 /\ op.kind \in Handoffs
    BY <1>0, <2>1 DEF OpFresh, Swapped, Transferring, Handoffs
  <2>4. lease.owner # NoOwner /\ log.check.fence < lease.fence
    BY <1>0, <2>1, <2>3 DEF AckOp
  <2>5. Promised /\ AckLog'
    BY <1>0, <2>1, <2>2, <2>3, <2>4, CommitPromised, LeasePromised
  <2> QED BY <1>a, <2>1, <2>5
<1>3. CASE AbandonBegin \/ EndRelease \/ CommitHandoffFrom
  <2>1. log' = log /\ (lease' = lease \/ lease'.fence = lease.fence + 1)
    BY <1>3 DEF AbandonBegin, EndRelease, CommitHandoffFrom, TryLease
  <2>2. \/ op' = Idle \/ Goto("cas_failed")
        \/ Goto("commit") /\ lease'.fence = lease.fence + 1
    BY <1>3 DEF AbandonBegin, EndRelease, CommitHandoffFrom, TryLease, Return
  <2>3. /\ Promised /\ AckLog'
        /\ lease'.fence = lease.fence + 1 => log'.check.fence < lease'.fence
    BY <1>0, <2>1, LeasePromised
  <2>4. AckOp'
    BY <1>0, <2>2, <2>3, IdleAck, GotoAck
  <2> QED BY <2>3, <2>4 DEF AckInv
<1>4. CASE EndChild
  <2> DEFINE e == ChildEvent(ChildTerminalFor[op.type], log.child, op.claim.owner,
                             op.claim.fence)
  <2>1. /\ op.kind = "end" /\ lease' = lease
        /\ log' = AppendEvent(log, e) \/ log' = log
        /\ op' = Idle \/ Goto("terminal")
    BY <1>4 DEF EndChild, Step, TryAppend, Return
  <2>2. e.type \in ChildTerminals
    BY <1>0, <2>1 DEF ChildEvent, ChildTerminalFor, RunTerminals, ChildTerminals
  <2> HIDE DEF e
  <2> QED BY <1>b, <2>1, <2>2 DEF ChildTerminals, TaskTerminals
<1>5. CASE EndRun
  <2> DEFINE e == RunEvent(op.type, "execute", op.claim.run, op.claim.owner, op.claim.fence)
  <2>1. /\ op.kind = "end" /\ lease' = lease
        /\ log' = AppendEvent(log, e) \/ log' = log
        /\ op' = Idle \/ Goto("release")
    BY <1>5 DEF EndRun, Step, TryAppend, Return
  <2>2. e.type \in RunTerminals
    BY <1>0, <2>1 DEF RunEvent
  <2> HIDE DEF e
  <2> QED BY <1>b, <2>1, <2>2 DEF RunTerminals, TaskTerminals
<1>6. CASE ReturnChild
  <2> DEFINE e == ChildEvent(op.type, log.child, log.child.owner, log.child.fence)
  <2>1. /\ op.kind = "to_parent" /\ lease' = lease
        /\ log' = AppendEvent(log, e) \/ log' = log
        /\ op' = Idle \/ Goto("propose")
    BY <1>6 DEF ReturnChild, Step, TryAppend, Return
  <2>2. e.type \in ChildTerminals
    BY <1>0, <2>1 DEF ChildEvent
  <2> HIDE DEF e
  <2> QED BY <1>b, <2>1, <2>2 DEF ChildTerminals, TaskTerminals
<1>7. CASE ProposeHandoff
  <2> DEFINE e == Transfer("HandoffProposed", Direction)
  <2>1. lease' = lease /\ (log' = AppendEvent(log, e) \/ log' = log)
        /\ (op' = Idle \/ Goto("cas"))
    BY <1>7 DEF ProposeHandoff, TryAppend, Return
  <2>2. e.type = "HandoffProposed"
    BY DEF Transfer, HandoffEvent
  <2> HIDE DEF e
  <2> QED BY <1>b, <2>1, <2>2 DEF TaskTerminals
<1>8. CASE HandoffFailed
  <2> DEFINE e == Transfer("HandoffFailed", Direction)
  <2>1. lease' = lease /\ (log' = AppendEvent(log, e) \/ log' = log) /\ op' = Idle
    BY <1>8 DEF HandoffFailed, TryAppend, Return
  <2>2. e.type = "HandoffFailed"
    BY DEF Transfer, HandoffEvent
  <2> HIDE DEF e
  <2> QED BY <1>b, <2>1, <2>2 DEF TaskTerminals
<1>9. CASE ChildRunStarted
  <2> DEFINE e == HandoffEvent("ChildRunStarted", "none", op.claim.run, op.handoff,
                               NoOwner, op.to, op.claim.fence + 1)
  <2>1. lease' = lease /\ (log' = AppendEvent(log, e) \/ log' = log)
        /\ (op' = Idle \/ Goto("child_start_failed"))
    BY <1>9 DEF ChildRunStarted, TryAppend, Return
  <2>2. e.type = "ChildRunStarted"
    BY DEF HandoffEvent
  <2> HIDE DEF e
  <2> QED BY <1>b, <2>1, <2>2 DEF TaskTerminals
<1>10. CASE ReconcileRollback
  <2> DEFINE e == HandoffEvent("HandoffRolledBack", "none", op.claim.run,
                               log.prop.handoff, NoOwner, NoOwner, op.claim.fence)
  <2>1. lease' = lease /\ (log' = AppendEvent(log, e) \/ log' = log)
        /\ (op' = Idle \/ Goto(AfterRollback))
    BY <1>10 DEF ReconcileRollback, TryAppend, Return
  <2>2. e.type = "HandoffRolledBack" /\ AfterRollback \notin {"started", "commit"}
    BY DEF HandoffEvent, AfterRollback
  <2> HIDE DEF e
  <2> QED BY <1>b, <2>1, <2>2 DEF TaskTerminals
<1>11. CASE ReconcileChild
  <2> DEFINE e == ChildEvent("ChildRunInterrupted", log.child, log.child.owner,
                             log.child.fence)
  <2>1. lease' = lease /\ (log' = AppendEvent(log, e) \/ log' = log)
        /\ (op' = Idle \/ Goto("interrupt"))
    BY <1>11 DEF ReconcileChild, TryAppend, Return
  <2>2. e.type = "ChildRunInterrupted"
    BY DEF ChildEvent
  <2> HIDE DEF e
  <2> QED BY <1>b, <2>1, <2>2 DEF TaskTerminals
<1>12. CASE ReconcileRun
  <2> DEFINE e == RunEvent("RunInterrupted", "execute", op.claim.run, op.claim.owner,
                           op.claim.fence)
  <2>1. lease' = lease /\ (log' = AppendEvent(log, e) \/ log' = log)
        /\ (op' = Idle \/ Goto("release"))
    BY <1>12 DEF ReconcileRun, TryAppend, Return
  <2>2. e.type = "RunInterrupted"
    BY DEF RunEvent
  <2> HIDE DEF e
  <2> QED BY <1>b, <2>1, <2>2 DEF TaskTerminals
<1> QED BY <1>1, <1>2, <1>3, <1>4, <1>5, <1>6, <1>7, <1>8, <1>9, <1>10, <1>11, <1>12
        DEF KernelStep

(* The calls that write once. *)
LEMMA OncePromised ==
    ASSUME Numbers, AckLog, NEW c,
           \/ Create(c)
           \/ \E kind \in {"mark", "session"} : \E p : StartRun(c, kind, p)
           \/ \E t \in RunTerminals : CloseRun(c, t)
           \/ \E i, k : Remove(c, i, k)
           \/ \E t \in TaskTerminals : \E k : AppendLifecycle(c, t, k)
           \/ \E k : RecordProgress(c, k)
           \/ \E t \in InputEvents : \E k : InitialInput(c, t, k)
    PROVE  Promised /\ AckInv'
<1>1. ASSUME Reject(c) \/ Already(c) PROVE Promised /\ AckInv'
  <2>1. log' = log /\ lease' = lease /\ op' = Idle
    BY <1>1 DEF Reject, Already, Return
  <2> QED BY <2>1, LeasePromised, IdleAck DEF AckInv
<1>2. ASSUME NEW e, AppendCall(c, e), e.type # "HandoffCommitted",
             e.type = "RunStarted" =>
                 e.kind \notin {"none", "execute"} /\ ~Active(log) /\ ~log.terminal,
             e.type \in TaskTerminals => ~Active(log)
      PROVE  Promised /\ AckInv'
  <2>1. lease' = lease /\ (log' = AppendEvent(log, e) \/ log' = log) /\ op' = Idle
    BY <1>2 DEF AppendCall, TryAppend, Return
  <2>2. Promised /\ AckLog'
    BY <1>2, <2>1, AppendPromised, LeasePromised
  <2> QED BY <2>1, <2>2, IdleAck DEF AckInv
<1>3. \A t : Plain(t).type = t
  BY DEF Plain
<1>4. CASE Create(c)
  BY <1>2, <1>3, <1>4 DEF Create, TaskTerminals
<1>5. CASE \E kind \in {"mark", "session"} : \E p : StartRun(c, kind, p)
  <2>1. PICK kind \in {"mark", "session"} : \E p : StartRun(c, kind, p)
    BY <1>5
  <2>2. PICK p : StartRun(c, kind, p)
    BY <2>1
  <2> DEFINE e == RunEvent("RunStarted", kind, 0, Primary(p), 0)
  <2>3. e.type = "RunStarted" /\ e.kind \notin {"none", "execute"}
    BY DEF RunEvent
  <2>4. Reject(c) \/ (AppendCall(c, e) /\ ~Active(log) /\ ~log.terminal)
    BY <2>2 DEF StartRun, CanStart
  <2> HIDE DEF e
  <2> QED BY <1>1, <1>2, <2>3, <2>4 DEF TaskTerminals
<1>6. CASE \E t \in RunTerminals : CloseRun(c, t)
  <2>1. PICK t \in RunTerminals : CloseRun(c, t)
    BY <1>6
  <2>2. Plain(t).type = t /\ t \notin {"RunStarted", "HandoffCommitted"} \cup TaskTerminals
    BY <1>3 DEF RunTerminals, TaskTerminals
  <2> QED BY <1>1, <1>2, <2>1, <2>2 DEF CloseRun
<1>7. CASE \E i, k : Remove(c, i, k)
  BY <1>1, <1>2, <1>3, <1>7 DEF Remove
<1>8. CASE \E t \in TaskTerminals : \E k : AppendLifecycle(c, t, k)
  <2>1. PICK t \in TaskTerminals : \E k : AppendLifecycle(c, t, k)
    BY <1>8
  <2>2. Plain(t).type = t /\ t \notin {"RunStarted", "HandoffCommitted"}
    BY <1>3 DEF TaskTerminals
  <2>3. Reject(c) \/ (AppendCall(c, Plain(t)) /\ ~Active(log))
    BY <2>1 DEF AppendLifecycle, CanStart
  <2> QED BY <1>1, <1>2, <2>2, <2>3
<1>9. CASE \E k : RecordProgress(c, k)
  BY <1>1, <1>2, <1>9 DEF RecordProgress, RunEvent, TaskTerminals
<1>10. CASE \E t \in InputEvents : \E k : InitialInput(c, t, k)
  <2>1. PICK t \in InputEvents : \E k : InitialInput(c, t, k)
    BY <1>10
  <2>2. Plain(t).type = t /\ t \notin {"RunStarted", "HandoffCommitted"} \cup TaskTerminals
    BY <1>3 DEF InputEvents, TaskTerminals
  <2> QED BY <1>1, <1>2, <2>1, <2>2 DEF InitialInput
<1> QED BY <1>4, <1>5, <1>6, <1>7, <1>8, <1>9, <1>10

(* The calls that start a program. *)
LEMMA LaunchPromised ==
    ASSUME Numbers, AckLog, NEW c,
           \/ \E p \in PrimaryOwners : BeginExecute(c, p)
           \/ \E k, t : TerminalExecute(c, k, t)
           \/ \E k : BeginChildHandoff(c, k)
           \/ \E k, t : \E p \in PrimaryOwners : TerminalChildHandoff(c, k, p, t)
           \/ \E run : Reconcile(c, run)
    PROVE  Promised /\ AckInv'
<1>1. ASSUME Reject(c) PROVE Promised /\ AckInv'
  <2>1. log' = log /\ lease' = lease /\ op' = Idle
    BY <1>1 DEF Reject, Return
  <2> QED BY <2>1, LeasePromised, IdleAck DEF AckInv
<1>2. ASSUME log' = log, lease' = lease, op'.kind # "begin", op'.pc \notin {"started", "commit"},
             op'.kind \in Handoffs => op'.to # NoOwner
      PROVE  Promised /\ AckInv'
  BY <1>2, LeasePromised DEF AckInv, AckOp
<1>p. \A p \in PrimaryOwners : Primary(p) # NoOwner
  BY OwnersAssumption DEF Primary, NoOwner
<1>3. CASE \E p \in PrimaryOwners : BeginExecute(c, p)
  <2>1. PICK p \in PrimaryOwners : BeginExecute(c, p)
    BY <1>3
  <2>2. \/ Reject(c)
        \/ log' = log /\ lease' = lease /\ op' = Idle
        \/ log' = log /\ lease'.fence = lease.fence + 1 /\ op' = Idle
        \/ /\ log' = log /\ lease'.fence = lease.fence + 1
           /\ op'.kind = "begin" /\ op'.claim.owner = Primary(p)
    BY <2>1 DEF BeginExecute, TryLease, Return, Begin
  <2>3. CASE log' = log /\ (lease' = lease \/ lease'.fence = lease.fence + 1) /\ op' = Idle
    BY <2>3, LeasePromised, IdleAck DEF AckInv
  <2>4. CASE /\ log' = log /\ lease'.fence = lease.fence + 1
             /\ op'.kind = "begin" /\ op'.claim.owner = Primary(p)
    BY <1>p, <2>4, LeasePromised DEF AckInv, AckOp, Handoffs
  <2> QED BY <1>1, <2>2, <2>3, <2>4
<1>4. CASE \E k, t : TerminalExecute(c, k, t)
  <2>1. \/ Reject(c)
        \/ /\ log' = log /\ lease' = lease /\ op'.kind = "end"
           /\ op'.pc \in {"child", "terminal"}
    BY <1>4 DEF TerminalExecute, Begin
  <2> QED BY <1>1, <1>2, <2>1 DEF Handoffs
<1>5. CASE \E k : BeginChildHandoff(c, k)
  <2>1. \/ Reject(c)
        \/ /\ log' = log /\ lease' = lease /\ op'.kind = "to_child" /\ op'.pc = "propose"
           /\ \E h : op'.to = ChildOwner(h)
    BY <1>5 DEF BeginChildHandoff
  <2> QED BY <1>1, <1>2, <2>1 DEF ChildOwner, NoOwner
<1>6. CASE \E k, t : \E p \in PrimaryOwners : TerminalChildHandoff(c, k, p, t)
  <2>1. \/ Reject(c)
        \/ /\ log' = log /\ lease' = lease /\ op'.kind = "to_parent" /\ op'.pc = "child"
           /\ \E p \in PrimaryOwners : op'.to = Primary(p)
    BY <1>6 DEF TerminalChildHandoff
  <2> QED BY <1>1, <1>2, <1>p, <2>1
<1>7. CASE \E run : Reconcile(c, run)
  <2>1. \/ Reject(c)
        \/ /\ log' = log /\ lease' = lease /\ op'.kind = "reconcile"
           /\ op'.pc \in {"rollback", "child_interrupt", "interrupt"}
    BY <1>7 DEF Reconcile, Begin, AfterRollback
  <2> QED BY <1>1, <1>2, <2>1 DEF Handoffs
<1> QED BY <1>3, <1>4, <1>5, <1>6, <1>7

LEMMA StepPromised ==
    ASSUME Inv, OpRun, AckInv, [Next]_vars
    PROVE  Promised /\ AckInv'
<1>0. Numbers /\ AckLog
  BY InvNumbers DEF AckInv
<1>1. CASE ApiCall
  <2>1. CASE \/ Create("api")
             \/ \E kind \in {"mark", "session"} : \E p : StartRun("api", kind, p)
             \/ \E t \in RunTerminals : CloseRun("api", t)
             \/ \E i, k : Remove("api", i, k)
             \/ \E t \in TaskTerminals : \E k : AppendLifecycle("api", t, k)
             \/ \E k : RecordProgress("api", k)
             \/ \E t \in InputEvents : \E k : InitialInput("api", t, k)
    BY <1>0, <2>1, OncePromised
  <2>2. CASE \/ \E p \in PrimaryOwners : BeginExecute("api", p)
             \/ \E k, t : TerminalExecute("api", k, t)
             \/ \E k : BeginChildHandoff("api", k)
             \/ \E k, t : \E p \in PrimaryOwners : TerminalChildHandoff("api", k, p, t)
             \/ \E run : Reconcile("api", run)
    BY <1>0, <2>2, LaunchPromised
  <2> QED BY <1>1, <2>1, <2>2 DEF ApiCall, RunTerminals, TaskTerminals
<1>2. CASE CancelRead \/ Recovered \/ UNCHANGED vars
  <2>1. log' = log /\ lease' = lease /\ op' = op
    BY <1>2 DEF CancelRead, Recovered, vars, kernelVars
  <2> QED BY <1>0, <2>1, LeasePromised DEF AckInv, AckOp
<1>3. CASE CancelWrite
  BY <1>0, <1>3, LaunchPromised DEF CancelWrite
<1>4. CASE CancelLifecycle
  <2>1. \E k : AppendLifecycle("cancel", "TaskCancelled", k)
    BY <1>4 DEF CancelLifecycle
  <2> QED BY <1>0, <2>1, OncePromised DEF TaskTerminals
<1>5. CASE Crash
  <2>1. log' = log /\ lease' = lease /\ op' = Idle
    BY <1>5 DEF Crash, KernelCrash
  <2> QED BY <1>0, <2>1, LeasePromised, IdleAck DEF AckInv
<1>6. CASE Work
  BY <1>6, ProgramPromised DEF Work
<1>7. CASE RecoverOrphans
  BY <1>0, <1>7, LaunchPromised DEF RecoverOrphans
<1> QED BY <1>1, <1>2, <1>3, <1>4, <1>5, <1>6, <1>7 DEF Next, Progress, Requests

(***************************************************************************)
(* Every step of the kernel, its callers, its crashes and its recovery is  *)
(* a step of FabricAuthority or leaves its state alone.                    *)
(***************************************************************************)
THEOREM KernelImplementsAuthority == Spec => ImplementsAuthority
<1>1. Init => Authority!AuthorityInit /\ AckInv /\ OpRun
  BY DEF Init, KernelInit, EmptyLog, NoCheck, NoRun, Idle, Authority!AuthorityInit, AckInv,
     AckLog, AckOp, Handoffs, Active, OpRun, OpShape
<1>2. Inv /\ OpRun /\ AckInv /\ [Next]_vars
        => OpRun' /\ AckInv' /\ [Authority!AuthorityNext]_Authority!authorityVars
  <2> SUFFICES ASSUME Inv, OpRun, AckInv, [Next]_vars
               PROVE  OpRun' /\ AckInv' /\ [Authority!AuthorityNext]_Authority!authorityVars
    OBVIOUS
  <2>1. OpRun'
    BY SequenceStep DEF Inv, TypeInv
  <2> QED BY <2>1, StepPromised DEF Promised
<1> QED BY <1>1, <1>2, AuthorityInvariant, PTL
        DEF Spec, ImplementsAuthority, Authority!AuthoritySpec
=============================================================================
