---------------------------- MODULE FabricRuntime ----------------------------
(***************************************************************************)
(* The live side of Fabric execution (internal/server/fabric_runtime.go    *)
(* and fabric_delegate.go) for one task: the execute requests and the      *)
(* workers they start, the cancel requests and the shutdown that race with *)
(* them, and the locks they share.  All of them call the kernel.           *)
(*                                                                         *)
(* An executor is one execute request and the worker goroutine it starts;  *)
(* a canceller is one cancel request; "stop" is handler.Close.  rt.mu is   *)
(* held across steps only by a canceller that waits for live.authorityMu,  *)
(* and every other critical section of rt.mu is one step.  intentMu,       *)
(* claimMu and durableMu guard single steps and do not appear.             *)
(*                                                                         *)
(* runModelTurn and the resource budget are not modelled here: a model     *)
(* turn ends with any outcome, and TryAcquireTurn or Reserve may fail.     *)
(***************************************************************************)
EXTENDS FabricKernel, FiniteSets, Sequences

CONSTANTS Executors,      \* execute requests
          Cancellers,     \* cancel requests
          Stops,          \* {"stop"} when the process shuts down, else {}
          Preconditioned, \* the cancellers that send expectedOwner and expectedFencingToken
          MaxConcurrent,  \* fabricMaxConcurrentExecutes
          Delegates,      \* whether requests carry a delegation.model
          Impatient       \* whether a wait of fabricShutdownWait can run out

ASSUME ActorsAssumption ==
    /\ Callers = Executors \cup Cancellers \cup Stops
    /\ Executors \cap Cancellers = {} /\ Executors \cap Stops = {}
    /\ Cancellers \cap Stops = {} /\ Stops \subseteq {"stop"} /\ "none" \notin Callers
    /\ Preconditioned \subseteq Cancellers
    /\ MaxConcurrent \in Nat /\ Delegates \in BOOLEAN /\ Impatient \in BOOLEAN

VARIABLES active,   \* rt.active[task]: the executor whose live run is registered
          inflight, \* rt.inflight
          closed,   \* rt.shuttingDown and rt.closed, set together
          rtmu,     \* the canceller that holds rt.mu, or "none"
          pc,       \* per executor, where it is
          live,     \* per executor, its fabricLiveRun and locals
          req,      \* per canceller, its request
          stop      \* where shutdown is, and the live run it found

runtimeVars == <<active, inflight, closed, rtmu, pc, live, req, stop>>
vars == <<kernelVars, runtimeVars>>

Intents == {"none", "complete", "cancel", "shutdown", "fail"}
Outcomes == {"none", "completed", "failed", "cancelled", "error"}

(***************************************************************************)
(* claim and child are RunIdentity and ChildRunIdentity, owner the         *)
(* primaryOwner local, ctx whether the run's context is cancelled, turns   *)
(* the resource turns held, todo the terminals still to try, and want the  *)
(* intent the worker is about to select.  done is closed at pc "exited".   *)
(***************************************************************************)
NoLive == [claim |-> NoClaim, child |-> NoClaim, owner |-> NoOwner, intent |-> "none",
           ctx |-> FALSE, converged |-> FALSE, authorityMu |-> FALSE, turns |-> {},
           outcome |-> "none", todo |-> <<>>, want |-> "none"]

(* held is history: the claim the target's run held when it was stopped. *)
NoRequest == [pc |-> "idle", target |-> "none", expected |-> NoClaim, claim |-> NoClaim,
              held |-> NoClaim]

Handlers == {"rejected", "exited", "idle", "admitted", "begin", "begun", "abort",
             "aborted", "release_slot"}
Workers == {"routing", "turn", "plan", "acquire", "lock_out", "out", "handed",
            "child_routing", "child_turn", "lock_back", "back", "backed", "reconcile",
            "reconciled", "resume", "continue", "finish", "finish_check",
            "finish_closing", "finish_select", "finish_last", "select", "persist",
            "persisted", "return", "returned", "cleanup"}

Results == {"ok", "persist_failed", "fencing", "durable_ok", "error"}
RequestPcs == {"idle", "peeked", "enter", "authority", "fenced", "signal", "await",
               "durable", "lifecycle", "cancel_execute", "wrote"} \cup Results

(* The shape of the runtime's state. *)
TypeOK ==
    /\ KernelTypeOK
    /\ active \in Executors \cup {"none"}
    /\ inflight \in 0..Cardinality(Executors)
    /\ closed \in BOOLEAN
    /\ rtmu \in Cancellers \cup {"none"}
    /\ pc \in [Executors -> Handlers \cup Workers]
    /\ live \in [Executors -> [claim: Claim, child: Claim, owner: Owner, intent: Intents,
                    ctx: BOOLEAN, converged: BOOLEAN, authorityMu: BOOLEAN,
                    turns: SUBSET {"primary", "child"}, outcome: Outcomes,
                    todo: Seq(RunTerminals), want: Intents]]
    /\ req \in [Cancellers -> [pc: RequestPcs, target: Executors \cup {"none"},
                               expected: Claim, claim: Claim, held: Claim]]
    /\ stop \in [pc: {"idle", "signal", "await", "interrupt", "stopped"},
                 target: Executors \cup {"none"}]

Init ==
    /\ log = AppendEvent(EmptyLog, Plain("TaskCreated"))
    /\ lease = [owner |-> NoOwner, fence |-> 0]
    /\ op = Idle /\ ret = [c \in Callers |-> NoResult]
    /\ runs = 0 /\ handoffs = 0 /\ faults = 0 /\ unsynced = {}
    /\ active = "none" /\ inflight = 0 /\ closed = FALSE /\ rtmu = "none"
    /\ pc = [e \in Executors |-> "idle"]
    /\ live = [e \in Executors |-> NoLive]
    /\ req = [c \in Cancellers |-> NoRequest]
    /\ stop = [pc |-> "idle", target |-> "none"]

-----------------------------------------------------------------------------
(***************************************************************************)
(* Building blocks for an executor e.                                      *)
(***************************************************************************)
To(e, at) == pc' = [pc EXCEPT ![e] = at]
Becomes(e, l) == live' = [live EXCEPT ![e] = l]

(* A step of e that touches neither the kernel nor rt. *)
Local(e, from, to, l) ==
    /\ pc[e] = from /\ To(e, to) /\ Becomes(e, l)
    /\ UNCHANGED <<kernelVars, active, inflight, closed, rtmu, req, stop>>

(* A call of e into the kernel, which waits for Repo.mu. *)
Call(e, from, to, KernelOp) ==
    /\ pc[e] = from /\ KernelOp /\ To(e, to)
    /\ UNCHANGED <<active, inflight, closed, rtmu, live, req, stop>>

Returned(e) == ret[e].done

(* The terminals tried in turn: persistCancel, persistInterrupt, persistFail *)
(* and CompleteExecute, with reconcileTerminalPersist behind them.           *)
Plan == [complete |-> <<"RunCompleted", "RunFailed", "RunInterrupted">>,
         cancel   |-> <<"RunCancelled", "RunFailed", "RunInterrupted">>,
         shutdown |-> <<"RunInterrupted", "RunFailed", "RunInterrupted">>,
         fail     |-> <<"RunFailed", "RunInterrupted">>]

Intending(l, intent) == [l EXCEPT !.intent = intent, !.todo = Plan[intent]]

(* Mutant: the last intent wins. *)
MaySelectAlways(l, want) == TRUE

(* selectTerminal: the first intent wins. *)
MaySelect(l, want) == l.intent \in {"none", want}

Ordered(l) == l.intent \in {"cancel", "shutdown"}

WithoutTurns(l) == [l EXCEPT !.turns = {}]
Failing(l) == [l EXCEPT !.turns = {}, !.want = "fail"]

-----------------------------------------------------------------------------
(***************************************************************************)
(* execute: admission, BeginExecute, registration.                         *)
(***************************************************************************)
Admit(e) ==
    /\ pc[e] = "idle" /\ rtmu = "none"
    /\ IF closed \/ inflight >= MaxConcurrent \/ active # "none"
       THEN To(e, "rejected") /\ UNCHANGED inflight
       ELSE To(e, "admitted") /\ inflight' = inflight + 1
    /\ UNCHANGED <<kernelVars, active, closed, rtmu, live, req, stop>>

AcquireTurn(e) ==
    \/ Local(e, "admitted", "begin", [live[e] EXCEPT !.turns = @ \cup {"primary"}])
    \/ Local(e, "admitted", "release_slot", live[e])

BeginRun(e) ==
    \E p \in PrimaryOwners : Call(e, "begin", "begun", BeginExecute(e, p))

Begun(e) == pc[e] = "begun" /\ Returned(e)

BeginFailed(e) ==
    /\ Begun(e) /\ ~ret[e].ok
    /\ Local(e, "begun", "release_slot", WithoutTurns(live[e]))

(* Mutant: no look whether another run is registered already. *)
RegisterOver(e) ==
    LET started == [live[e] EXCEPT !.claim = ret[e].claim]
    IN  /\ Begun(e) /\ ret[e].ok /\ rtmu = "none"
        /\ IF closed
           THEN /\ To(e, "abort") /\ UNCHANGED active
                /\ Becomes(e, [started EXCEPT !.turns = {}, !.ctx = TRUE,
                                              !.todo = <<"RunInterrupted">>])
           ELSE active' = e /\ To(e, "routing") /\ Becomes(e, started)
        /\ UNCHANGED <<kernelVars, inflight, closed, rtmu, req, stop>>

(* The second rt.mu section: a shutdown or another run may have come first. *)
Register(e) ==
    LET started == [live[e] EXCEPT !.claim = ret[e].claim]
        refused(type) == /\ To(e, "abort")
                         /\ Becomes(e, [started EXCEPT !.turns = {}, !.ctx = TRUE,
                                                       !.todo = <<type>>])
                         /\ UNCHANGED active
    IN  /\ Begun(e) /\ ret[e].ok /\ rtmu = "none"
        /\ CASE closed               -> refused("RunInterrupted")
             [] ~closed /\ active # "none" -> refused("RunFailed")
             [] OTHER -> active' = e /\ To(e, "routing") /\ Becomes(e, started)
        /\ UNCHANGED <<kernelVars, inflight, closed, rtmu, req, stop>>

Abort(e) == Call(e, "abort", "aborted", TerminalExecute(e, live[e].claim, live[e].todo[1]))

Aborted(e) == Returned(e) /\ Local(e, "aborted", "release_slot", live[e])

(* Mutant: the slot of a run that did not start is kept. *)
ReleaseNoSlot(e) ==
    /\ pc[e] = "release_slot" /\ rtmu = "none" /\ To(e, "rejected")
    /\ UNCHANGED <<kernelVars, active, inflight, closed, rtmu, live, req, stop>>

ReleaseSlot(e) ==
    /\ pc[e] = "release_slot" /\ rtmu = "none"
    /\ inflight' = inflight - 1 /\ To(e, "rejected")
    /\ UNCHANGED <<kernelVars, active, closed, rtmu, live, req, stop>>

-----------------------------------------------------------------------------
(***************************************************************************)
(* driveWithOptionalHandoff: the primary turn.                             *)
(***************************************************************************)
Routing(e) == Call(e, "routing", "turn", RecordProgress(e, live[e].claim))

(* runModelTurn: a turn is "cancelled" only under a cancelled context. *)
TurnOutcomes(l) == {"completed", "failed", "error"} \cup (IF l.ctx THEN {"cancelled"} ELSE {})

PrimaryTurn(e) ==
    \/ \E o \in TurnOutcomes(live[e]) :
          Local(e, "turn", "finish", [WithoutTurns(live[e]) EXCEPT !.outcome = o])
    \/ Delegates /\ Local(e, "turn", "plan", live[e])
    \/ Delegates /\ Local(e, "turn", "select", Failing(live[e]))  \* fabricPrimaryReject

(***************************************************************************)
(* runSingleChildHandoff.                                                  *)
(***************************************************************************)
(* Parse the instruction and plan the continuation, then look for a cancel. *)
PlanChild(e) ==
    \/ Local(e, "plan", "select", Failing(live[e]))
    \/ Ordered(live[e])
       /\ Local(e, "plan", "persist", Intending(WithoutTurns(live[e]), live[e].intent))
    \/ ~Ordered(live[e]) /\ Local(e, "plan", "acquire", WithoutTurns(live[e]))

AcquireChild(e) ==
    \/ Local(e, "acquire", "lock_out", [live[e] EXCEPT !.turns = @ \cup {"child"}])
    \/ Local(e, "acquire", "select", Failing(live[e]))

(* authorityMu, and the intents looked at again behind it. *)
LockOut(e) ==
    /\ ~live[e].authorityMu
    /\ IF Ordered(live[e])
       THEN Local(e, "lock_out", "persist",
                  Intending(WithoutTurns(live[e]), live[e].intent))
       ELSE Local(e, "lock_out", "out", [live[e] EXCEPT !.authorityMu = TRUE,
                                                        !.owner = live[e].claim.owner])

HandOut(e) == Call(e, "out", "handed", BeginChildHandoff(e, live[e].claim))

Handed(e) ==
    LET unlocked == [live[e] EXCEPT !.authorityMu = FALSE]
        published == [unlocked EXCEPT !.claim.owner = ret[e].claim.owner,
                                      !.claim.fence = ret[e].claim.fence,
                                      !.child = ret[e].claim]
    IN  /\ Returned(e)
        /\ CASE ~ret[e].ok -> Local(e, "handed", "reconcile", Failing(unlocked))
             [] ret[e].ok /\ Ordered(live[e]) ->
                   Local(e, "handed", "return", WithoutTurns(published))
             [] OTHER -> Local(e, "handed", "child_routing", published)

ChildRouting(e) == Call(e, "child_routing", "child_turn", RecordProgress(e, live[e].claim))

ChildTurn(e) ==
    \E o \in TurnOutcomes(live[e]) :
        Local(e, "child_turn", IF Ordered(live[e]) THEN "return" ELSE "lock_back",
              [WithoutTurns(live[e]) EXCEPT !.outcome = o])

LockBack(e) ==
    /\ ~live[e].authorityMu
    /\ IF Ordered(live[e])
       THEN Local(e, "lock_back", "return", live[e])
       ELSE Local(e, "lock_back", "back", [live[e] EXCEPT !.authorityMu = TRUE])

ReturnTo(e, from, to, type) ==
    Call(e, from, to, TerminalChildHandoff(e, live[e].child, live[e].owner[1], type))

HandBack(e) ==
    ReturnTo(e, "back", "backed", IF live[e].outcome = "completed"
                                  THEN "ChildRunCompleted" ELSE "ChildRunFailed")

Backed(e) ==
    LET unlocked == [live[e] EXCEPT !.authorityMu = FALSE] IN
    /\ Returned(e)
    /\ IF ret[e].ok
       THEN Local(e, "backed", "resume", [unlocked EXCEPT !.claim = ret[e].claim])
       ELSE Local(e, "backed", "reconcile", Failing(unlocked))

(* The continuation: a cancelled context, no capacity, or the second turn. *)
Resume(e) ==
    /\ rtmu = "none"
    /\ \/ live[e].ctx /\ Local(e, "resume", "select",
              [live[e] EXCEPT !.want = IF closed THEN "shutdown" ELSE "cancel"])
       \/ ~live[e].ctx /\ Local(e, "resume", "continue",
                                [live[e] EXCEPT !.turns = @ \cup {"primary"}])
       \/ ~live[e].ctx /\ Local(e, "resume", "select", Failing(live[e]))

Continue(e) ==
    \E o \in TurnOutcomes(live[e]) :
        Local(e, "continue", "finish", [live[e] EXCEPT !.outcome = o])

(***************************************************************************)
(* reconcileHandoffStorageFailure: interrupt the run whatever authority    *)
(* the failed handoff left; when that fails too, persistFail is tried if   *)
(* the caller is not applyChildReturnTerminal (want "none").               *)
(***************************************************************************)
ReconcileHandoff(e) ==
    Call(e, "reconcile", "reconciled", Reconcile(e, live[e].claim.run))

(* Mutant: a failed reconcile counts as durable. *)
ReconciledAnyway(e) ==
    Returned(e) /\ Local(e, "reconciled", "cleanup", [live[e] EXCEPT !.converged = TRUE])

Reconciled(e) ==
    /\ Returned(e)
    /\ CASE ret[e].ok -> Local(e, "reconciled", "cleanup",
                               [live[e] EXCEPT !.converged = TRUE])
         [] ~ret[e].ok /\ live[e].want = "fail" -> Local(e, "reconciled", "select", live[e])
         [] OTHER -> Local(e, "reconciled", "cleanup", live[e])

(***************************************************************************)
(* applyChildReturnTerminal: return the authority, publish the claim and   *)
(* persist the primary's terminal, none of it under authorityMu.           *)
(***************************************************************************)
ReturnTerminal(e) ==
    ReturnTo(e, "return", "returned", IF live[e].intent = "shutdown"
                                      THEN "ChildRunInterrupted" ELSE "ChildRunCancelled")

ReturnedTerminal(e) ==
    /\ Returned(e)
    /\ IF ret[e].ok
       THEN Local(e, "returned", "persist",
                  Intending([live[e] EXCEPT !.claim = ret[e].claim], live[e].intent))
       ELSE Local(e, "returned", "reconcile", [live[e] EXCEPT !.want = "none"])

-----------------------------------------------------------------------------
(***************************************************************************)
(* finishPrimaryDrive.                                                     *)
(***************************************************************************)
Finish(e) ==
    IF live[e].outcome = "completed" /\ MaySelect(live[e], "complete")
    THEN Local(e, "finish", "persist", Intending(live[e], "complete"))
    ELSE Local(e, "finish", "finish_check", live[e])

FinishCheck(e) ==
    IF Ordered(live[e])
    THEN Local(e, "finish_check", "persist", Intending(live[e], live[e].intent))
    ELSE Local(e, "finish_check", "finish_closing", live[e])

FinishClosing(e) ==
    /\ rtmu = "none"
    /\ Local(e, "finish_closing",
             IF live[e].ctx /\ closed THEN "finish_select" ELSE "finish_last", live[e])

FinishSelect(e) ==
    IF MaySelect(live[e], "shutdown")
    THEN Local(e, "finish_select", "persist", Intending(live[e], "shutdown"))
    ELSE Local(e, "finish_select", "finish_last", live[e])

(* The worker alone selects complete and fail, on paths that do not lead here. *)
FinishLast(e) ==
    LET cancelled == \/ live[e].outcome = "cancelled"
                     \/ live[e].outcome = "error" /\ live[e].ctx
    IN  IF Ordered(live[e])
        THEN Local(e, "finish_last", "persist", Intending(live[e], live[e].intent))
        ELSE Local(e, "finish_last", "select",
                   [live[e] EXCEPT !.want = IF cancelled THEN "cancel" ELSE "fail"])

(* if live.selectTerminal(want) { persist }: the loser persists nothing. *)
Select(e) ==
    IF MaySelect(live[e], live[e].want)
    THEN Local(e, "select", "persist", Intending(live[e], live[e].want))
    ELSE Local(e, "select", "cleanup", live[e])

Persist(e) ==
    Call(e, "persist", "persisted", TerminalExecute(e, live[e].claim, live[e].todo[1]))

(* Mutant: the same terminal is tried for ever. *)
PersistedRetrying(e) ==
    /\ Returned(e)
    /\ IF ret[e].ok
       THEN Local(e, "persisted", "cleanup", [live[e] EXCEPT !.converged = TRUE])
       ELSE Local(e, "persisted", "persist", live[e])

Persisted(e) ==
    /\ Returned(e)
    /\ CASE ret[e].ok -> Local(e, "persisted", "cleanup",
                               [live[e] EXCEPT !.converged = TRUE])
         [] ~ret[e].ok /\ Len(live[e].todo) > 1 ->
               Local(e, "persisted", "persist", [live[e] EXCEPT !.todo = Tail(@)])
         [] OTHER -> Local(e, "persisted", "cleanup", live[e])

(* The deferred functions: close the turn, unregister, free the slot, done. *)
Cleanup(e) ==
    /\ pc[e] = "cleanup" /\ rtmu = "none"
    /\ active' = IF active # "none" /\ live[active].claim.run = live[e].claim.run
                 THEN "none" ELSE active
    /\ inflight' = inflight - 1
    /\ To(e, "exited") /\ Becomes(e, WithoutTurns(live[e]))
    /\ UNCHANGED <<kernelVars, closed, rtmu, req, stop>>

-----------------------------------------------------------------------------
(***************************************************************************)
(* The cancel handler and cancelUnderAuthority.  A canceller with a        *)
(* precondition sends the owner and fence it saw in an earlier Get.        *)
(***************************************************************************)
Ask(c, r) == req' = [req EXCEPT ![c] = r]
Quiet == UNCHANGED <<active, inflight, closed, pc, stop>>

CancelCall(c) ==
    /\ req[c].pc = "idle"
    /\ IF c \in Preconditioned
       THEN Ask(c, [req[c] EXCEPT !.pc = "peeked", !.expected =
                       [run |-> 0, owner |-> log.owner, fence |-> log.fence]])
       ELSE Ask(c, [req[c] EXCEPT !.pc = "enter"])
    /\ Quiet /\ UNCHANGED <<kernelVars, rtmu, live>>

(* Repo.Get and fabricActiveIdentity: which run the precondition is about. *)
CancelGet(c) ==
    /\ req[c].pc = "peeked" /\ op = Idle
    /\ IF Readable(log) /\ ActiveExecute(log)
       THEN Ask(c, [req[c] EXCEPT !.pc = "enter", !.expected.run = log.run.id])
       ELSE Ask(c, [req[c] EXCEPT !.pc = "durable"])
    /\ Quiet /\ UNCHANGED <<kernelVars, rtmu, live>>

CancelEnter(c) ==
    /\ req[c].pc = "enter" /\ rtmu = "none"
    /\ IF active = "none"
       THEN /\ Ask(c, [req[c] EXCEPT !.pc = IF c \in Preconditioned THEN "fenced"
                                            ELSE "durable"])
            /\ UNCHANGED rtmu
       ELSE Ask(c, [req[c] EXCEPT !.pc = "authority", !.target = active]) /\ rtmu' = c
    /\ Quiet /\ UNCHANGED <<kernelVars, live>>

(* Under rt.mu and authorityMu: check the precondition, select Cancel. *)
Observes(c) == req[c].pc = "authority" /\ ~live[req[c].target].authorityMu

(* Mutant: the run of the precondition is compared, its owner and fence are not. *)
MatchesRun(c, claim) == c \in Preconditioned => claim.run = req[c].expected.run

Matches(c, claim) == c \in Preconditioned => claim = req[c].expected

CancelSelect(c) ==
    LET e == req[c].target
        matches == Matches(c, live[e].claim)
    IN  /\ Observes(c)
        /\ rtmu' = "none"
        /\ Ask(c, [req[c] EXCEPT !.pc = IF matches THEN "signal" ELSE "fenced",
                                 !.held = live[e].claim])
        /\ Becomes(e, IF matches /\ MaySelect(live[e], "cancel")
                      THEN [live[e] EXCEPT !.intent = "cancel"] ELSE live[e])
        /\ Quiet /\ UNCHANGED kernelVars

CancelSignal(c) ==
    /\ req[c].pc = "signal"
    /\ Ask(c, [req[c] EXCEPT !.pc = "await"])
    /\ Becomes(req[c].target, [live[req[c].target] EXCEPT !.ctx = TRUE])
    /\ Quiet /\ UNCHANGED <<kernelVars, rtmu>>

(* Mutant: the worker's exit is taken for success. *)
CancelAwaitExit(c) ==
    /\ req[c].pc = "await"
    /\ pc[req[c].target] = "exited" \/ Impatient
    /\ Ask(c, [req[c] EXCEPT !.pc =
           IF live[req[c].target].intent = "cancel" THEN "ok"
           ELSE IF c \in Preconditioned THEN "fenced" ELSE "durable"])
    /\ Quiet /\ UNCHANGED <<kernelVars, rtmu, live>>

CancelAwait(c) ==
    LET l == live[req[c].target] IN
    /\ req[c].pc = "await"
    /\ pc[req[c].target] = "exited" \/ Impatient
    /\ Ask(c, [req[c] EXCEPT !.pc =
           IF l.intent = "cancel"
           THEN IF l.converged THEN "ok" ELSE "persist_failed"
           ELSE IF c \in Preconditioned THEN "fenced" ELSE "durable"])
    /\ Quiet /\ UNCHANGED <<kernelVars, rtmu, live>>

(* hasActive: a mismatch or a miss is a conflict while the run is live. *)
CancelFenced(c) ==
    /\ req[c].pc = "fenced" /\ rtmu = "none"
    /\ Ask(c, [req[c] EXCEPT !.pc =
           IF active # "none" /\ live[active].claim.run = req[c].expected.run
           THEN "fencing" ELSE "durable"])
    /\ Quiet /\ UNCHANGED <<kernelVars, rtmu, live>>

(* Repo.CancelTask reads under Repo.mu, gives it up, and writes under it. *)
Expected(c) == [req[c].expected EXCEPT !.run = 0]

CancelTask(c) ==
    LET claim == CancelClaim(log)
        agrees == \/ Expected(c) = NoClaim
                  \/ Expected(c) = [claim EXCEPT !.run = 0]
    IN  /\ req[c].pc = "durable" /\ op = Idle
        /\ IF Readable(log) /\ Active(log) /\ log.run.id # 0
           THEN Ask(c, [req[c] EXCEPT !.pc = IF agrees THEN "cancel_execute" ELSE "error",
                                      !.claim = claim])
           ELSE Ask(c, [req[c] EXCEPT !.pc = "lifecycle"])
        /\ Quiet /\ UNCHANGED <<kernelVars, rtmu, live>>

CancelLifecycle(c) ==
    /\ req[c].pc = "lifecycle"
    /\ AppendLifecycle(c, "TaskCancelled", Expected(c))
    /\ Ask(c, [req[c] EXCEPT !.pc = "wrote"])
    /\ Quiet /\ UNCHANGED <<rtmu, live>>

CancelExecute(c) ==
    /\ req[c].pc = "cancel_execute"
    /\ TerminalExecute(c, req[c].claim, "RunCancelled")
    /\ Ask(c, [req[c] EXCEPT !.pc = "wrote"])
    /\ Quiet /\ UNCHANGED <<rtmu, live>>

CancelWrote(c) ==
    /\ req[c].pc = "wrote" /\ Returned(c)
    /\ Ask(c, [req[c] EXCEPT !.pc = IF ret[c].ok THEN "durable_ok" ELSE "error"])
    /\ Quiet /\ UNCHANGED <<kernelVars, rtmu, live>>

-----------------------------------------------------------------------------
(***************************************************************************)
(* shutdown.                                                               *)
(***************************************************************************)
ShutdownClose ==
    /\ stop.pc = "idle" /\ "stop" \in Stops /\ rtmu = "none"
    /\ closed' = TRUE
    /\ stop' = [pc |-> "signal", target |-> active]
    /\ live' = [e \in Executors |-> IF e = active /\ MaySelect(live[e], "shutdown")
                                    THEN [live[e] EXCEPT !.intent = "shutdown"]
                                    ELSE live[e]]
    /\ UNCHANGED <<kernelVars, active, inflight, rtmu, pc, req>>

(* rootCancel: every context derived from the root is cancelled. *)
ShutdownSignal ==
    /\ stop.pc = "signal"
    /\ stop' = [stop EXCEPT !.pc = IF stop.target = "none" THEN "stopped"
                                   ELSE "await"]
    /\ live' = [e \in Executors |-> [live[e] EXCEPT !.ctx = TRUE]]
    /\ UNCHANGED <<kernelVars, active, inflight, closed, rtmu, pc, req>>

ShutdownAwait ==
    /\ stop.pc = "await"
    /\ \/ pc[stop.target] = "exited" /\ stop' = [stop EXCEPT !.pc = "stopped"]
       \/ Impatient /\ stop' = [stop EXCEPT !.pc =
              IF live[stop.target].intent = "shutdown" THEN "interrupt" ELSE "stopped"]
    /\ UNCHANGED <<kernelVars, active, inflight, closed, rtmu, pc, live, req>>

ShutdownInterrupt ==
    /\ stop.pc = "interrupt"
    /\ TerminalExecute("stop", live[stop.target].claim, "RunInterrupted")
    /\ stop' = [stop EXCEPT !.pc = "stopped"]
    /\ UNCHANGED <<active, inflight, closed, rtmu, pc, live, req>>

-----------------------------------------------------------------------------
Execute(e) ==
    \/ Admit(e) \/ AcquireTurn(e) \/ BeginRun(e) \/ BeginFailed(e) \/ Register(e)
    \/ Abort(e) \/ Aborted(e) \/ ReleaseSlot(e)

Drive(e) ==
    \/ Routing(e) \/ PrimaryTurn(e) \/ PlanChild(e) \/ AcquireChild(e) \/ LockOut(e)
    \/ HandOut(e) \/ Handed(e) \/ ChildRouting(e) \/ ChildTurn(e) \/ LockBack(e)
    \/ HandBack(e) \/ Backed(e) \/ Resume(e) \/ Continue(e)
    \/ ReconcileHandoff(e) \/ Reconciled(e) \/ ReturnTerminal(e) \/ ReturnedTerminal(e)
    \/ Finish(e) \/ FinishCheck(e) \/ FinishClosing(e) \/ FinishSelect(e)
    \/ FinishLast(e) \/ Select(e) \/ Persist(e) \/ Persisted(e) \/ Cleanup(e)

Cancel(c) ==
    \/ CancelCall(c) \/ CancelGet(c) \/ CancelEnter(c) \/ CancelSelect(c)
    \/ CancelSignal(c) \/ CancelAwait(c) \/ CancelFenced(c) \/ CancelTask(c)
    \/ CancelLifecycle(c) \/ CancelExecute(c) \/ CancelWrote(c)

Shutdown == ShutdownClose \/ ShutdownSignal \/ ShutdownAwait \/ ShutdownInterrupt

Work == KernelStep /\ UNCHANGED runtimeVars

(* Nothing is left to do: every request was answered, no worker runs. *)
Finished ==
    /\ op = Idle
    /\ \A e \in Executors : pc[e] \in {"rejected", "exited"}
    /\ \A c \in Cancellers : req[c].pc \in Results
    /\ Stops # {} => stop.pc = "stopped"

Rest == Finished /\ UNCHANGED vars

Next ==
    \/ \E e \in Executors : Execute(e) \/ Drive(e)
    \/ \E c \in Cancellers : Cancel(c)
    \/ Shutdown \/ Work \/ Rest

Spec == Init /\ [][Next]_vars

(***************************************************************************)
(* Fairness: a goroutine that can go on is scheduled in the end, a mutex   *)
(* that stays free is granted, and a model turn ends (it runs under the    *)
(* request timeouts).  A request (Admit, CancelCall, ShutdownClose) need   *)
(* not arrive.                                                             *)
(***************************************************************************)
LiveSpec ==
    /\ Spec
    /\ WF_vars(Work)
    /\ \A e \in Executors :
          /\ WF_vars(Drive(e))
          /\ WF_vars(Execute(e) /\ pc[e] # "idle")
    /\ \A c \in Cancellers : WF_vars(Cancel(c) /\ req[c].pc # "idle")
    /\ WF_vars(Shutdown /\ stop.pc # "idle")

-----------------------------------------------------------------------------
RunOf(e) == live[e].claim.run

(***************************************************************************)
(* A cancel that is answered with success is durable: the run it was aimed *)
(* at has a terminal in the log, whatever failed on the way.               *)
(***************************************************************************)
CancelSuccessIsDurable ==
    \A c \in Cancellers : req[c].pc = "ok" => log.run.id # RunOf(req[c].target)

(***************************************************************************)
(* durableConverged is honest: it is set only on a run that has its        *)
(* terminal in the log.                                                    *)
(***************************************************************************)
ConvergedIsDurable ==
    \A e \in Executors : live[e].converged => log.run.id # RunOf(e)

(***************************************************************************)
(* Nothing leaks: inflight counts exactly the requests between admission   *)
(* and exit on every path out, and one that is out holds no resource turn, *)
(* no authorityMu and no registration.                                     *)
(***************************************************************************)
SlotsBalanced ==
    /\ inflight = Cardinality({e \in Executors : pc[e] \notin {"idle", "rejected", "exited"}})
    /\ \A e \in Executors : pc[e] \in {"rejected", "exited"} =>
          live[e].turns = {} /\ ~live[e].authorityMu /\ active # e

(***************************************************************************)
(* Two workers never drive the task at once, and a worker whose run the    *)
(* log shows active is the registered one, so a cancel finds it.  A run    *)
(* that became durable and was then kept from registering, by a shutdown   *)
(* or by another run that is still registered, is one its handler can end: *)
(* it is over, or the claim the handler aborts it with is the authority.   *)
(***************************************************************************)
DrivenAlone == \A e, f \in Executors : pc[e] \in Workers /\ pc[f] \in Workers => e = f

DriverRegistered ==
    \A e \in Executors : pc[e] \in Workers => active = e \/ log.run.id # RunOf(e)

AbortHasAuthority ==
    \A e \in Executors : pc[e] = "abort" => log.run.id # RunOf(e) \/ Holds(live[e].claim)

ActiveRunIsCancellable == DrivenAlone /\ DriverRegistered /\ AbortHasAuthority

(***************************************************************************)
(* The terminal intent is chosen once: later competing intents cannot      *)
(* overwrite it, and a run is completed in the log only if its worker      *)
(* selected complete before any cancel or shutdown did.                    *)
(***************************************************************************)
FirstIntentWins ==
    [][\A e \in Executors :
          /\ live[e].intent # "none" => live'[e].intent = live[e].intent
          /\ log.run.id = RunOf(e) /\ RunOf(e) # 0 /\ log'.run.id = 0
             /\ log'.state = "completed" => live[e].intent = "complete"]_vars

(***************************************************************************)
(* A cancel that names an owner and a fence stops only that authority,     *)
(* live or durably, even when runs and handoffs went by between the Get it *)
(* was made from, the Get of the handler, and its turn at the locks.       *)
(***************************************************************************)
StopsOnlyExpected(c) ==
    /\ req[c].pc \in {"signal", "await", "ok", "persist_failed"} =>
          req[c].held = req[c].expected
    /\ op.caller = c /\ op.kind = "end" => [op.claim EXCEPT !.run = 0] = Expected(c)

NamedAuthorityRespected ==
    \A c \in Preconditioned : Expected(c) # NoClaim => StopsOnlyExpected(c)

(***************************************************************************)
(* Everyone gets out: once admitted, a request ends in a rejection or its  *)
(* worker exits; a cancel is answered; a shutdown finishes.                *)
(***************************************************************************)
EveryoneReturns ==
    /\ \A e \in Executors : pc[e] # "idle" ~> pc[e] \in {"rejected", "exited"}
    /\ \A c \in Cancellers : req[c].pc # "idle" ~> req[c].pc \in Results
    /\ closed ~> stop.pc = "stopped"
=============================================================================
