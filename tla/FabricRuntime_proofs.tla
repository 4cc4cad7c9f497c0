-------------------------- MODULE FabricRuntime_proofs --------------------------
(***************************************************************************)
(* What the live side of Fabric execution guarantees for any number of     *)
(* execute and cancel requests, with or without a shutdown, preconditions  *)
(* and delegation, and for any number of refused writes.                   *)
(***************************************************************************)
EXTENDS FabricRuntime, FabricKernel_proofs, FiniteSetTheorems, TLAPS

(***************************************************************************)
(* Where an executor is.  Setup is from admission to the end of a request  *)
(* that does not get a worker; at CallPcs it waits for its kernel call.    *)
(***************************************************************************)
Off == {"idle", "rejected", "exited"}
Starting == {"idle", "admitted", "begin", "begun"}
Setup == {"admitted", "begin", "begun", "abort", "aborted", "release_slot"}
CallPcs == {"begun", "aborted", "handed", "backed", "returned", "persisted", "reconciled"}
Unturned == Off \cup {"admitted", "abort", "aborted", "release_slot"}
Locked == {"out", "handed", "back", "backed"}
WithChild == {"child_routing", "child_turn", "lock_back", "back", "return"}
Started == Workers \cup {"abort", "aborted", "exited"}

Live == [claim: Claim, child: Claim, owner: Owner, intent: Intents,
         ctx: BOOLEAN, converged: BOOLEAN, authorityMu: BOOLEAN,
         turns: SUBSET {"primary", "child"}, outcome: Outcomes,
         todo: Seq(RunTerminals), want: Intents]
Request == [pc: RequestPcs, target: Executors \cup {"none"}, expected: Claim,
            claim: Claim, held: Claim]
Stopping == [pc: {"idle", "signal", "await", "interrupt", "stopped"},
             target: Executors \cup {"none"}]

RuntimeTypes ==
    /\ KernelOK
    /\ active \in Executors \cup {"none"}
    /\ closed \in BOOLEAN /\ rtmu \in Cancellers \cup {"none"}
    /\ pc \in [Executors -> Handlers \cup Workers]
    /\ live \in [Executors -> Live]
    /\ req \in [Cancellers -> Request]
    /\ stop \in Stopping

(***************************************************************************)
(* What an executor knows where it is: what it still holds, whether it has *)
(* a run, and which terminals it may yet try.                              *)
(***************************************************************************)
HeldOK(at, l) ==
    /\ at \in Unturned => l.turns = {}
    /\ l.authorityMu => at \in Locked

RunOK(at, l) ==
    /\ at \in Starting => l.claim.run = 0
    /\ at \in Started => l.claim.run # 0
    /\ at \in WithChild => l.child.run = l.claim.run
    /\ l.converged => l.claim.run # 0

OnlyIfComplete(l) ==
    \A i \in 1..Len(l.todo) : l.todo[i] = "RunCompleted" => l.intent = "complete"

TermOK(at, l) ==
    /\ at \in {"return", "returned"} => Ordered(l)
    /\ at = "select" => l.want # "none"
    /\ at \in {"persist", "abort"} => Len(l.todo) > 0
    /\ OnlyIfComplete(l)

Shape(at, l) == HeldOK(at, l) /\ RunOK(at, l) /\ TermOK(at, l)

ShapeInv == \A e \in Executors : Shape(pc[e], live[e])

(***************************************************************************)
(* rt.active is the one worker there is, and inflight counts the requests  *)
(* that hold a slot.                                                       *)
(***************************************************************************)
Registered == \A e \in Executors : pc[e] \in Workers <=> active = e

Busy == {e \in Executors : pc[e] \notin Off}
SlotsInv == IsFiniteSet(Busy) /\ inflight = Cardinality(Busy)

(* A run that is converged is not the run of the log. *)
DurableInv == \A e \in Executors : live[e].converged => log.run.id # RunOf(e)

(***************************************************************************)
(* Whose program holds Repo.mu: the caller waits for it at the step that   *)
(* started it, with the claim it was called with.                          *)
(***************************************************************************)
Drives(e) ==
    \/ op.kind = "begin" /\ pc[e] = "begun" /\ op.claim.run # 0
    \/ /\ op.kind # "begin" /\ op.claim.run = RunOf(e)
       /\ \/ op.kind = "to_child" /\ pc[e] = "handed"
          \/ op.kind = "to_parent" /\ pc[e] \in {"backed", "returned"}
          \/ op.kind = "end" /\ pc[e] \in {"persisted", "aborted"}
             /\ (op.type = "RunCompleted" => live[e].intent = "complete")
          \/ op.kind = "reconcile" /\ pc[e] = "reconciled"

Agrees(c) == Expected(c) = NoClaim \/ [req[c].claim EXCEPT !.run = 0] = Expected(c)

Cancels(c) ==
    /\ op.kind = "end" /\ op.type = "RunCancelled"
    /\ req[c].pc = "wrote" /\ op.claim = req[c].claim /\ Agrees(c)

OwnedInv ==
    /\ op.caller = "none" => op = Idle
    /\ op.caller # "none" => ret[op.caller] = NoResult
    /\ \A e \in Executors : op.caller = e => Drives(e)
    /\ \A c \in Cancellers : op.caller = c => Cancels(c)
    /\ op.caller \in Stops => op.kind = "end" /\ op.type = "RunInterrupted"

(* What an executor learns from a call that succeeded. *)
AnswerOK(e) ==
    ret[e].ok => /\ pc[e] = "begun" => ret[e].claim.run # 0
                 /\ pc[e] \in {"handed", "backed", "returned"} => ret[e].claim.run = RunOf(e)
                 /\ pc[e] \in {"persisted", "reconciled"} => log.run.id # RunOf(e)

AnswerInv == \A e \in Executors : AnswerOK(e)

(***************************************************************************)
(* The run id an executor drew from newRunID, from BeginExecute on: no two *)
(* executors share one.                                                    *)
(***************************************************************************)
Drawn(e) == IF pc[e] # "begun" THEN RunOf(e)
            ELSE IF ret[e].ok THEN ret[e].claim.run
            ELSE IF op.caller = e THEN op.claim.run ELSE 0

FreshInv ==
    \A e \in Executors :
       /\ Drawn(e) <= runs
       /\ \A f \in Executors : e # f /\ Drawn(e) = Drawn(f) => Drawn(e) = 0

(* Whom a cancel and the shutdown have in their sights. *)
Aimed == {"authority", "signal", "await", "ok", "persist_failed"}

Aims(c) ==
    /\ req[c].pc \in Aimed => /\ req[c].target \in Executors
                              /\ pc[req[c].target] \in Workers \cup {"exited"}
    /\ c \in Preconditioned /\ req[c].pc \in Aimed \ {"authority"} =>
          req[c].held = req[c].expected
    /\ req[c].pc = "ok" => live[req[c].target].converged
    /\ req[c].pc = "cancel_execute" => Agrees(c)

StopOK(s) ==
    /\ s.pc # "idle" => "stop" \in Stops
    /\ s.pc \in {"await", "interrupt"} => s.target \in Executors

TargetInv == (\A c \in Cancellers : Aims(c)) /\ StopOK(stop)

RuntimeInv ==
    /\ RuntimeTypes /\ OpRun /\ Registered /\ SlotsInv /\ ShapeInv /\ DurableInv
    /\ OwnedInv /\ AnswerInv /\ FreshInv /\ TargetInv

(* An intent once chosen stays. *)
Kept(v, l) == v.intent # "none" => l.intent = v.intent
IntentKept == \A e \in Executors : Kept(live[e], live'[e])

(* Executors, cancellers and the shutdown are distinct actors, and nobody is "none". *)
LEMMA ActorFacts ==
    /\ "none" \notin Executors /\ "none" \notin Cancellers /\ "none" \notin Stops
    /\ Executors \subseteq Callers /\ Cancellers \subseteq Callers /\ Stops \subseteq Callers
    /\ Callers = Executors \cup Cancellers \cup Stops
    /\ \A e \in Executors : e \notin Cancellers /\ e \notin Stops
    /\ \A c \in Cancellers : c \notin Executors /\ c \notin Stops
  BY ActorsAssumption

(* Who holds Repo.mu is an actor or nobody. *)
LEMMA CallerFacts ==
    ASSUME RuntimeTypes, OwnedInv
    PROVE  /\ op \in Operation /\ ret \in [Callers -> Result]
           /\ op.caller \in Executors \/ op.caller \in Cancellers \/ op.caller \in Stops
              \/ op.caller = "none"
           /\ op.caller = "none" => op = Idle
  BY ActorFacts DEF RuntimeTypes, KernelOK, OpOK, RetOK, OwnedInv, Operation

(* At most the same slots are taken: the count stands. *)
LEMMA SameSlots ==
    ASSUME SlotsInv, \A e \in Executors : pc'[e] \in Off <=> pc[e] \in Off,
           inflight' = inflight
    PROVE  SlotsInv'
<1>1. Busy' = Busy
  BY DEF Busy
<1> QED BY <1>1 DEF SlotsInv

(* An executor that is admitted takes one slot more: beginExecute's increment of inflight. *)
LEMMA OneSlotMore ==
    ASSUME SlotsInv, NEW e \in Executors, pc[e] \in Off, pc'[e] \notin Off,
           \A f \in Executors : f # e => pc'[f] = pc[f], inflight' = inflight + 1
    PROVE  SlotsInv'
<1>1. Busy' = Busy \cup {e} /\ e \notin Busy
  BY DEF Busy
<1>2. IsFiniteSet(Busy') /\ Cardinality(Busy') = Cardinality(Busy) + 1
  BY <1>1, FS_AddElement DEF SlotsInv
<1> QED BY <1>2 DEF SlotsInv

(* An executor that lets go of its slot takes one off: finishInflight. *)
LEMMA OneSlotLess ==
    ASSUME SlotsInv, NEW e \in Executors, pc[e] \notin Off, pc'[e] \in Off,
           \A f \in Executors : f # e => pc'[f] = pc[f], inflight' = inflight - 1
    PROVE  SlotsInv'
<1>1. Busy' = Busy \ {e} /\ e \in Busy
  BY DEF Busy
<1>2. IsFiniteSet(Busy') /\ Cardinality(Busy') = Cardinality(Busy) - 1
  BY <1>1, FS_RemoveElement DEF SlotsInv
<1> QED BY <1>2 DEF SlotsInv

(* A step outside the kernel leaves it as it is. *)
LEMMA KernelStays ==
    ASSUME KernelOK, OpRun, UNCHANGED kernelVars
    PROVE  /\ KernelOK' /\ OpRun'
           /\ log' = log /\ op' = op /\ ret' = ret /\ runs' = runs
  BY DEF kernelVars, KernelOK, OpOK, RetOK, BoundsOK, OpRun, OpShape, Names, Active

(***************************************************************************)
(* A step of one executor that keeps its run: what it must hand on.        *)
(***************************************************************************)
Fit(v, at, l) ==
    l \in Live /\ Shape(at, l) /\ l.claim.run = v.claim.run /\ Kept(v, l)

Staying(from, to) ==
    /\ to \notin CallPcs
    /\ \/ from \in Workers /\ to \in Workers
       \/ from \in Setup /\ to \in Setup

(* It may call its run converged once the log shows it ended. *)
Settles(e, l) ==
    \/ l.converged = live[e].converged
    \/ (live[e].converged => l.converged) /\ log.run.id # RunOf(e)

(* A step that stays within a handler or within a worker keeps the slot of its request. *)
LEMMA StayingFacts ==
    ASSUME NEW from, NEW to, Staying(from, to)
    PROVE  /\ from \in Handlers \cup Workers /\ to \in Handlers \cup Workers
           /\ from \notin Off /\ to \notin Off
           /\ from \in Workers <=> to \in Workers
  BY DEF Staying, Off, Setup, Handlers, Workers

(* An executor that waits for no call, or whose call is over, holds no program. *)
LEMMA NotTheCaller ==
    ASSUME RuntimeTypes, OwnedInv, NEW e \in Executors, pc[e] \in CallPcs => Returned(e)
    PROVE  op.caller # e
<1>1. CASE Returned(e)
  BY <1>1, ActorFacts DEF OwnedInv, Returned, NoResult
<1>2. CASE pc[e] \notin CallPcs
  BY <1>2 DEF OwnedInv, Drives, CallPcs
<1> QED BY <1>1, <1>2

(* A step that edits only the executor's own fields, at a place those fields fit, keeps the
   invariant. *)
LEMMA LocalStep ==
    ASSUME RuntimeInv, NEW e \in Executors, NEW from, NEW to, NEW l,
           Local(e, from, to, l), Staying(from, to), from \in CallPcs => Returned(e),
           Fit(live[e], to, l), Settles(e, l)
    PROVE  RuntimeInv' /\ IntentKept
<1> DEFINE v == live[e]
<1>c. \/ l.converged = live[e].converged
      \/ (live[e].converged => l.converged) /\ log.run.id # RunOf(e)
  BY DEF Settles
<1>1. /\ RuntimeTypes /\ OpRun /\ Registered /\ SlotsInv /\ ShapeInv /\ DurableInv
      /\ OwnedInv /\ AnswerInv /\ FreshInv /\ TargetInv
  BY DEF RuntimeInv
<1>2. /\ UNCHANGED kernelVars /\ active' = active /\ inflight' = inflight
      /\ closed' = closed /\ rtmu' = rtmu /\ req' = req /\ stop' = stop /\ pc[e] = from
  BY DEF Local
<1>3. /\ KernelOK' /\ OpRun' /\ log' = log /\ op' = op /\ ret' = ret /\ runs' = runs
  BY <1>1, <1>2, KernelStays DEF RuntimeTypes
<1>4. /\ pc' \in [Executors -> Handlers \cup Workers] /\ live' \in [Executors -> Live]
      /\ pc'[e] = to /\ live'[e] = l
      /\ \A f \in Executors : f # e => pc'[f] = pc[f] /\ live'[f] = live[f]
  BY <1>1, StayingFacts DEF Local, To, Becomes, RuntimeTypes, Fit
<1>5. RuntimeTypes'
  BY <1>1, <1>2, <1>3, <1>4 DEF RuntimeTypes
<1>6. Registered'
  BY <1>1, <1>2, <1>4, StayingFacts DEF Registered
<1>7. SlotsInv'
  BY <1>1, <1>2, <1>4, StayingFacts, SameSlots
<1>8. ShapeInv'
  BY <1>1, <1>4 DEF ShapeInv, Fit
<1>9. op.caller # e
  BY <1>1, <1>2, NotTheCaller
<1>10. l.claim.run = v.claim.run
  BY DEF Fit
<1>11. DurableInv'
  <2>1. \A f \in Executors : live'[f].claim.run = live[f].claim.run
    BY <1>4, <1>10
  <2>2. l.converged => log.run.id # v.claim.run
    BY <1>1, <1>c DEF DurableInv, RunOf
  <2> QED BY <1>1, <1>3, <1>4, <2>1, <2>2 DEF DurableInv, RunOf
<1>12. OwnedInv'
  BY <1>1, <1>2, <1>3, <1>4, <1>9 DEF OwnedInv, Drives, Cancels, Agrees, Expected, RunOf
<1>13. AnswerInv'
  BY <1>1, <1>3, <1>4 DEF AnswerInv, AnswerOK, RunOf, Staying, CallPcs
<1>14. FreshInv'
  <2>1. \A f \in Executors : f # e => Drawn(f)' = Drawn(f)
    BY <1>3, <1>4 DEF Drawn, RunOf
  <2>2. Drawn(e)' = v.claim.run
    BY <1>4, <1>10 DEF Drawn, RunOf, Staying, CallPcs
  <2>3. Drawn(e)' = Drawn(e) \/ Drawn(e)' = 0
    <3>1. CASE pc[e] = "begun"
      BY <1>1, <2>2, <3>1 DEF ShapeInv, Shape, RunOK, Starting
    <3>2. CASE pc[e] # "begun"
      BY <2>2, <3>2 DEF Drawn, RunOf
    <3> QED BY <3>1, <3>2
  <2>4. 0 <= runs
    BY <1>1, BoundsAssumption DEF RuntimeTypes, KernelOK, BoundsOK
  <2> HIDE DEF v
  <2> QED BY <1>1, <1>3, <2>1, <2>3, <2>4 DEF FreshInv
<1>15. TargetInv'
  <2>1. \A f \in Executors : /\ live'[f].claim.run = live[f].claim.run
                             /\ live[f].converged => live'[f].converged
                             /\ pc[f] \in Workers \cup {"exited"} =>
                                   pc'[f] \in Workers \cup {"exited"}
    BY <1>2, <1>4, <1>10, <1>c, StayingFacts DEF Off
  <2>2. \A c \in Cancellers : Aims(c)'
    BY <1>1, <1>2, <2>1 DEF TargetInv, Aims, Agrees, Expected, RunOf, Aimed
  <2> QED BY <1>1, <1>2, <2>2 DEF TargetInv
<1>16. IntentKept
  BY <1>4 DEF IntentKept, Kept, Fit
<1> QED BY <1>3, <1>5, <1>6, <1>7, <1>8, <1>11, <1>12, <1>13, <1>14, <1>15, <1>16
        DEF RuntimeInv

(***************************************************************************)
(* A call of an executor that has its run: it is over, or the program it   *)
(* starts is about that run.                                               *)
(***************************************************************************)
LEMMA CallStep ==
    ASSUME RuntimeInv, NEW e \in Executors, NEW from, NEW to,
           pc[e] = from, To(e, to), UNCHANGED <<active, inflight, closed, rtmu, live, req, stop>>,
           \/ from \in Workers /\ to \in Workers
           \/ from = "abort" /\ to = "aborted",
           Shape(to, live[e]),
           op = Idle, KernelOK', OpRun', runs' = runs, log'.run = log.run,
           \/ op' = Idle /\ \E r \in Result : /\ ret' = [ret EXCEPT ![e] = r]
                                              /\ r.ok => to \notin CallPcs
           \/ op'.caller = e /\ ret' = [ret EXCEPT ![e] = NoResult] /\ Drives(e)'
    PROVE  RuntimeInv' /\ IntentKept
<1>1. /\ RuntimeTypes /\ OpRun /\ Registered /\ SlotsInv /\ ShapeInv /\ DurableInv
      /\ OwnedInv /\ AnswerInv /\ FreshInv /\ TargetInv
  BY DEF RuntimeInv
<1>2. /\ active' = active /\ inflight' = inflight /\ live' = live
      /\ closed' = closed /\ rtmu' = rtmu /\ req' = req /\ stop' = stop
  OBVIOUS
<1>3. /\ from \in Handlers \cup Workers /\ to \in Handlers \cup Workers
      /\ from \notin Off /\ to \notin Off /\ from # "begun" /\ to # "begun"
  BY DEF Off, Handlers, Workers
<1>w. from \in Workers <=> to \in Workers
  BY DEF Workers
<1>4. /\ pc' \in [Executors -> Handlers \cup Workers] /\ pc'[e] = to
      /\ \A f \in Executors : f # e => pc'[f] = pc[f]
  BY <1>1, <1>3 DEF To, RuntimeTypes
<1>5. /\ ret' \in [Callers -> Result] /\ \A c \in Callers : c # e => ret'[c] = ret[c]
      /\ op'.caller = "none" \/ op'.caller = e
      /\ op'.caller = "none" => op' = Idle
      /\ op'.caller = e => ret'[e] = NoResult /\ Drives(e)'
      /\ ret'[e].ok => to \notin CallPcs
  <2>1. /\ e \in Callers /\ e # "none" /\ ret \in [Callers -> Result] /\ NoResult \in Result
        /\ NoResult.ok = FALSE /\ Idle.caller = "none"
    BY <1>1, ActorFacts, ResultTypes DEF RuntimeTypes, KernelOK, RetOK, NoResult, Idle
  <2>2. CASE op' = Idle
    BY <2>1, <2>2
  <2>3. CASE op'.caller = e /\ ret' = [ret EXCEPT ![e] = NoResult] /\ Drives(e)'
    BY <2>1, <2>3
  <2> QED BY <2>2, <2>3
<1>6. RuntimeTypes'
  BY <1>1, <1>2, <1>4 DEF RuntimeTypes
<1>7. Registered'
  BY <1>1, <1>2, <1>4, <1>w DEF Registered
<1>8. SlotsInv'
  BY <1>1, <1>2, <1>3, <1>4, SameSlots
<1>9. ShapeInv'
  BY <1>1, <1>2, <1>4 DEF ShapeInv
<1>10. DurableInv'
  BY <1>1, <1>2 DEF DurableInv, RunOf
<1>11. OwnedInv'
  <2>1. op'.caller # "none" => ret'[op'.caller] = NoResult
    BY <1>5, ActorFacts
  <2>2. \A f \in Executors : op'.caller = f => Drives(f)'
    BY <1>5, ActorFacts
  <2>3. \A c \in Cancellers \cup Stops : op'.caller # c
    BY <1>5, ActorFacts
  <2> QED BY <1>5, <2>1, <2>2, <2>3 DEF OwnedInv
<1>12. AnswerInv'
  <2>1. AnswerOK(e)'
    BY <1>4, <1>5 DEF AnswerOK, CallPcs
  <2>2. ASSUME NEW f \in Executors, f # e PROVE AnswerOK(f)'
    <3>1. ret'[f] = ret[f] /\ pc'[f] = pc[f] /\ AnswerOK(f)
      BY <1>1, <1>4, <1>5, <2>2, ActorFacts DEF AnswerInv
    <3> QED BY <1>2, <3>1 DEF AnswerOK, RunOf
  <2> QED BY <2>1, <2>2 DEF AnswerInv
<1>13. FreshInv'
  <2>1. ASSUME NEW f \in Executors PROVE Drawn(f)' = Drawn(f)
    <3>1. CASE f = e
      BY <1>2, <1>3, <1>4, <3>1 DEF Drawn, RunOf
    <3>2. CASE f # e
      <4>1. ret'[f] = ret[f] /\ pc'[f] = pc[f] /\ op'.caller # f /\ op.caller # f
        BY <1>4, <1>5, <3>2, ActorFacts DEF Idle
      <4> QED BY <1>2, <4>1 DEF Drawn, RunOf
    <3> QED BY <3>1, <3>2
  <2> QED BY <1>1, <2>1 DEF FreshInv
<1>14. TargetInv'
  <2>1. \A f \in Executors : pc[f] \in Workers \cup {"exited"} =>
                                pc'[f] \in Workers \cup {"exited"}
    BY <1>3, <1>4, <1>w DEF Off
  <2>2. \A c \in Cancellers : Aims(c)'
    BY <1>1, <1>2, <2>1 DEF TargetInv, Aims, Agrees, Expected, RunOf
  <2> QED BY <1>1, <1>2, <2>2 DEF TargetInv
<1>15. IntentKept
  BY <1>2 DEF IntentKept, Kept
<1> QED BY <1>6, <1>7, <1>8, <1>9, <1>10, <1>11, <1>12, <1>13, <1>14, <1>15 DEF RuntimeInv

(***************************************************************************)
(* A step of the program that holds Repo.mu: its caller learns the result, *)
(* and the log takes only the run its caller begins.                       *)
(***************************************************************************)
LEMMA WorkStep ==
    ASSUME RuntimeInv, Work
    PROVE  RuntimeInv' /\ IntentKept
<1>1. /\ RuntimeTypes /\ OpRun /\ Registered /\ SlotsInv /\ ShapeInv /\ DurableInv
      /\ OwnedInv /\ AnswerInv /\ FreshInv /\ TargetInv /\ KernelOK
  BY DEF RuntimeInv, RuntimeTypes
<1>2. /\ active' = active /\ inflight' = inflight /\ live' = live /\ pc' = pc
      /\ closed' = closed /\ rtmu' = rtmu /\ req' = req /\ stop' = stop
  BY DEF Work, runtimeVars
<1>3. /\ KernelOK' /\ OpRun' /\ Proceeds /\ RunChanges /\ runs' = runs
  BY <1>1, StepRun, KernelStepTypes DEF Work
<1>4. op \in Operation /\ ret \in [Callers -> Result] /\ op.caller \in Callers \cup {"none"}
  BY <1>1, CallerFacts DEF Operation
<1>c. op.caller # "none"
  <2>1. KernelStep => op.kind # "none"
    BY <1>1 DEF KernelStep, RunStarted, AbandonBegin, EndChild, EndRun, EndRelease,
       ProposeHandoff, CommitHandoffFrom, HandoffFailed, HandoffCommitted, ChildRunStarted,
       ReturnChild, ReconcileRollback, ReconcileChild, ReconcileRun, Step, OpRun, OpShape
  <2> QED BY <1>1, <2>1 DEF Work, OwnedInv, Idle
<1>5. \/ /\ op'.kind = op.kind /\ op'.caller = op.caller /\ op'.claim = op.claim
         /\ op'.type = op.type /\ ret' = ret
      \/ \E r \in Result : op' = Idle /\ ret' = [ret EXCEPT ![op.caller] = r] /\ Answers(r)
  BY <1>3, <1>4, GotoFacts DEF Proceeds, Return
<1>6. \A e \in Executors : RunOf(e) # 0 /\ pc[e] # "begun" /\ log.run.id # RunOf(e) =>
         log'.run.id # RunOf(e)
  <2> SUFFICES ASSUME NEW e \in Executors, RunOf(e) # 0, pc[e] # "begun",
                      log.run.id # RunOf(e), op.kind = "begin", log'.run.id = op.claim.run
               PROVE  log'.run.id # RunOf(e)
    BY <1>3 DEF RunChanges
  <2>1. op.caller \in Executors /\ Drives(op.caller)
    BY <1>1, <1>c, CallerFacts DEF OwnedInv, Cancels
  <2>2. pc[op.caller] = "begun" /\ op.claim.run # 0 /\ op.caller # e
    BY <2>1 DEF Drives
  <2>3. ret[op.caller] = NoResult /\ NoResult.ok = FALSE
    BY <1>1, <2>1, ActorFacts DEF OwnedInv, NoResult
  <2>4. Drawn(op.caller) = op.claim.run /\ Drawn(e) = RunOf(e)
    BY <2>2, <2>3 DEF Drawn
  <2> QED BY <1>1, <2>1, <2>2, <2>4 DEF FreshInv
<1>7. RuntimeTypes'
  BY <1>1, <1>2, <1>3 DEF RuntimeTypes
<1>8. Registered' /\ ShapeInv'
  BY <1>1, <1>2 DEF Registered, ShapeInv
<1>9. SlotsInv'
  BY <1>1, <1>2, SameSlots
<1>10. DurableInv'
  BY <1>1, <1>2, <1>6 DEF DurableInv, ShapeInv, Shape, RunOK, Starting, RunOf
<1>11. OwnedInv'
  <2>1. CASE /\ op'.kind = op.kind /\ op'.caller = op.caller /\ op'.claim = op.claim
             /\ op'.type = op.type /\ ret' = ret
    BY <1>1, <1>2, <1>c, <2>1 DEF OwnedInv, Drives, Cancels, Agrees, Expected, RunOf
  <2>2. CASE op' = Idle
    BY <2>2, ActorFacts DEF OwnedInv, Idle
  <2> QED BY <1>5, <2>1, <2>2
<1>12. AnswerInv'
  <2> SUFFICES ASSUME NEW e \in Executors PROVE AnswerOK(e)'
    BY DEF AnswerInv
  <2>1. /\ pc[e] \in {"persisted", "reconciled", "aborted", "handed", "backed", "returned"} =>
              RunOf(e) # 0
        /\ AnswerOK(e)
    BY <1>1 DEF ShapeInv, Shape, RunOK, Started, Workers, AnswerInv, RunOf
  <2>2. CASE ret'[e] = ret[e]
    BY <1>2, <1>6, <2>1, <2>2 DEF AnswerOK, RunOf
  <2>3. CASE ret'[e] # ret[e]
    <3>1. PICK r \in Result : ret' = [ret EXCEPT ![op.caller] = r] /\ Answers(r)
      BY <1>5, <2>3
    <3>2. e = op.caller /\ ret'[e] = r
      BY <1>4, <2>3, <3>1, ActorFacts
    <3>3. Drives(e)
      BY <1>1, <3>2 DEF OwnedInv
    <3>4. CASE op.kind = "begin"
      BY <1>2, <3>1, <3>2, <3>3, <3>4 DEF Drives, Answers, AnswerOK
    <3>5. CASE op.kind \in {"to_child", "to_parent"}
      BY <1>2, <3>1, <3>2, <3>3, <3>5 DEF Drives, Answers, AnswerOK, RunOf
    <3>6. CASE op.kind \in {"end", "reconcile"}
      BY <1>2, <2>1, <3>1, <3>2, <3>3, <3>6 DEF Drives, Answers, AnswerOK, RunOf
    <3> QED BY <3>3, <3>4, <3>5, <3>6 DEF Drives
  <2> QED BY <2>2, <2>3
<1>13. FreshInv'
  <2>1. ASSUME NEW e \in Executors PROVE Drawn(e)' = Drawn(e) \/ Drawn(e)' = 0
    <3>1. CASE pc[e] # "begun"
      BY <1>2, <3>1 DEF Drawn, RunOf
    <3>2. CASE pc[e] = "begun" /\ op.caller # e
      <4>1. ret'[e] = ret[e] /\ op'.caller # e
        BY <1>4, <1>5, <3>2, ActorFacts DEF Idle
      <4> QED BY <1>2, <3>2, <4>1 DEF Drawn
    <3>3. CASE pc[e] = "begun" /\ op.caller = e
      <4>1. /\ Drives(e) /\ op.kind = "begin" /\ ret[e] = NoResult /\ NoResult.ok = FALSE
        BY <1>1, <3>3, ActorFacts DEF OwnedInv, Drives, NoResult
      <4>2. CASE ret' = ret /\ op'.caller = op.caller /\ op'.claim = op.claim
        BY <1>2, <3>3, <4>1, <4>2 DEF Drawn
      <4>3. ASSUME NEW r \in Result, op' = Idle, ret' = [ret EXCEPT ![op.caller] = r],
                   Answers(r)
            PROVE  Drawn(e)' = Drawn(e) \/ Drawn(e)' = 0
        <5>1. ret'[e] = r /\ op'.caller # e
          BY <1>4, <3>3, <4>3, ActorFacts DEF Idle
        <5>2. r.ok => r.claim.run = op.claim.run
          BY <4>1, <4>3 DEF Answers
        <5> QED BY <1>2, <3>3, <4>1, <5>1, <5>2 DEF Drawn
      <4> QED BY <1>5, <4>2, <4>3
    <3> QED BY <3>1, <3>2, <3>3
  <2>2. 0 <= runs
    BY <1>1, BoundsAssumption DEF RuntimeTypes, KernelOK, BoundsOK
  <2> QED BY <1>1, <1>3, <2>1, <2>2 DEF FreshInv
<1>14. TargetInv'
  BY <1>1, <1>2 DEF TargetInv, Aims, Agrees, Expected, RunOf
<1>15. IntentKept
  BY <1>2 DEF IntentKept, Kept
<1> QED BY <1>3, <1>7, <1>8, <1>9, <1>10, <1>11, <1>12, <1>13, <1>14, <1>15 DEF RuntimeInv

(***************************************************************************)
(* A step of a cancel or of the shutdown outside the kernel: it may cancel *)
(* contexts and select intents, and moves nobody but itself.               *)
(***************************************************************************)
Signalled(v, l) ==
    /\ l.claim = v.claim /\ l.child = v.child /\ l.converged = v.converged
    /\ l.authorityMu = v.authorityMu /\ l.turns = v.turns /\ l.todo = v.todo
    /\ l.want = v.want /\ Kept(v, l)

(* A cancelled context and a selected intent fit wherever the run is. *)
LEMMA SignalledShape ==
    ASSUME NEW at, NEW v, NEW l, Shape(at, v), Signalled(v, l)
    PROVE  Shape(at, l)
<1>1. HeldOK(at, l) /\ RunOK(at, l)
  BY DEF Shape, Signalled, HeldOK, RunOK
<1>2. TermOK(at, l)
  BY DEF Shape, Signalled, TermOK, OnlyIfComplete, Kept, Ordered
<1> QED BY <1>1, <1>2 DEF Shape

(* A step that moves nothing but requests, the shutdown and the signals they send keeps the
   invariant. *)
LEMMA StirStep ==
    ASSUME RuntimeInv, UNCHANGED kernelVars, pc' = pc, active' = active, inflight' = inflight,
           closed' \in BOOLEAN, rtmu' \in Cancellers \cup {"none"},
           live' \in [Executors -> Live], req' \in [Cancellers -> Request], stop' \in Stopping,
           \A e \in Executors : Signalled(live[e], live'[e]),
           \A c \in Cancellers : Aims(c)' /\ (op.caller = c => req'[c] = req[c]),
           StopOK(stop')
    PROVE  RuntimeInv' /\ IntentKept
<1>1. /\ RuntimeTypes /\ OpRun /\ Registered /\ SlotsInv /\ ShapeInv /\ DurableInv
      /\ OwnedInv /\ AnswerInv /\ FreshInv /\ TargetInv
  BY DEF RuntimeInv
<1>2. /\ KernelOK' /\ OpRun' /\ log' = log /\ op' = op /\ ret' = ret /\ runs' = runs
  BY <1>1, KernelStays DEF RuntimeTypes
<1>3. RuntimeTypes'
  BY <1>1, <1>2 DEF RuntimeTypes
<1>4. Registered' /\ SlotsInv'
  BY <1>1, SameSlots DEF Registered
<1>5. ShapeInv'
  BY <1>1, SignalledShape DEF ShapeInv
<1>6. \A e \in Executors : /\ live'[e].claim = live[e].claim
                           /\ live'[e].converged = live[e].converged
                           /\ live[e].intent = "complete" => live'[e].intent = "complete"
  BY DEF Signalled, Kept
<1>7. DurableInv' /\ AnswerInv' /\ FreshInv'
  BY <1>1, <1>2, <1>6 DEF DurableInv, AnswerInv, AnswerOK, FreshInv, Drawn, RunOf
<1>8. OwnedInv'
  <2>1. \A e \in Executors : op.caller = e => Drives(e)'
    BY <1>1, <1>2, <1>6 DEF OwnedInv, Drives, RunOf
  <2>2. \A c \in Cancellers : op.caller = c => Cancels(c)'
    BY <1>1, <1>2 DEF OwnedInv, Cancels, Agrees, Expected
  <2> QED BY <1>1, <1>2, <2>1, <2>2 DEF OwnedInv
<1>9. TargetInv'
  BY DEF TargetInv
<1>10. IntentKept
  BY DEF IntentKept, Signalled
<1> QED BY <1>2, <1>3, <1>4, <1>5, <1>7, <1>8, <1>9, <1>10 DEF RuntimeInv

(* What a request must be to aim at what it does. *)
AimsAt(c, r) ==
    /\ r.pc \in Aimed => /\ r.target \in Executors
                         /\ pc[r.target] \in Workers \cup {"exited"}
    /\ c \in Preconditioned /\ r.pc \in Aimed \ {"authority"} =>
          r.held = r.expected
    /\ r.pc = "ok" => live[r.target].converged
    /\ r.pc = "cancel_execute" =>
          \/ [r.expected EXCEPT !.run = 0] = NoClaim
          \/ [r.claim EXCEPT !.run = 0] = [r.expected EXCEPT !.run = 0]

(* A cancel that is in no kernel call moves on. *)
LEMMA AskStep ==
    ASSUME RuntimeInv, NEW c \in Cancellers, NEW r \in Request, Ask(c, r),
           req[c].pc = "wrote" => Returned(c), AimsAt(c, r), Quiet, UNCHANGED kernelVars,
           rtmu' \in Cancellers \cup {"none"}, live' \in [Executors -> Live],
           \A e \in Executors : Signalled(live[e], live'[e])
    PROVE  RuntimeInv' /\ IntentKept
<1>1. RuntimeTypes /\ OwnedInv /\ TargetInv
  BY DEF RuntimeInv
<1>2. /\ req' \in [Cancellers -> Request] /\ req'[c] = r
      /\ \A d \in Cancellers : d # c => req'[d] = req[d]
  BY <1>1 DEF Ask, RuntimeTypes
<1>3. op.caller # c
  BY <1>1, ActorFacts DEF OwnedInv, Cancels, Returned, NoResult
<1>4. \A e \in Executors : /\ live'[e].claim = live[e].claim
                           /\ live'[e].converged = live[e].converged
  BY DEF Signalled
<1>5. pc' = pc /\ active' = active /\ inflight' = inflight /\ closed' = closed /\ stop' = stop
  BY DEF Quiet
<1>6. ASSUME NEW d \in Cancellers PROVE Aims(d)'
  <2>1. CASE d = c
    <3>1. req'[d] = r /\ AimsAt(d, r)
      BY <1>2, <2>1
    <3> QED BY <1>4, <1>5, <3>1 DEF Aims, AimsAt, Aimed, Agrees, Expected, RunOf
  <2>2. CASE d # c
    <3>1. req'[d] = req[d] /\ Aims(d)
      BY <1>1, <1>2, <2>2 DEF TargetInv
    <3> QED BY <1>4, <1>5, <3>1 DEF Aims, Aimed, Agrees, Expected, RunOf
  <2> QED BY <2>1, <2>2
<1>7. \A d \in Cancellers : op.caller = d => req'[d] = req[d]
  BY <1>2, <1>3
<1>8. /\ closed' \in BOOLEAN /\ stop' \in Stopping /\ StopOK(stop')
  BY <1>1, <1>5 DEF RuntimeTypes, TargetInv
<1> QED BY <1>2, <1>5, <1>6, <1>7, <1>8, StirStep

(* Who touches no run signals no run. *)
LEMMA SameLive ==
    ASSUME RuntimeTypes, live' = live
    PROVE  live' \in [Executors -> Live] /\ \A e \in Executors : Signalled(live[e], live'[e])
  BY DEF RuntimeTypes, Signalled, Kept

(* A request that aims at nobody. *)
LEMMA NoAim ==
    ASSUME NEW c, NEW r, r.pc \notin Aimed, r.pc # "cancel_execute"
    PROVE  AimsAt(c, r)
  BY DEF AimsAt, Aimed

(* A cancelled context and a selected intent are all a request does to a run. *)
LEMMA SignalTypes ==
    ASSUME NEW v \in Live
    PROVE  /\ [v EXCEPT !.ctx = TRUE] \in Live /\ Signalled(v, [v EXCEPT !.ctx = TRUE])
           /\ \A want \in {"cancel", "shutdown"} : MaySelect(v, want) =>
                 /\ [v EXCEPT !.intent = want] \in Live
                 /\ Signalled(v, [v EXCEPT !.intent = want])
           /\ Signalled(v, v)
  BY DEF Live, Signalled, Kept, MaySelect, Intents

(* The steps of handleFabricCancel that call nothing of the kernel. *)
LEMMA CancelMoves ==
    ASSUME RuntimeInv, NEW c \in Cancellers,
           \/ CancelCall(c) \/ CancelGet(c) \/ CancelEnter(c) \/ CancelSelect(c)
           \/ CancelSignal(c) \/ CancelAwait(c) \/ CancelFenced(c) \/ CancelTask(c)
           \/ CancelWrote(c)
    PROVE  RuntimeInv' /\ IntentKept
<1> DEFINE v == req[c]
           e == v.target
<1>1. /\ RuntimeTypes /\ TargetInv /\ Registered /\ Aims(c)
  BY DEF RuntimeInv, TargetInv
<1>2. /\ v \in Request /\ log \in Log /\ rtmu \in Cancellers \cup {"none"}
      /\ active \in Executors \cup {"none"} /\ live \in [Executors -> Live]
  BY <1>1 DEF RuntimeTypes, KernelOK
<1>v. v \in Request
  BY <1>2
<1>3. /\ log.owner \in Owner /\ log.fence \in Nat /\ log.run.id \in Nat
  BY <1>2 DEF Log
<1> HIDE DEF v
<1>4. ASSUME NEW at \in RequestPcs \ (Aimed \cup {"cancel_execute"}), v.pc # "wrote",
             Ask(c, [v EXCEPT !.pc = at]), Quiet, UNCHANGED <<kernelVars, rtmu, live>>
      PROVE  RuntimeInv' /\ IntentKept
  <2> DEFINE r == [v EXCEPT !.pc = at]
  <2>0. at \in RequestPcs /\ at \notin Aimed /\ at # "cancel_execute"
    BY <1>4
  <2>1. r \in Request /\ r.pc = at
    BY <1>v, <2>0 DEF Request
  <2>2. Ask(c, r) /\ Quiet /\ UNCHANGED <<kernelVars, rtmu, live>> /\ v.pc # "wrote"
    BY <1>4
  <2> HIDE DEF r
  <2>3. AimsAt(c, r)
    BY <2>0, <2>1, NoAim
  <2> QED BY <1>1, <1>2, <2>1, <2>2, <2>3, SameLive, AskStep DEF v
<1>5. CASE CancelCall(c)
  <2>1. CASE c \in Preconditioned
    <3> DEFINE k == [run |-> 0, owner |-> log.owner, fence |-> log.fence]
               r == [v EXCEPT !.pc = "peeked", !.expected = k]
    <3>1. k \in Claim
      BY <1>3 DEF Claim
    <3>2. r \in Request /\ r.pc = "peeked"
      BY <1>v, <3>1 DEF Request, RequestPcs, Results, Claim
    <3>3. AimsAt(c, r)
      BY <3>2, NoAim DEF Aimed
    <3>4. Ask(c, r) /\ Quiet /\ UNCHANGED <<kernelVars, rtmu, live>> /\ v.pc = "idle"
      BY <1>5, <2>1 DEF CancelCall, v
    <3> HIDE DEF r
    <3> QED BY <1>1, <1>2, <3>2, <3>3, <3>4, SameLive, AskStep DEF v
  <2>2. CASE c \notin Preconditioned
    BY <1>4, <1>5, <2>2 DEF CancelCall, RequestPcs, Aimed, v
  <2> QED BY <2>1, <2>2
<1>6. CASE CancelGet(c)
  <2>1. CASE Readable(log) /\ ActiveExecute(log)
    <3> DEFINE r == [v EXCEPT !.pc = "enter", !.expected.run = log.run.id]
    <3>1. r \in Request /\ r.pc = "enter"
      BY <1>v, <1>3 DEF Request, RequestPcs, Results, Claim
    <3>2. AimsAt(c, r)
      BY <3>1, NoAim DEF Aimed
    <3>3. Ask(c, r) /\ Quiet /\ UNCHANGED <<kernelVars, rtmu, live>> /\ v.pc = "peeked"
      BY <1>6, <2>1 DEF CancelGet, v
    <3> HIDE DEF r
    <3> QED BY <1>1, <1>2, <3>1, <3>2, <3>3, SameLive, AskStep DEF v
  <2>2. CASE ~(Readable(log) /\ ActiveExecute(log))
    BY <1>4, <1>6, <2>2 DEF CancelGet, RequestPcs, Aimed, v
  <2> QED BY <2>1, <2>2
<1>7. CASE CancelEnter(c)
  <2>1. CASE active = "none"
    BY <1>4, <1>7, <2>1 DEF CancelEnter, RequestPcs, Aimed, v
  <2>2. CASE active # "none"
    <3> DEFINE r == [v EXCEPT !.pc = "authority", !.target = active]
    <3>1. active \in Executors /\ pc[active] \in Workers
      BY <1>1, <1>2, <2>2 DEF Registered
    <3>2. r \in Request /\ r.pc = "authority" /\ r.target = active
      BY <1>v, <3>1 DEF Request, RequestPcs, Results, Claim
    <3>3. AimsAt(c, r)
      BY <3>1, <3>2 DEF AimsAt
    <3>4. /\ Ask(c, r) /\ Quiet /\ UNCHANGED <<kernelVars, live>> /\ v.pc = "enter"
          /\ rtmu' = c
      BY <1>7, <2>2 DEF CancelEnter, v
    <3> HIDE DEF r
    <3> QED BY <1>1, <1>2, <3>2, <3>3, <3>4, SameLive, AskStep DEF v
  <2> QED BY <2>1, <2>2
<1>8. CASE CancelSelect(c)
  <2>1. /\ v.pc = "authority" /\ e \in Executors /\ pc[e] \in Workers \cup {"exited"}
        /\ live[e] \in Live /\ live[e].claim \in Claim
    BY <1>1, <1>2, <1>8 DEF CancelSelect, Observes, Aims, Aimed, Live, v
  <2> DEFINE matches == Matches(c, live[e].claim)
             r == [v EXCEPT !.pc = IF matches THEN "signal" ELSE "fenced",
                            !.held = live[e].claim]
             l == IF matches /\ MaySelect(live[e], "cancel")
                  THEN [live[e] EXCEPT !.intent = "cancel"] ELSE live[e]
  <2>2. /\ r \in Request /\ r.target = e /\ r.expected = v.expected
        /\ r.pc = IF matches THEN "signal" ELSE "fenced"
        /\ r.held = live[e].claim
    BY <1>v, <2>1 DEF Request, RequestPcs, Results, Claim, Live
  <2>3. AimsAt(c, r)
    BY <2>1, <2>2 DEF AimsAt, Aimed, Matches, v
  <2>4. l \in Live /\ Signalled(live[e], l)
    <3>1. CASE matches /\ MaySelect(live[e], "cancel")
      <4>1. l = [live[e] EXCEPT !.intent = "cancel"]
        BY <3>1
      <4> HIDE DEF l
      <4> QED BY <2>1, <3>1, <4>1, SignalTypes
    <3>2. CASE ~(matches /\ MaySelect(live[e], "cancel"))
      <4>1. l = live[e]
        BY <3>2
      <4> HIDE DEF l
      <4> QED BY <2>1, <4>1, SignalTypes
    <3> QED BY <3>1, <3>2
  <2>5. /\ Ask(c, r) /\ Becomes(e, l) /\ Quiet /\ UNCHANGED kernelVars /\ rtmu' = "none"
    BY <1>8 DEF CancelSelect, v
  <2> HIDE DEF r, l
  <2>6. /\ live' \in [Executors -> Live]
        /\ \A f \in Executors : Signalled(live[f], live'[f])
    BY <1>2, <2>1, <2>4, <2>5, SignalTypes DEF Becomes
  <2> QED BY <1>1, <2>1, <2>2, <2>3, <2>5, <2>6, AskStep DEF v
<1>9. CASE CancelSignal(c)
  <2>1. /\ v.pc = "signal" /\ e \in Executors /\ pc[e] \in Workers \cup {"exited"}
        /\ live[e] \in Live /\ (c \in Preconditioned => v.held = v.expected)
    BY <1>1, <1>2, <1>9 DEF CancelSignal, Aims, Aimed, v
  <2> DEFINE r == [v EXCEPT !.pc = "await"]
             l == [live[e] EXCEPT !.ctx = TRUE]
  <2>2. /\ r \in Request /\ r.target = e /\ r.expected = v.expected /\ r.pc = "await"
        /\ r.held = v.held
    BY <1>v DEF Request, RequestPcs, Results, Claim
  <2>3. AimsAt(c, r)
    BY <1>1, <1>9, <2>1, <2>2 DEF AimsAt, Aims, Aimed, CancelSignal, v
  <2>4. l \in Live /\ Signalled(live[e], l)
    BY <2>1, SignalTypes
  <2>5. Ask(c, r) /\ Becomes(e, l) /\ Quiet /\ UNCHANGED <<kernelVars, rtmu>>
    BY <1>9 DEF CancelSignal, v
  <2> HIDE DEF r, l
  <2>6. /\ live' \in [Executors -> Live]
        /\ \A f \in Executors : Signalled(live[f], live'[f])
    BY <1>2, <2>1, <2>4, <2>5, SignalTypes DEF Becomes
  <2> QED BY <1>1, <1>2, <2>1, <2>2, <2>3, <2>5, <2>6, AskStep DEF v
<1>10. CASE CancelAwait(c)
  <2>1. /\ v.pc = "await" /\ e \in Executors /\ pc[e] \in Workers \cup {"exited"}
    BY <1>1, <1>10 DEF CancelAwait, Aims, Aimed, v
  <2>e. c \in Preconditioned => v.held = v.expected
    BY <1>1, <2>1 DEF Aims, Aimed, v
  <2> DEFINE at == IF live[e].intent = "cancel"
                   THEN IF live[e].converged THEN "ok" ELSE "persist_failed"
                   ELSE IF c \in Preconditioned THEN "fenced" ELSE "durable"
             r == [v EXCEPT !.pc = at]
  <2>2. /\ at \in {"ok", "persist_failed", "fenced", "durable"}
        /\ at = "ok" => live[e].converged
    OBVIOUS
  <2>3. Ask(c, r) /\ Quiet /\ UNCHANGED <<kernelVars, rtmu, live>>
    BY <1>10 DEF CancelAwait, v
  <2> HIDE DEF at
  <2>4. /\ r \in Request /\ r.target = e /\ r.expected = v.expected /\ r.pc = at
        /\ r.held = v.held
    BY <1>v, <2>2 DEF Request, RequestPcs, Results, Claim
  <2> HIDE DEF r
  <2>5. AimsAt(c, r)
    BY <2>1, <2>e, <2>2, <2>4 DEF AimsAt, Aimed
  <2> QED BY <1>1, <1>2, <2>1, <2>3, <2>4, <2>5, SameLive, AskStep DEF v
<1>11. CASE CancelFenced(c)
  BY <1>4, <1>11 DEF CancelFenced, RequestPcs, Results, Aimed, v
<1>12. CASE CancelTask(c)
  <2>1. CASE Readable(log) /\ Active(log) /\ log.run.id # 0
    <3> DEFINE k == CancelClaim(log)
               agrees == \/ Expected(c) = NoClaim
                         \/ Expected(c) = [k EXCEPT !.run = 0]
               at == IF agrees THEN "cancel_execute" ELSE "error"
               r == [v EXCEPT !.pc = at, !.claim = k]
    <3>1. k \in Claim
      BY <1>2, CancelClaimType
    <3>2. Ask(c, r) /\ Quiet /\ UNCHANGED <<kernelVars, rtmu, live>> /\ v.pc = "durable"
      BY <1>12, <2>1 DEF CancelTask, v
    <3>3. at \in {"cancel_execute", "error"} /\ (at = "cancel_execute" => agrees)
      OBVIOUS
    <3> HIDE DEF k, at
    <3>4. r \in Request /\ r.pc = at /\ r.claim = k /\ r.expected = v.expected
      BY <1>v, <3>1, <3>3 DEF Request, RequestPcs, Results, Claim
    <3> HIDE DEF r
    <3>5. AimsAt(c, r)
      BY <3>3, <3>4 DEF AimsAt, Aimed, Expected, v
    <3> QED BY <1>1, <1>2, <3>2, <3>4, <3>5, SameLive, AskStep DEF v
  <2>2. CASE ~(Readable(log) /\ Active(log) /\ log.run.id # 0)
    BY <1>4, <1>12, <2>2 DEF CancelTask, RequestPcs, Aimed, v
  <2> QED BY <2>1, <2>2
<1>13. CASE CancelWrote(c)
  <2> DEFINE at == IF ret[c].ok THEN "durable_ok" ELSE "error"
             r == [v EXCEPT !.pc = at]
  <2>1. /\ Ask(c, r) /\ Quiet /\ UNCHANGED <<kernelVars, rtmu, live>> /\ Returned(c)
        /\ at \in {"durable_ok", "error"}
    BY <1>13 DEF CancelWrote, v
  <2> HIDE DEF at
  <2>2. r \in Request /\ r.pc = at
    BY <1>v, <2>1 DEF Request, RequestPcs, Results, Claim
  <2> HIDE DEF r
  <2>3. AimsAt(c, r)
    BY <2>1, <2>2, NoAim DEF Aimed
  <2> QED BY <1>1, <1>2, <2>1, <2>2, <2>3, SameLive, AskStep DEF v
<1> QED BY <1>5, <1>6, <1>7, <1>8, <1>9, <1>10, <1>11, <1>12, <1>13

(***************************************************************************)
(* A call of a cancel or of the shutdown: no executor is told of it, and   *)
(* its program ends a run without completing it.                           *)
(***************************************************************************)
LEMMA OutsideCall ==
    ASSUME RuntimeInv, NEW a \in Cancellers \cup Stops, NEW r \in Result,
           UNCHANGED <<pc, active, inflight, closed, rtmu, live>>,
           op = Idle, KernelOK', OpRun', runs' = runs, log'.run = log.run,
           ret' = [ret EXCEPT ![a] = r],
           \/ op' = Idle
           \/ /\ op'.caller = a /\ r = NoResult
              /\ a \in Cancellers => Cancels(a)'
              /\ a \in Stops => op'.kind = "end" /\ op'.type = "RunInterrupted",
           req' \in [Cancellers -> Request], stop' \in Stopping,
           \A c \in Cancellers : Aims(c)', StopOK(stop')
    PROVE  RuntimeInv' /\ IntentKept
<1>1. /\ RuntimeTypes /\ OpRun /\ Registered /\ SlotsInv /\ ShapeInv /\ DurableInv
      /\ OwnedInv /\ AnswerInv /\ FreshInv /\ TargetInv
  BY DEF RuntimeInv
<1>2. /\ active' = active /\ inflight' = inflight /\ live' = live /\ pc' = pc
      /\ closed' = closed /\ rtmu' = rtmu
  OBVIOUS
<1>3. RuntimeTypes'
  BY <1>1, <1>2 DEF RuntimeTypes
<1>4. Registered' /\ ShapeInv' /\ SlotsInv'
  BY <1>1, <1>2, SameSlots DEF Registered, ShapeInv
<1>5. a \in Callers /\ a \notin Executors /\ a # "none"
  BY ActorFacts
<1>6. /\ ret'[a] = r /\ \A e \in Executors : ret'[e] = ret[e]
      /\ \A e \in Executors : op'.caller # e /\ op.caller # e
  BY <1>1, <1>5, ActorFacts DEF RuntimeTypes, KernelOK, RetOK, Idle
<1>7. DurableInv'
  BY <1>1, <1>2 DEF DurableInv, RunOf
<1>8. AnswerInv'
  BY <1>1, <1>2, <1>6 DEF AnswerInv, AnswerOK, RunOf
<1>9. FreshInv'
  <2>1. \A e \in Executors : Drawn(e)' = Drawn(e)
    BY <1>2, <1>6 DEF Drawn, RunOf
  <2> QED BY <1>1, <2>1 DEF FreshInv
<1>10. OwnedInv'
  <2>1. CASE op' = Idle
    BY <2>1, ActorFacts DEF OwnedInv, Idle
  <2>2. CASE /\ op'.caller = a /\ r = NoResult
             /\ a \in Cancellers => Cancels(a)'
             /\ a \in Stops => op'.kind = "end" /\ op'.type = "RunInterrupted"
    <3>1. \A c \in Cancellers : op'.caller = c => Cancels(c)'
      BY <2>2
    <3>2. /\ op'.caller # "none" /\ ret'[op'.caller] = NoResult
          /\ op'.caller \in Stops => op'.kind = "end" /\ op'.type = "RunInterrupted"
      BY <1>5, <1>6, <2>2
    <3> QED BY <1>6, <3>1, <3>2 DEF OwnedInv
  <2> QED BY <2>1, <2>2
<1>11. TargetInv'
  BY DEF TargetInv
<1>12. IntentKept
  BY <1>2 DEF IntentKept, Kept
<1> QED BY <1>3, <1>4, <1>7, <1>8, <1>9, <1>10, <1>11, <1>12 DEF RuntimeInv

(* The two durable writes of a cancel: CancelTask's event, and its terminalExecute. *)
LEMMA CancelCalls ==
    ASSUME RuntimeInv, NEW c \in Cancellers, CancelLifecycle(c) \/ CancelExecute(c)
    PROVE  RuntimeInv' /\ IntentKept
<1> DEFINE v == req[c]
           w == [v EXCEPT !.pc = "wrote"]
<1>1. /\ RuntimeTypes /\ TargetInv /\ OpRun /\ Aims(c) /\ KernelOK
  BY DEF RuntimeInv, TargetInv, RuntimeTypes
<1>2. /\ v \in Request /\ v.claim \in Claim /\ c \in Callers
  BY <1>1, ActorFacts DEF RuntimeTypes, Request
<1>3. /\ Ask(c, w) /\ Quiet /\ UNCHANGED <<rtmu, live>>
  BY DEF CancelLifecycle, CancelExecute
<1>4. w \in Request /\ w.pc = "wrote" /\ w.claim = v.claim /\ w.expected = v.expected
  BY <1>2 DEF Request, RequestPcs
<1> HIDE DEF w
<1>5. /\ req' \in [Cancellers -> Request] /\ req'[c] = w
      /\ \A d \in Cancellers : d # c => req'[d] = req[d]
      /\ UNCHANGED <<pc, active, inflight, closed, rtmu, live>>
      /\ stop' = stop /\ stop' \in Stopping /\ StopOK(stop')
  BY <1>1, <1>3, <1>4 DEF Ask, Quiet, RuntimeTypes, TargetInv
<1>6. ASSUME NEW d \in Cancellers PROVE Aims(d)'
  <2>1. CASE d = c
    BY <1>4, <1>5, <2>1 DEF Aims, Aimed
  <2>2. CASE d # c
    <3>1. req'[d] = req[d] /\ Aims(d)
      BY <1>1, <1>5, <2>2 DEF TargetInv
    <3> QED BY <1>5, <3>1 DEF Aims, Aimed, Agrees, Expected, RunOf
  <2> QED BY <2>1, <2>2
<1>7. CASE CancelLifecycle(c)
  <2>1. AppendLifecycle(c, "TaskCancelled", Expected(c)) /\ "TaskCancelled" \in TaskTerminals
    BY <1>7 DEF CancelLifecycle, TaskTerminals
  <2>2. KernelOK'
    BY <1>1, <2>1, MarkTypes
  <2>3. /\ op = Idle /\ op' = Idle /\ OpRun' /\ runs' = runs /\ log'.run = log.run
        /\ \E r \in Result : ret' = [ret EXCEPT ![c] = r]
    BY <2>1, OneEventFacts
  <2>4. c \in Cancellers \cup Stops
    OBVIOUS
  <2> QED BY <1>5, <1>6, <2>2, <2>3, <2>4, OutsideCall
<1>8. CASE CancelExecute(c)
  <2>1. TerminalExecute(c, v.claim, "RunCancelled") /\ "RunCancelled" \in RunTerminals
        /\ v.pc = "cancel_execute"
    BY <1>8 DEF CancelExecute, RunTerminals
  <2>2. KernelOK'
    BY <1>1, <1>2, <2>1, ProgramTypes
  <2>3. /\ op = Idle /\ OpRun' /\ runs' = runs
        /\ TurnedDown(c) \/ Launched(c, "end", v.claim, "RunCancelled")
    BY <2>1, TerminalFacts
  <2>4. c \in Cancellers \cup Stops /\ c \notin Stops
    BY ActorFacts
  <2>5. CASE TurnedDown(c)
    <3>1. op' = Idle /\ log'.run = log.run /\ ret' = [ret EXCEPT ![c] = Failed]
          /\ Failed \in Result
      BY <2>5, ResultTypes DEF TurnedDown
    <3> QED BY <1>5, <1>6, <2>2, <2>3, <2>4, <3>1, OutsideCall
  <2>6. CASE Launched(c, "end", v.claim, "RunCancelled")
    <3>1. /\ op'.caller = c /\ log'.run = log.run /\ ret' = [ret EXCEPT ![c] = NoResult]
          /\ NoResult \in Result /\ op'.kind = "end" /\ op'.type = "RunCancelled"
          /\ op'.claim = v.claim
      BY <2>6, ResultTypes DEF Launched
    <3>2. Agrees(c)
      BY <1>1, <2>1 DEF Aims
    <3>3. Cancels(c)'
      BY <1>4, <1>5, <3>1, <3>2 DEF Cancels, Agrees, Expected
    <3> QED BY <1>5, <1>6, <2>2, <2>3, <2>4, <3>1, <3>3, OutsideCall
  <2> QED BY <2>3, <2>5, <2>6
<1> QED BY <1>7, <1>8

(* The steps of shutdown: close, select, cancel, wait and leave. *)
LEMMA ShutdownMoves ==
    ASSUME RuntimeInv, Shutdown
    PROVE  RuntimeInv' /\ IntentKept
<1>1. /\ RuntimeTypes /\ TargetInv /\ OpRun /\ KernelOK /\ OwnedInv
      /\ \A c \in Cancellers : Aims(c)
  BY DEF RuntimeInv, TargetInv, RuntimeTypes
<1>2. /\ live \in [Executors -> Live] /\ active \in Executors \cup {"none"}
      /\ rtmu \in Cancellers \cup {"none"} /\ req \in [Cancellers -> Request]
      /\ closed \in BOOLEAN /\ stop \in Stopping /\ StopOK(stop)
  BY <1>1 DEF RuntimeTypes, TargetInv
<1>3. ASSUME \A e \in Executors : Signalled(live[e], live'[e]), req' = req, pc' = pc
      PROVE  \A c \in Cancellers : Aims(c)' /\ (op.caller = c => req'[c] = req[c])
  <2>1. \A e \in Executors : live'[e].claim = live[e].claim
                             /\ live'[e].converged = live[e].converged
    BY <1>3 DEF Signalled
  <2> QED BY <1>1, <1>3, <2>1 DEF Aims, Aimed, Agrees, Expected, RunOf
<1>4. CASE ShutdownClose
  <2>1. /\ UNCHANGED kernelVars /\ pc' = pc /\ active' = active /\ inflight' = inflight
        /\ closed' = TRUE /\ rtmu' = rtmu /\ req' = req
        /\ stop' = [pc |-> "signal", target |-> active] /\ "stop" \in Stops
    BY <1>4 DEF ShutdownClose
  <2>2. stop' \in Stopping /\ StopOK(stop')
    BY <1>2, <2>1 DEF Stopping, StopOK
  <2>3. live' \in [Executors -> Live] /\ \A e \in Executors : Signalled(live[e], live'[e])
    <3>1. ASSUME NEW e \in Executors
          PROVE  live'[e] \in Live /\ Signalled(live[e], live'[e])
      <4>1. CASE e = active /\ MaySelect(live[e], "shutdown")
        <5>1. live'[e] = [live[e] EXCEPT !.intent = "shutdown"] /\ live[e] \in Live
          BY <1>2, <1>4, <4>1 DEF ShutdownClose
        <5> QED BY <4>1, <5>1, SignalTypes
      <4>2. CASE ~(e = active /\ MaySelect(live[e], "shutdown"))
        BY <1>2, <1>4, <4>2, SignalTypes DEF ShutdownClose
      <4> QED BY <4>1, <4>2
    <3>2. live' = [e \in Executors |-> live'[e]]
      BY <1>4 DEF ShutdownClose
    <3> QED BY <3>1, <3>2
  <2> QED BY <1>2, <1>3, <2>1, <2>2, <2>3, StirStep
<1>5. CASE ShutdownSignal
  <2>1. /\ UNCHANGED kernelVars /\ pc' = pc /\ active' = active /\ inflight' = inflight
        /\ closed' = closed /\ rtmu' = rtmu /\ req' = req /\ stop.pc = "signal"
        /\ stop' = [stop EXCEPT !.pc = IF stop.target = "none" THEN "stopped" ELSE "await"]
    BY <1>5 DEF ShutdownSignal
  <2>2. stop' \in Stopping /\ StopOK(stop')
    BY <1>2, <2>1 DEF Stopping, StopOK
  <2>3. live' \in [Executors -> Live] /\ \A e \in Executors : Signalled(live[e], live'[e])
    BY <1>2, <1>5, SignalTypes DEF ShutdownSignal
  <2> QED BY <1>2, <1>3, <2>1, <2>2, <2>3, StirStep
<1>6. CASE ShutdownAwait
  <2>1. /\ UNCHANGED kernelVars /\ pc' = pc /\ active' = active /\ inflight' = inflight
        /\ closed' = closed /\ rtmu' = rtmu /\ req' = req /\ live' = live
        /\ stop.pc = "await"
        /\ \/ stop' = [stop EXCEPT !.pc = "stopped"]
           \/ stop' = [stop EXCEPT !.pc = IF live[stop.target].intent = "shutdown"
                                          THEN "interrupt" ELSE "stopped"]
    BY <1>6 DEF ShutdownAwait
  <2>2. stop' \in Stopping /\ StopOK(stop')
    BY <1>2, <2>1 DEF Stopping, StopOK
  <2>3. live' \in [Executors -> Live] /\ \A e \in Executors : Signalled(live[e], live'[e])
    BY <1>1, <2>1, SameLive
  <2> QED BY <1>2, <1>3, <2>1, <2>2, <2>3, StirStep
<1>7. CASE ShutdownInterrupt
  <2> DEFINE k == live[stop.target].claim
  <2>1. /\ TerminalExecute("stop", k, "RunInterrupted") /\ "RunInterrupted" \in RunTerminals
        /\ stop' = [stop EXCEPT !.pc = "stopped"] /\ stop.pc = "interrupt"
        /\ UNCHANGED <<active, inflight, closed, rtmu, pc, live>> /\ req' = req
    BY <1>7 DEF ShutdownInterrupt, RunTerminals
  <2>2. "stop" \in Stops /\ "stop" \in Callers /\ stop.target \in Executors /\ k \in Claim
    BY <1>2, <2>1, ActorFacts DEF StopOK, Live
  <2> HIDE DEF k
  <2>3. KernelOK'
    BY <1>1, <2>1, <2>2, ProgramTypes
  <2>4. /\ op = Idle /\ OpRun' /\ runs' = runs
        /\ TurnedDown("stop") \/ Launched("stop", "end", k, "RunInterrupted")
    BY <2>1, TerminalFacts
  <2>5. stop' \in Stopping /\ StopOK(stop')
    BY <1>2, <2>1 DEF Stopping, StopOK
  <2>6. \A c \in Cancellers : Aims(c)'
    BY <1>1, <2>1 DEF Aims, Aimed, Agrees, Expected, RunOf
  <2>7. "stop" \in Cancellers \cup Stops /\ "stop" \notin Cancellers
    BY <2>2, ActorFacts
  <2>8. CASE TurnedDown("stop")
    <3>1. op' = Idle /\ log'.run = log.run /\ ret' = [ret EXCEPT !["stop"] = Failed]
          /\ Failed \in Result
      BY <2>8, ResultTypes DEF TurnedDown
    <3> QED BY <1>2, <2>1, <2>3, <2>4, <2>5, <2>6, <2>7, <3>1, OutsideCall
  <2>9. CASE Launched("stop", "end", k, "RunInterrupted")
    <3>1. /\ op'.caller = "stop" /\ log'.run = log.run
          /\ ret' = [ret EXCEPT !["stop"] = NoResult]
          /\ NoResult \in Result /\ op'.kind = "end" /\ op'.type = "RunInterrupted"
      BY <2>9, ResultTypes DEF Launched
    <3> QED BY <1>2, <2>1, <2>3, <2>4, <2>5, <2>6, <2>7, <3>1, OutsideCall
  <2> QED BY <2>4, <2>8, <2>9
<1> QED BY <1>4, <1>5, <1>6, <1>7 DEF Shutdown

-----------------------------------------------------------------------------
(***************************************************************************)
(* Admission: a request takes a slot, draws a run, and gets its worker or  *)
(* gives the slot back.                                                    *)
(***************************************************************************)
(* What a request that changes nothing but its place and its slot needs. *)
LEMMA SlotStep ==
    ASSUME RuntimeInv, NEW e \in Executors, NEW to \in {"rejected", "admitted"}, To(e, to),
           pc[e] \in {"idle", "release_slot"}, SlotsInv', Shape(to, live[e]),
           UNCHANGED <<kernelVars, active, closed, rtmu, live, req, stop>>
    PROVE  RuntimeInv' /\ IntentKept
<1>1. /\ RuntimeTypes /\ OpRun /\ Registered /\ ShapeInv /\ DurableInv
      /\ OwnedInv /\ AnswerInv /\ FreshInv /\ TargetInv
  BY DEF RuntimeInv
<1>2. /\ KernelOK' /\ OpRun' /\ log' = log /\ op' = op /\ ret' = ret /\ runs' = runs
  BY <1>1, KernelStays DEF RuntimeTypes
<1>3. /\ pc' \in [Executors -> Handlers \cup Workers] /\ pc'[e] = to
      /\ \A f \in Executors : f # e => pc'[f] = pc[f]
      /\ active' = active /\ live' = live /\ req' = req /\ stop' = stop
  BY <1>1 DEF To, RuntimeTypes, Handlers
<1>4. RuntimeTypes'
  BY <1>1, <1>2, <1>3 DEF RuntimeTypes
<1>5. pc[e] \notin Workers /\ to \notin Workers /\ pc[e] \notin CallPcs /\ to \notin CallPcs
      /\ pc[e] # "exited"
  BY DEF Workers, CallPcs
<1>6. Registered' /\ ShapeInv' /\ DurableInv'
  BY <1>1, <1>2, <1>3, <1>5 DEF Registered, ShapeInv, DurableInv, RunOf
<1>7. OwnedInv'
  <2>1. op.caller # e
    BY <1>1, <1>5, NotTheCaller
  <2> QED BY <1>1, <1>2, <1>3, <2>1 DEF OwnedInv, Drives, Cancels, Agrees, Expected, RunOf
<1>8. AnswerInv'
  BY <1>1, <1>2, <1>3, <1>5 DEF AnswerInv, AnswerOK, RunOf, CallPcs
<1>9. FreshInv'
  <2>1. \A f \in Executors : Drawn(f)' = Drawn(f)
    BY <1>2, <1>3, <1>5 DEF Drawn, RunOf, CallPcs
  <2> QED BY <1>1, <1>2, <2>1 DEF FreshInv
<1>10. TargetInv'
  <2>1. \A f \in Executors : pc[f] \in Workers \cup {"exited"} => pc'[f] = pc[f]
    BY <1>3, <1>5
  <2>2. \A c \in Cancellers : Aims(c)'
    BY <1>1, <1>2, <1>3, <2>1 DEF TargetInv, Aims, Agrees, Expected, RunOf
  <2> QED BY <1>1, <1>3, <2>2 DEF TargetInv
<1>11. IntentKept
  BY <1>3 DEF IntentKept, Kept
<1> QED BY <1>2, <1>4, <1>6, <1>7, <1>8, <1>9, <1>10, <1>11 DEF RuntimeInv

(* Admission and its end: the slot is counted when it is taken and when it is let go. *)
LEMMA AdmitStep ==
    ASSUME RuntimeInv, NEW e \in Executors, Admit(e) \/ ReleaseSlot(e)
    PROVE  RuntimeInv' /\ IntentKept
<1>1. /\ RuntimeTypes /\ SlotsInv /\ Shape(pc[e], live[e])
      /\ pc \in [Executors -> Handlers \cup Workers]
  BY DEF RuntimeInv, ShapeInv, RuntimeTypes
<1>2. UNCHANGED <<kernelVars, active, closed, rtmu, live, req, stop>>
  BY DEF Admit, ReleaseSlot
<1>3. \A to : To(e, to) => pc'[e] = to /\ \A f \in Executors : f # e => pc'[f] = pc[f]
  BY <1>1 DEF To
<1>4. CASE pc[e] = "idle" /\ To(e, "rejected") /\ inflight' = inflight
  <2>1. Shape("rejected", live[e])
    BY <1>1, <1>4 DEF Shape, HeldOK, RunOK, TermOK, Unturned, Off, Locked, Started, Starting,
       Workers, WithChild
  <2>2. SlotsInv'
    BY <1>1, <1>3, <1>4, SameSlots DEF Off
  <2> QED BY <1>2, <1>4, <2>1, <2>2, SlotStep
<1>5. CASE pc[e] = "idle" /\ To(e, "admitted") /\ inflight' = inflight + 1
  <2>1. Shape("admitted", live[e])
    BY <1>1, <1>5 DEF Shape, HeldOK, RunOK, TermOK, Unturned, Off, Locked, Started, Starting,
       Workers, WithChild
  <2>2. SlotsInv'
    BY <1>1, <1>3, <1>5, OneSlotMore DEF Off
  <2> QED BY <1>2, <1>5, <2>1, <2>2, SlotStep
<1>6. CASE pc[e] = "release_slot" /\ To(e, "rejected") /\ inflight' = inflight - 1
  <2>1. Shape("rejected", live[e])
    BY <1>1, <1>6 DEF Shape, HeldOK, RunOK, TermOK, Unturned, Off, Locked, Started, Starting,
       Workers, WithChild
  <2>2. SlotsInv'
    BY <1>1, <1>3, <1>6, OneSlotLess DEF Off
  <2> QED BY <1>2, <1>6, <2>1, <2>2, SlotStep
<1> QED BY <1>4, <1>5, <1>6 DEF Admit, ReleaseSlot

(* BeginExecute draws a run id that nobody has. *)
LEMMA BeginStep ==
    ASSUME RuntimeInv, NEW e \in Executors, BeginRun(e)
    PROVE  RuntimeInv' /\ IntentKept
<1>1. /\ RuntimeTypes /\ OpRun /\ Registered /\ SlotsInv /\ ShapeInv /\ DurableInv
      /\ OwnedInv /\ AnswerInv /\ FreshInv /\ TargetInv /\ KernelOK
  BY DEF RuntimeInv, RuntimeTypes
<1>2. PICK p \in PrimaryOwners : Call(e, "begin", "begun", BeginExecute(e, p))
  BY DEF BeginRun
<1>3. /\ pc[e] = "begin" /\ To(e, "begun") /\ active' = active /\ inflight' = inflight
      /\ closed' = closed /\ rtmu' = rtmu /\ live' = live /\ req' = req /\ stop' = stop
      /\ BeginExecute(e, p)
  BY <1>2 DEF Call
<1>4. /\ pc' \in [Executors -> Handlers \cup Workers] /\ pc'[e] = "begun"
      /\ \A f \in Executors : f # e => pc'[f] = pc[f]
  BY <1>1, <1>3 DEF To, RuntimeTypes, Handlers
<1>5. e \in Callers /\ e # "none"
  BY ActorFacts
<1>6. KernelOK'
  BY <1>1, <1>3, <1>5, ProgramTypes
<1>7. /\ op = Idle /\ OpRun'
      /\ \/ TurnedDown(e)
         \/ /\ \E k : k.run = runs + 1 /\ Launched(e, "begin", k, "RunStarted")
            /\ runs' = runs + 1
  BY <1>3, BeginRunFacts
<1>n. runs \in Nat
  BY <1>1, BoundsAssumption DEF KernelOK, BoundsOK
<1>8. /\ \A c \in Callers : c # e => ret'[c] = ret[c]
      /\ ret'[e].ok = FALSE /\ log' = log
      /\ \/ op' = Idle /\ op'.caller = "none" /\ runs' = runs
         \/ /\ op'.caller = e /\ op'.kind = "begin" /\ op'.claim.run = runs + 1
            /\ ret'[e] = NoResult /\ runs' = runs + 1
  <2>1. ret \in [Callers -> Result] /\ Failed.ok = FALSE /\ NoResult.ok = FALSE
        /\ Idle.caller = "none"
    BY <1>1 DEF KernelOK, RetOK, Failed, NoResult, Idle
  <2>2. CASE TurnedDown(e)
    BY <1>5, <2>1, <2>2 DEF TurnedDown
  <2>3. ASSUME NEW k, k.run = runs + 1, Launched(e, "begin", k, "RunStarted"), runs' = runs + 1
        PROVE  /\ \A c \in Callers : c # e => ret'[c] = ret[c]
               /\ ret'[e].ok = FALSE /\ log' = log
               /\ op'.caller = e /\ op'.kind = "begin" /\ op'.claim.run = runs + 1
               /\ ret'[e] = NoResult
    BY <1>5, <2>1, <2>3 DEF Launched
  <2> QED BY <1>7, <2>2, <2>3
<1>9. RuntimeTypes'
  BY <1>1, <1>3, <1>4, <1>6 DEF RuntimeTypes
<1>10. Registered' /\ DurableInv'
  BY <1>1, <1>3, <1>4, <1>8 DEF Registered, DurableInv, RunOf, Workers
<1>11. SlotsInv'
  BY <1>1, <1>3, <1>4, SameSlots DEF Off
<1>12. ShapeInv'
  <2>1. Shape("begin", live[e]) => Shape("begun", live[e])
    BY DEF Shape, HeldOK, RunOK, TermOK, Unturned, Off, Locked, Started, Starting, Workers,
       WithChild
  <2> QED BY <1>1, <1>3, <1>4, <2>1 DEF ShapeInv
<1>13. OwnedInv'
  <2>1. CASE op' = Idle
    BY <2>1, ActorFacts DEF OwnedInv, Idle
  <2>2. CASE op'.caller = e /\ op'.kind = "begin" /\ op'.claim.run = runs + 1
             /\ ret'[e] = NoResult
    <3>1. Drives(e)' /\ \A c \in Cancellers \cup Stops : op'.caller # c
      BY <1>4, <1>n, <2>2, ActorFacts DEF Drives
    <3> QED BY <1>5, <2>2, <3>1 DEF OwnedInv
  <2> QED BY <1>8, <2>1, <2>2
<1>14. AnswerInv'
  BY <1>1, <1>3, <1>4, <1>8, ActorFacts DEF AnswerInv, AnswerOK, RunOf
<1>15. FreshInv'
  <2>1. \A f \in Executors : f # e => Drawn(f)' = Drawn(f)
    BY <1>3, <1>4, <1>7, <1>8, ActorFacts DEF Drawn, RunOf, Idle
  <2>2. (Drawn(e)' = 0 /\ runs' = runs) \/ (Drawn(e)' = runs + 1 /\ runs' = runs + 1)
    BY <1>4, <1>5, <1>8 DEF Drawn
  <2>3. \A f \in Executors : Drawn(f) \in Nat
    <3> SUFFICES ASSUME NEW f \in Executors PROVE Drawn(f) \in Nat
      OBVIOUS
    <3>1. RunOf(f) \in Nat
      BY <1>1 DEF RuntimeTypes, RunOf, Live, Claim
    <3>2. ret[f].claim.run \in Nat /\ op.claim.run \in Nat
      BY <1>1, ActorFacts DEF KernelOK, RetOK, OpOK, Operation, Result, Claim
    <3> QED BY <3>1, <3>2 DEF Drawn
  <2> QED BY <1>1, <1>n, <2>1, <2>2, <2>3 DEF FreshInv
<1>16. TargetInv'
  <2>1. \A f \in Executors : pc[f] \in Workers \cup {"exited"} => pc'[f] = pc[f]
    BY <1>3, <1>4 DEF Workers
  <2>2. \A c \in Cancellers : Aims(c)'
    BY <1>1, <1>3, <2>1 DEF TargetInv, Aims, Agrees, Expected, RunOf
  <2> QED BY <1>1, <1>3, <2>2 DEF TargetInv
<1>17. IntentKept
  BY <1>3 DEF IntentKept, Kept
<1> QED BY <1>7, <1>9, <1>10, <1>11, <1>12, <1>13, <1>14, <1>15, <1>16, <1>17 DEF RuntimeInv

(* The second critical section of execute: the request takes its run. *)
LEMMA TakeRun ==
    ASSUME RuntimeInv, NEW e \in Executors, Begun(e), ret[e].ok,
           NEW to \in {"abort", "routing"}, NEW l \in Live, To(e, to), Becomes(e, l),
           Shape(to, l), l.claim = ret[e].claim, l.converged = live[e].converged,
           l.intent = live[e].intent,
           \/ to = "abort" /\ active' = active
           \/ to = "routing" /\ active = "none" /\ active' = e,
           UNCHANGED <<kernelVars, inflight, closed, rtmu, req, stop>>
    PROVE  RuntimeInv' /\ IntentKept
<1>1. /\ RuntimeTypes /\ OpRun /\ Registered /\ SlotsInv /\ ShapeInv /\ DurableInv
      /\ OwnedInv /\ AnswerInv /\ FreshInv /\ TargetInv /\ Shape(pc[e], live[e])
  BY DEF RuntimeInv, ShapeInv
<1>2. /\ KernelOK' /\ OpRun' /\ log' = log /\ op' = op /\ ret' = ret /\ runs' = runs
      /\ inflight' = inflight /\ req' = req /\ stop' = stop /\ closed' = closed /\ rtmu' = rtmu
  BY <1>1, KernelStays DEF RuntimeTypes
<1>3. /\ pc' \in [Executors -> Handlers \cup Workers] /\ live' \in [Executors -> Live]
      /\ pc'[e] = to /\ live'[e] = l /\ pc[e] = "begun"
      /\ \A f \in Executors : f # e => pc'[f] = pc[f] /\ live'[f] = live[f]
  BY <1>1 DEF To, Becomes, RuntimeTypes, Handlers, Workers, Begun
<1>4. op.caller # e
  BY <1>1, NotTheCaller DEF Begun
<1>5. RunOf(e) = 0 /\ ~live[e].converged /\ Drawn(e) = l.claim.run
  BY <1>1, <1>3 DEF Shape, RunOK, Starting, RunOf, Drawn
<1>6. RuntimeTypes'
  BY <1>1, <1>2, <1>3 DEF RuntimeTypes
<1>7. Registered'
  <2>1. "begun" \notin Workers /\ "abort" \notin Workers /\ "routing" \in Workers
    BY DEF Workers
  <2>2. CASE to = "abort" /\ active' = active
    BY <1>1, <1>3, <2>1, <2>2 DEF Registered
  <2>3. CASE to = "routing" /\ active = "none" /\ active' = e
    BY <1>1, <1>3, <2>1, <2>3, ActorFacts DEF Registered
  <2> QED BY <2>2, <2>3
<1>8. SlotsInv'
  BY <1>1, <1>2, <1>3, SameSlots DEF Off
<1>9. ShapeInv'
  BY <1>1, <1>3 DEF ShapeInv
<1>10. DurableInv'
  BY <1>1, <1>2, <1>3, <1>5 DEF DurableInv, RunOf
<1>11. OwnedInv'
  BY <1>1, <1>2, <1>3, <1>4 DEF OwnedInv, Drives, Cancels, Agrees, Expected, RunOf
<1>12. AnswerInv'
  BY <1>1, <1>2, <1>3 DEF AnswerInv, AnswerOK, RunOf
<1>13. FreshInv'
  <2>1. \A f \in Executors : Drawn(f)' = Drawn(f)
    BY <1>2, <1>3, <1>5 DEF Drawn, RunOf
  <2> QED BY <1>1, <1>2, <2>1 DEF FreshInv
<1>14. TargetInv'
  <2>1. \A f \in Executors : pc[f] \in Workers \cup {"exited"} =>
                                pc'[f] = pc[f] /\ live'[f] = live[f]
    BY <1>3 DEF Workers
  <2>2. \A c \in Cancellers : Aims(c)'
    BY <1>1, <1>2, <2>1 DEF TargetInv, Aims, Aimed, Agrees, Expected, RunOf
  <2> QED BY <1>1, <1>2, <2>2 DEF TargetInv
<1>15. IntentKept
  BY <1>3 DEF IntentKept, Kept
<1> QED BY <1>2, <1>6, <1>7, <1>8, <1>9, <1>10, <1>11, <1>12, <1>13, <1>14, <1>15
        DEF RuntimeInv

(* RegisterLive: the run becomes the active one, or is aborted because the runtime closed or is
   taken. *)
LEMMA RegisterStep ==
    ASSUME RuntimeInv, NEW e \in Executors, Register(e)
    PROVE  RuntimeInv' /\ IntentKept
<1> DEFINE v == live[e]
           k == ret[e].claim
           started == [v EXCEPT !.claim = k]
           gone(type) == [started EXCEPT !.turns = {}, !.ctx = TRUE, !.todo = <<type>>]
<1>1. /\ Shape("begun", v) /\ v \in Live /\ k \in Claim /\ k.run # 0
      /\ Begun(e) /\ ret[e].ok /\ active \in Executors \cup {"none"}
  <2>1. Begun(e) /\ ret[e].ok
    BY DEF Register
  <2>2. k \in Claim
    BY ActorFacts DEF RuntimeInv, RuntimeTypes, KernelOK, RetOK, Result
  <2>3. k.run # 0
    BY <2>1 DEF RuntimeInv, AnswerInv, AnswerOK, Begun
  <2> QED BY <2>1, <2>2, <2>3 DEF RuntimeInv, ShapeInv, RuntimeTypes, Begun
<1>2. /\ Begun(e) /\ ret[e].ok /\ UNCHANGED <<kernelVars, inflight, closed, rtmu, req, stop>>
      /\ \/ \E type \in {"RunInterrupted", "RunFailed"} :
               To(e, "abort") /\ Becomes(e, gone(type)) /\ active' = active
         \/ To(e, "routing") /\ Becomes(e, started) /\ active = "none" /\ active' = e
  BY DEF Register
<1> HIDE DEF v, k
<1>3. /\ started \in Live /\ started.claim = k /\ started.converged = v.converged
      /\ started.intent = v.intent
      /\ started.authorityMu = v.authorityMu /\ started.todo = v.todo
  BY <1>1 DEF Live
<1>4. Shape("routing", started)
  <2>1. HeldOK("routing", started)
    BY <1>1, <1>3 DEF Shape, HeldOK, Unturned, Off, Locked
  <2>2. RunOK("routing", started)
    BY <1>1, <1>3 DEF RunOK, Starting, WithChild
  <2>3. TermOK("routing", started)
    BY <1>1, <1>3 DEF Shape, TermOK, OnlyIfComplete
  <2> QED BY <2>1, <2>2, <2>3 DEF Shape
<1>5. ASSUME NEW type \in {"RunInterrupted", "RunFailed"}
      PROVE  /\ gone(type) \in Live /\ gone(type).claim = k
             /\ gone(type).converged = v.converged /\ gone(type).intent = v.intent
             /\ Shape("abort", gone(type))
  <2> DEFINE w == started
  <2>0. w \in Live /\ w.claim = k /\ w.converged = v.converged /\ w.intent = v.intent
        /\ w.authorityMu = v.authorityMu
    BY <1>3
  <2> DEFINE l == [w EXCEPT !.turns = {}, !.ctx = TRUE, !.todo = <<type>>]
  <2>1. gone(type) = l
    OBVIOUS
  <2> HIDE DEF w
  <2>2. <<type>> \in Seq(RunTerminals) /\ Len(<<type>>) = 1 /\ <<type>>[1] = type
    BY DEF RunTerminals
  <2>3. /\ l \in Live /\ l.claim = k /\ l.converged = v.converged /\ l.intent = v.intent
        /\ l.turns = {} /\ l.todo = <<type>> /\ l.authorityMu = v.authorityMu
    BY <2>0, <2>2 DEF Live
  <2> HIDE DEF l
  <2>4. HeldOK("abort", l)
    BY <1>1, <2>3 DEF Shape, HeldOK, Locked
  <2>5. RunOK("abort", l)
    BY <1>1, <2>3 DEF RunOK, Starting, WithChild
  <2>6. TermOK("abort", l)
    BY <2>2, <2>3 DEF TermOK, OnlyIfComplete
  <2> QED BY <2>1, <2>3, <2>4, <2>5, <2>6 DEF Shape
<1> HIDE DEF started, gone
<1>6. ASSUME NEW type \in {"RunInterrupted", "RunFailed"}, To(e, "abort"),
             Becomes(e, gone(type)), active' = active
      PROVE  RuntimeInv' /\ IntentKept
  BY <1>2, <1>5, <1>6, TakeRun DEF v, k
<1>7. CASE To(e, "routing") /\ Becomes(e, started) /\ active = "none" /\ active' = e
  BY <1>2, <1>3, <1>4, <1>7, TakeRun DEF v, k
<1> QED BY <1>2, <1>6, <1>7

(* The deferred functions of a worker: it leaves nothing behind. *)
LEMMA CleanupStep ==
    ASSUME RuntimeInv, NEW e \in Executors, Cleanup(e)
    PROVE  RuntimeInv' /\ IntentKept
<1> DEFINE v == live[e]
           l == WithoutTurns(v)
<1>1. /\ RuntimeTypes /\ OpRun /\ Registered /\ SlotsInv /\ ShapeInv /\ DurableInv
      /\ OwnedInv /\ AnswerInv /\ FreshInv /\ TargetInv /\ Shape("cleanup", v) /\ v \in Live
  BY DEF RuntimeInv, ShapeInv, Cleanup, RuntimeTypes
<1>2. /\ UNCHANGED kernelVars /\ pc[e] = "cleanup" /\ To(e, "exited") /\ Becomes(e, l)
      /\ inflight' = inflight - 1 /\ closed' = closed /\ rtmu' = rtmu
      /\ req' = req /\ stop' = stop
  BY DEF Cleanup
<1>3. /\ KernelOK' /\ OpRun' /\ log' = log /\ op' = op /\ ret' = ret /\ runs' = runs
  BY <1>1, <1>2, KernelStays DEF RuntimeTypes
<1>a. active = e
  BY <1>1, <1>2 DEF Registered, Workers
<1>b. active' = "none"
  BY <1>a, ActorFacts DEF Cleanup
<1> HIDE DEF v
<1>4. /\ l \in Live /\ l.turns = {} /\ l.claim = v.claim /\ l.converged = v.converged
      /\ l.intent = v.intent /\ l.todo = v.todo /\ l.authorityMu = v.authorityMu
  BY <1>1 DEF WithoutTurns, Live
<1> HIDE DEF l
<1>5. Shape("exited", l)
  <2>1. HeldOK("exited", l)
    BY <1>1, <1>4 DEF Shape, HeldOK, Locked
  <2>2. RunOK("exited", l)
    BY <1>1, <1>4 DEF Shape, RunOK, Started, Starting, WithChild, Workers
  <2>3. TermOK("exited", l)
    BY <1>1, <1>4 DEF Shape, TermOK, OnlyIfComplete
  <2> QED BY <2>1, <2>2, <2>3 DEF Shape
<1>6. /\ pc' \in [Executors -> Handlers \cup Workers] /\ live' \in [Executors -> Live]
      /\ pc'[e] = "exited" /\ live'[e] = l
      /\ \A f \in Executors : f # e => pc'[f] = pc[f] /\ live'[f] = live[f]
  BY <1>1, <1>2, <1>4 DEF To, Becomes, RuntimeTypes, Handlers
<1>7. RuntimeTypes'
  BY <1>1, <1>2, <1>3, <1>6, <1>b DEF RuntimeTypes
<1>8. Registered'
  BY <1>1, <1>6, <1>a, <1>b, ActorFacts DEF Registered, Workers
<1>9. SlotsInv'
  BY <1>1, <1>2, <1>6, OneSlotLess DEF Off
<1>10. ShapeInv'
  BY <1>1, <1>5, <1>6 DEF ShapeInv
<1>11. op.caller # e
  BY <1>1, <1>2, NotTheCaller DEF CallPcs
<1>12. \A f \in Executors : /\ live'[f].claim = live[f].claim
                            /\ live'[f].converged = live[f].converged
                            /\ live'[f].intent = live[f].intent
  BY <1>4, <1>6 DEF v
<1>13. DurableInv' /\ IntentKept
  BY <1>1, <1>3, <1>12 DEF DurableInv, RunOf, IntentKept, Kept
<1>14. OwnedInv'
  BY <1>1, <1>2, <1>3, <1>6, <1>11 DEF OwnedInv, Drives, Cancels, Agrees, Expected, RunOf
<1>15. AnswerInv'
  BY <1>1, <1>3, <1>6 DEF AnswerInv, AnswerOK, RunOf
<1>16. FreshInv'
  <2>1. \A f \in Executors : Drawn(f)' = Drawn(f)
    BY <1>2, <1>3, <1>6, <1>12 DEF Drawn, RunOf
  <2> QED BY <1>1, <1>3, <2>1 DEF FreshInv
<1>17. TargetInv'
  <2>1. \A f \in Executors : pc[f] \in Workers \cup {"exited"} =>
                                pc'[f] \in Workers \cup {"exited"}
    BY <1>6
  <2>2. \A c \in Cancellers : Aims(c)'
    BY <1>1, <1>2, <1>12, <2>1 DEF TargetInv, Aims, Aimed, Agrees, Expected, RunOf
  <2> QED BY <1>1, <1>2, <2>2 DEF TargetInv
<1> QED BY <1>3, <1>7, <1>8, <1>9, <1>10, <1>13, <1>14, <1>15, <1>16, <1>17 DEF RuntimeInv

-----------------------------------------------------------------------------
(***************************************************************************)
(* The edits a worker makes to its live run.                               *)
(***************************************************************************)
Same(v, l) ==
    /\ l.claim = v.claim /\ l.child = v.child /\ l.converged = v.converged
    /\ l.authorityMu = v.authorityMu /\ l.todo = v.todo /\ l.intent = v.intent

(* The edits of turns, wishes and outcomes leave claim, intent, locks and convergence alone. *)
LEMMA PlainEdits ==
    ASSUME NEW v \in Live
    PROVE  /\ Same(v, v)
           /\ WithoutTurns(v) \in Live /\ Same(v, WithoutTurns(v))
           /\ Failing(v) \in Live /\ Same(v, Failing(v)) /\ Failing(v).want = "fail"
           /\ \A x \in {"primary", "child"} :
                 /\ [v EXCEPT !.turns = @ \cup {x}] \in Live
                 /\ Same(v, [v EXCEPT !.turns = @ \cup {x}])
           /\ \A o \in Outcomes : /\ [v EXCEPT !.outcome = o] \in Live
                                  /\ Same(v, [v EXCEPT !.outcome = o])
           /\ \A w \in Intents : /\ [v EXCEPT !.want = w] \in Live
                                 /\ Same(v, [v EXCEPT !.want = w])
                                 /\ [v EXCEPT !.want = w].want = w
  BY DEF Live, Same, WithoutTurns, Failing, Intents

(* Every intent has terminals to try, and only completing has RunCompleted among them. *)
LEMMA PlanFacts ==
    ASSUME NEW intent \in Intents \ {"none"}
    PROVE  /\ Plan[intent] \in Seq(RunTerminals) /\ Len(Plan[intent]) > 0
           /\ \A i \in 1..Len(Plan[intent]) : Plan[intent][i] = "RunCompleted" =>
                 intent = "complete"
<1>1. CASE intent = "complete"
  <2>1. Plan[intent] = <<"RunCompleted", "RunFailed", "RunInterrupted">>
    BY <1>1 DEF Plan
  <2> QED BY <1>1, <2>1 DEF RunTerminals
<1>2. CASE intent = "cancel"
  <2>1. Plan[intent] = <<"RunCancelled", "RunFailed", "RunInterrupted">>
    BY <1>2 DEF Plan
  <2> QED BY <2>1 DEF RunTerminals
<1>3. CASE intent = "shutdown"
  <2>1. Plan[intent] = <<"RunInterrupted", "RunFailed", "RunInterrupted">>
    BY <1>3 DEF Plan
  <2> QED BY <2>1 DEF RunTerminals
<1>4. CASE intent = "fail"
  <2>1. Plan[intent] = <<"RunFailed", "RunInterrupted">>
    BY <1>4 DEF Plan
  <2> QED BY <2>1 DEF RunTerminals
<1> QED BY <1>1, <1>2, <1>3, <1>4 DEF Intents

(* Selecting an intent, as SelectTerminal does, plans its terminals. *)
LEMMA IntendingFacts ==
    ASSUME NEW v \in Live, NEW intent \in Intents \ {"none"}, MaySelect(v, intent)
    PROVE  /\ Intending(v, intent) \in Live /\ Kept(v, Intending(v, intent))
           /\ Intending(v, intent).claim = v.claim
           /\ Intending(v, intent).authorityMu = v.authorityMu
           /\ Intending(v, intent).converged = v.converged
           /\ Len(Intending(v, intent).todo) > 0 /\ OnlyIfComplete(Intending(v, intent))
<1> DEFINE l == Intending(v, intent)
<1>1. /\ l \in Live /\ l.claim = v.claim /\ l.authorityMu = v.authorityMu
      /\ l.converged = v.converged
      /\ l.intent = intent /\ l.todo = Plan[intent]
  BY PlanFacts DEF Intending, Live
<1> HIDE DEF l
<1>2. OnlyIfComplete(l) /\ Len(l.todo) > 0 /\ Kept(v, l)
  BY <1>1, PlanFacts DEF OnlyIfComplete, Kept, MaySelect
<1> QED BY <1>1, <1>2 DEF l

(* Going on to the next terminal of the plan keeps what is known of the plan. *)
LEMMA TailFacts ==
    ASSUME NEW v \in Live, OnlyIfComplete(v), Len(v.todo) > 1
    PROVE  LET l == [v EXCEPT !.todo = Tail(@)]
           IN  /\ l \in Live /\ l.claim = v.claim /\ l.authorityMu = v.authorityMu
               /\ l.converged = v.converged /\ l.intent = v.intent
               /\ Len(l.todo) > 0 /\ OnlyIfComplete(l)
<1> DEFINE s == v.todo
           l == [v EXCEPT !.todo = Tail(@)]
<1>1. s \in Seq(RunTerminals) /\ Len(s) > 1
      /\ \A i \in 1..Len(s) : s[i] = "RunCompleted" => v.intent = "complete"
  BY DEF Live, OnlyIfComplete
<1> HIDE DEF s
<1>2. /\ Tail(s) \in Seq(RunTerminals) /\ Len(Tail(s)) = Len(s) - 1
      /\ \A i \in 1..Len(Tail(s)) : Tail(s)[i] = s[i + 1]
  BY <1>1
<1>3. /\ l \in Live /\ l.claim = v.claim /\ l.authorityMu = v.authorityMu
      /\ l.converged = v.converged /\ l.intent = v.intent /\ l.todo = Tail(s)
  BY <1>2 DEF Live, s
<1> HIDE DEF l
<1>4. OnlyIfComplete(l) /\ Len(l.todo) > 0
  BY <1>1, <1>2, <1>3 DEF OnlyIfComplete
<1> QED BY <1>3, <1>4 DEF l

(* What a worker knows, and what it needs where it goes. *)
LEMMA WorkerKnows ==
    ASSUME NEW at \in Workers, NEW v, Shape(at, v)
    PROVE  /\ v.claim.run # 0 /\ (v.authorityMu => at \in Locked)
           /\ (at \in WithChild => v.child.run = v.claim.run)
           /\ OnlyIfComplete(v) /\ (at \in {"return", "returned"} => Ordered(v))
           /\ (at = "select" => v.want # "none")
           /\ (at = "persist" => Len(v.todo) > 0)
  BY DEF Shape, HeldOK, RunOK, TermOK, Started

(* What a place of the worker asks of the run's fields. *)
LEMMA WorkerNeeds ==
    ASSUME NEW at \in Workers, NEW l, l.claim.run # 0, l.authorityMu => at \in Locked,
           at \in WithChild => l.child.run = l.claim.run,
           at \in {"return", "returned"} => Ordered(l), at = "select" => l.want # "none",
           at = "persist" => Len(l.todo) > 0, OnlyIfComplete(l)
    PROVE  Shape(at, l)
<1>1. at \notin Unturned /\ at \notin Starting /\ at # "abort"
  BY DEF Unturned, Off, Starting, Workers
<1> QED BY <1>1 DEF Shape, HeldOK, RunOK, TermOK

(***************************************************************************)
(* A worker moves on by itself: where it may go, and what it must take     *)
(* along.                                                                  *)
(***************************************************************************)
Moves(from, to) == from \in Workers /\ to \in Workers /\ to \notin CallPcs

Needs(v, to, l) ==
    /\ l \in Live /\ l.claim.run = v.claim.run /\ Kept(v, l) /\ OnlyIfComplete(l)
    /\ l.authorityMu => to \in Locked
    /\ to \in WithChild => l.child.run = l.claim.run
    /\ to = "return" => Ordered(l)
    /\ to = "select" => l.want # "none"
    /\ to = "persist" => Len(l.todo) > 0

(* A step of a worker or its handler that hands on what the next place needs keeps the invariant. *)
LEMMA DriveStep ==
    ASSUME RuntimeInv, NEW e \in Executors, NEW from, NEW to, NEW l, Local(e, from, to, l),
           from \in CallPcs => Returned(e), Moves(from, to), Needs(live[e], to, l),
           Settles(e, l)
    PROVE  RuntimeInv' /\ IntentKept
<1>1. l.claim.run # 0
  BY WorkerKnows DEF RuntimeInv, ShapeInv, Local, Moves, Needs
<1>2. to # "returned"
  BY DEF Moves, CallPcs
<1>3. Shape(to, l)
  BY <1>1, <1>2, WorkerNeeds DEF Moves, Needs
<1>4. Fit(live[e], to, l)
  BY <1>3 DEF Fit, Needs
<1>5. Staying(from, to)
  BY DEF Staying, Moves
<1> QED BY <1>4, <1>5, LocalStep

(* What is known of the executor that moves. *)
LEMMA MoverKnows ==
    ASSUME RuntimeInv, NEW e \in Executors
    PROVE  /\ live[e] \in Live /\ Shape(pc[e], live[e]) /\ ret[e] \in Result
           /\ ret[e].claim \in Claim
           /\ AnswerOK(e) /\ OnlyIfComplete(live[e])
<1>1. /\ RuntimeTypes /\ ShapeInv /\ AnswerInv /\ ret \in [Callers -> Result]
  BY DEF RuntimeInv, RuntimeTypes, KernelOK, RetOK
<1>2. live[e] \in Live /\ Shape(pc[e], live[e]) /\ AnswerOK(e)
  BY <1>1 DEF RuntimeTypes, ShapeInv, AnswerInv
<1>3. ret[e] \in Result /\ ret[e].claim \in Claim
  BY <1>1, ActorFacts DEF Result
<1> QED BY <1>2, <1>3 DEF Shape, TermOK

(* Places a worker goes to with nothing but its run, when it holds no authorityMu. *)
Plainly == Workers \ (CallPcs \cup Locked \cup WithChild \cup {"select", "persist"})

(* A worker moves on with the same run, intent and terminals. *)
LEMMA GoesAlong ==
    ASSUME RuntimeInv, NEW e \in Executors, NEW from \in Workers \ Locked,
           NEW to \in Plainly \cup {"select"}, NEW l, Local(e, from, to, l),
           from \in CallPcs => Returned(e), l \in Live, Same(live[e], l),
           to = "select" => l.want # "none"
    PROVE  RuntimeInv' /\ IntentKept
<1> DEFINE v == live[e]
<1>1. OnlyIfComplete(v) /\ ~v.authorityMu
  BY MoverKnows, WorkerKnows DEF Local
<1>2. Moves(from, to) /\ to \notin WithChild /\ to # "return" /\ to # "persist"
  BY DEF Moves, Plainly, CallPcs, WithChild, Workers
<1> HIDE DEF v
<1>3. Same(v, l) /\ ~l.authorityMu
  BY <1>1 DEF Same, v
<1>4. Needs(v, to, l)
  BY <1>1, <1>2, <1>3 DEF Needs, Same, Kept, OnlyIfComplete
<1>5. Settles(e, l)
  BY <1>3 DEF Settles, Same, v
<1> QED BY <1>2, <1>4, <1>5, DriveStep DEF v

(* A worker goes to persist the terminals of an intent that is or becomes its own. *)
Alike(v, w) ==
    /\ w \in Live /\ w.claim.run = v.claim.run /\ w.converged = v.converged
    /\ w.authorityMu = v.authorityMu /\ w.intent = v.intent

(* A run whose authority and intent were left alone is alike. *)
LEMMA SameAlike ==
    ASSUME NEW v \in Live, NEW w \in Live, Same(v, w)
    PROVE  Alike(v, w)
  BY DEF Same, Alike

(* A worker that selects an intent goes on to persist it. *)
LEMMA IntendsStep ==
    ASSUME RuntimeInv, NEW e \in Executors, NEW from \in Workers \ Locked, NEW w,
           Alike(live[e], w), NEW i \in Intents \ {"none"}, MaySelect(w, i),
           Local(e, from, "persist", Intending(w, i)), from \in CallPcs => Returned(e)
    PROVE  RuntimeInv' /\ IntentKept
<1> DEFINE v == live[e]
           l == Intending(w, i)
<1>1. ~v.authorityMu
  BY MoverKnows, WorkerKnows DEF Local
<1>2. Alike(v, w)
  OBVIOUS
<1>3. /\ l \in Live /\ Kept(w, l) /\ l.claim = w.claim /\ l.authorityMu = w.authorityMu
      /\ l.converged = w.converged /\ Len(l.todo) > 0 /\ OnlyIfComplete(l)
  BY <1>2, IntendingFacts DEF Alike
<1>4. Local(e, from, "persist", l)
  OBVIOUS
<1> HIDE DEF v, l
<1>5. Needs(v, "persist", l)
  BY <1>1, <1>2, <1>3 DEF Needs, Alike, Kept, WithChild
<1>6. Moves(from, "persist")
  BY DEF Moves, Workers, CallPcs
<1>7. Settles(e, l)
  BY <1>2, <1>3 DEF Settles, Alike, v
<1> QED BY <1>4, <1>5, <1>6, <1>7, DriveStep DEF v

(* An ordered intent is one, and a worker may select it again. *)
LEMMA OrderedFacts ==
    ASSUME NEW v \in Live, NEW w \in Live, Ordered(v), w.intent = v.intent
    PROVE  v.intent \in Intents \ {"none"} /\ MaySelect(w, v.intent)
  BY DEF Ordered, Intents, MaySelect

(* The edits on the way of a turn, by type and by what they leave alone. *)
LEMMA TurnEdits ==
    ASSUME NEW v \in Live, NEW o \in TurnOutcomes(v)
    PROVE  /\ [v EXCEPT !.outcome = o] \in Live /\ Same(v, [v EXCEPT !.outcome = o])
           /\ [WithoutTurns(v) EXCEPT !.outcome = o] \in Live
           /\ Same(v, [WithoutTurns(v) EXCEPT !.outcome = o])
<1> DEFINE w == WithoutTurns(v)
<1>1. o \in Outcomes
  BY DEF TurnOutcomes, Outcomes
<1>2. w \in Live /\ Same(v, w)
  BY PlainEdits
<1> HIDE DEF w
<1>3. [w EXCEPT !.outcome = o] \in Live /\ Same(w, [w EXCEPT !.outcome = o])
  BY <1>1, <1>2, PlainEdits
<1>4. [v EXCEPT !.outcome = o] \in Live /\ Same(v, [v EXCEPT !.outcome = o])
  BY <1>1, PlainEdits
<1>5. Same(v, [w EXCEPT !.outcome = o])
  BY <1>2, <1>3 DEF Same
<1> QED BY <1>3, <1>4, <1>5 DEF w

(* The model turn of the primary ends, or asks for a delegation, or for one it may not have. *)
LEMMA PrimaryTurnStep ==
    ASSUME RuntimeInv, NEW e \in Executors, PrimaryTurn(e)
    PROVE  RuntimeInv' /\ IntentKept
<1> DEFINE v == live[e]
<1>1. v \in Live
  BY MoverKnows
<1>2. /\ "turn" \in Workers \ Locked /\ "turn" \notin CallPcs
      /\ {"finish", "plan"} \subseteq Plainly
  BY DEF Workers, Locked, CallPcs, Plainly, WithChild
<1>3. /\ Same(v, v) /\ Failing(v) \in Live /\ Same(v, Failing(v)) /\ Failing(v).want = "fail"
  BY <1>1, PlainEdits
<1>4. ASSUME NEW o \in TurnOutcomes(v),
             Local(e, "turn", "finish", [WithoutTurns(v) EXCEPT !.outcome = o])
      PROVE  RuntimeInv' /\ IntentKept
  <2> DEFINE l == [WithoutTurns(v) EXCEPT !.outcome = o]
  <2>1. l \in Live /\ Same(v, l) /\ Local(e, "turn", "finish", l)
    BY <1>1, <1>4, TurnEdits
  <2> HIDE DEF l
  <2> QED BY <1>2, <2>1, GoesAlong
<1>5. CASE Local(e, "turn", "plan", v)
  BY <1>1, <1>2, <1>3, <1>5, GoesAlong
<1>6. CASE Local(e, "turn", "select", Failing(v))
  <2> DEFINE l == Failing(v)
  <2>1. l \in Live /\ Same(v, l) /\ Local(e, "turn", "select", l) /\ l.want # "none"
    BY <1>3, <1>6
  <2> HIDE DEF l
  <2> QED BY <1>2, <2>1, GoesAlong
<1> QED BY <1>4, <1>5, <1>6 DEF PrimaryTurn

(* The delegation is planned, found malformed, or given up for a stop that was asked for. *)
LEMMA PlanChildStep ==
    ASSUME RuntimeInv, NEW e \in Executors, PlanChild(e)
    PROVE  RuntimeInv' /\ IntentKept
<1> DEFINE v == live[e]
           w == WithoutTurns(v)
           f == Failing(v)
<1>1. v \in Live
  BY MoverKnows
<1>2. /\ "plan" \in Workers \ Locked /\ "plan" \notin CallPcs /\ "acquire" \in Plainly
  BY DEF Workers, Locked, CallPcs, Plainly, WithChild
<1>3. /\ f \in Live /\ Same(v, f) /\ f.want = "fail" /\ w \in Live /\ Same(v, w)
  BY <1>1, PlainEdits
<1>4. \/ Local(e, "plan", "select", f)
      \/ Ordered(v) /\ Local(e, "plan", "persist", Intending(w, v.intent))
      \/ Local(e, "plan", "acquire", w)
  BY DEF PlanChild
<1> HIDE DEF w, f
<1>5. CASE Local(e, "plan", "select", f)
  BY <1>2, <1>3, <1>5, GoesAlong
<1>6. CASE Ordered(v) /\ Local(e, "plan", "persist", Intending(w, v.intent))
  <2>1. Alike(v, w) /\ w.intent = v.intent
    BY <1>1, <1>3, SameAlike DEF Same
  <2>2. v.intent \in Intents \ {"none"} /\ MaySelect(w, v.intent)
    BY <1>1, <1>3, <1>6, <2>1, OrderedFacts
  <2> QED BY <1>2, <1>6, <2>1, <2>2, IntendsStep
<1>7. CASE Local(e, "plan", "acquire", w)
  BY <1>2, <1>3, <1>7, GoesAlong
<1> QED BY <1>4, <1>5, <1>6, <1>7

(* The child's resource turn is granted or refused. *)
LEMMA AcquireChildStep ==
    ASSUME RuntimeInv, NEW e \in Executors, AcquireChild(e)
    PROVE  RuntimeInv' /\ IntentKept
<1> DEFINE v == live[e]
           w == [v EXCEPT !.turns = @ \cup {"child"}]
           f == Failing(v)
<1>1. v \in Live
  BY MoverKnows
<1>2. /\ "acquire" \in Workers \ Locked /\ "acquire" \notin CallPcs /\ "lock_out" \in Plainly
  BY DEF Workers, Locked, CallPcs, Plainly, WithChild
<1>3. /\ f \in Live /\ Same(v, f) /\ f.want = "fail" /\ w \in Live /\ Same(v, w)
  BY <1>1, PlainEdits
<1>4. Local(e, "acquire", "lock_out", w) \/ Local(e, "acquire", "select", f)
  BY DEF AcquireChild
<1> HIDE DEF w, f
<1>5. CASE Local(e, "acquire", "lock_out", w)
  BY <1>2, <1>3, <1>5, GoesAlong
<1>6. CASE Local(e, "acquire", "select", f)
  BY <1>2, <1>3, <1>6, GoesAlong
<1> QED BY <1>4, <1>5, <1>6

(* Taking authorityMu: nothing but the lock and the owner to return to changes. *)
LEMMA LockEdits ==
    ASSUME NEW v \in Live, NEW b \in BOOLEAN, NEW o \in Owner
    PROVE  LET l == [v EXCEPT !.authorityMu = b]
               k == [v EXCEPT !.authorityMu = b, !.owner = o]
           IN  /\ l \in Live /\ l.claim = v.claim /\ l.child = v.child
               /\ l.converged = v.converged /\ l.intent = v.intent /\ l.todo = v.todo
               /\ l.authorityMu = b
               /\ k \in Live /\ k.claim = v.claim /\ k.child = v.child
               /\ k.converged = v.converged /\ k.intent = v.intent /\ k.todo = v.todo
  BY DEF Live

(* The handoff out takes authorityMu, unless an intent came first. *)
LEMMA LockOutStep ==
    ASSUME RuntimeInv, NEW e \in Executors, LockOut(e)
    PROVE  RuntimeInv' /\ IntentKept
<1> DEFINE v == live[e]
           w == WithoutTurns(v)
           l == [v EXCEPT !.authorityMu = TRUE, !.owner = v.claim.owner]
<1>1. v \in Live /\ OnlyIfComplete(v)
  BY MoverKnows
<1>2. /\ "lock_out" \in Workers \ Locked /\ "lock_out" \notin CallPcs
      /\ Moves("lock_out", "out") /\ "out" \in Locked /\ "out" \notin WithChild
  BY DEF Workers, Locked, CallPcs, Moves, WithChild
<1>3. w \in Live /\ Same(v, w)
  BY <1>1, PlainEdits
<1>4. /\ l \in Live /\ l.claim = v.claim /\ l.converged = v.converged
      /\ l.intent = v.intent /\ l.todo = v.todo
  <2>1. v.claim.owner \in Owner
    BY <1>1 DEF Live, Claim
  <2> QED BY <1>1, <2>1, LockEdits
<1>5. \/ Ordered(v) /\ Local(e, "lock_out", "persist", Intending(w, v.intent))
      \/ Local(e, "lock_out", "out", l)
  BY DEF LockOut
<1> HIDE DEF w, l
<1>6. CASE Ordered(v) /\ Local(e, "lock_out", "persist", Intending(w, v.intent))
  <2>1. Alike(v, w) /\ w.intent = v.intent
    BY <1>1, <1>3, SameAlike DEF Same
  <2>2. v.intent \in Intents \ {"none"} /\ MaySelect(w, v.intent)
    BY <1>1, <1>3, <1>6, <2>1, OrderedFacts
  <2> QED BY <1>2, <1>6, <2>1, <2>2, IntendsStep
<1>7. CASE Local(e, "lock_out", "out", l)
  <2>1. Needs(v, "out", l)
    BY <1>1, <1>2, <1>4 DEF Needs, Kept, OnlyIfComplete
  <2>2. Settles(e, l)
    BY <1>4 DEF Settles
  <2> QED BY <1>2, <1>7, <2>1, <2>2, DriveStep
<1> QED BY <1>5, <1>6, <1>7

(* The handoff is over: its fault, or the claim and the child it left. *)
LEMMA HandedStep ==
    ASSUME RuntimeInv, NEW e \in Executors, Handed(e)
    PROVE  RuntimeInv' /\ IntentKept
<1> DEFINE v == live[e]
           k == ret[e].claim
           u == [v EXCEPT !.authorityMu = FALSE]
           f == Failing(u)
           p == [u EXCEPT !.claim.owner = k.owner, !.claim.fence = k.fence, !.child = k]
           w == WithoutTurns(p)
<1>1. v \in Live /\ OnlyIfComplete(v) /\ k \in Claim
  BY MoverKnows
<1>2. Returned(e) /\ pc[e] = "handed"
  BY DEF Handed, Local
<1>3. ret[e].ok => k.run = v.claim.run
  BY <1>2, MoverKnows DEF AnswerOK, RunOf
<1>4. \/ Local(e, "handed", "reconcile", f)
      \/ ret[e].ok /\ Ordered(v) /\ Local(e, "handed", "return", w)
      \/ ret[e].ok /\ Local(e, "handed", "child_routing", p)
  BY DEF Handed
<1>5. /\ Moves("handed", "reconcile") /\ Moves("handed", "return")
      /\ Moves("handed", "child_routing")
      /\ "reconcile" \notin WithChild
  BY DEF Moves, Workers, CallPcs, WithChild
<1>6. /\ u \in Live /\ u.claim = v.claim /\ u.converged = v.converged /\ u.intent = v.intent
      /\ u.todo = v.todo /\ u.authorityMu = FALSE
  BY <1>1, OwnerTypes, LockEdits
<1> HIDE DEF v, k, u
<1>7. /\ p \in Live /\ p.claim.run = v.claim.run /\ p.child = k /\ p.converged = v.converged
      /\ p.intent = v.intent /\ p.todo = v.todo /\ p.authorityMu = FALSE
  BY <1>1, <1>6 DEF Live, Claim
<1>8. f \in Live /\ Same(u, f)
  BY <1>6, PlainEdits
<1> HIDE DEF p
<1>9. w \in Live /\ Same(p, w)
  BY <1>7, PlainEdits
<1> HIDE DEF f, w
<1>10. CASE Local(e, "handed", "reconcile", f)
  <2>1. Needs(v, "reconcile", f)
    BY <1>1, <1>5, <1>6, <1>8 DEF Needs, Same, Kept, OnlyIfComplete
  <2>2. Settles(e, f)
    BY <1>6, <1>8 DEF Settles, Same, v
  <2> QED BY <1>2, <1>5, <1>10, <2>1, <2>2, DriveStep DEF v
<1>11. CASE ret[e].ok /\ Ordered(v) /\ Local(e, "handed", "return", w)
  <2>1. Needs(v, "return", w)
    BY <1>1, <1>3, <1>7, <1>9, <1>11 DEF Needs, Same, Kept, OnlyIfComplete, Ordered
  <2>2. Settles(e, w)
    BY <1>7, <1>9 DEF Settles, Same, v
  <2> QED BY <1>2, <1>5, <1>11, <2>1, <2>2, DriveStep DEF v
<1>12. CASE ret[e].ok /\ Local(e, "handed", "child_routing", p)
  <2>1. Needs(v, "child_routing", p)
    BY <1>1, <1>3, <1>7, <1>12 DEF Needs, Kept, OnlyIfComplete
  <2>2. Settles(e, p)
    BY <1>7 DEF Settles, v
  <2> QED BY <1>2, <1>5, <1>12, <2>1, <2>2, DriveStep DEF v
<1> QED BY <1>4, <1>10, <1>11, <1>12

(* The child's turn is over: an ordered worker returns without authorityMu. *)
LEMMA ChildTurnStep ==
    ASSUME RuntimeInv, NEW e \in Executors, ChildTurn(e)
    PROVE  RuntimeInv' /\ IntentKept
<1> DEFINE v == live[e]
           at == IF Ordered(v) THEN "return" ELSE "lock_back"
<1>1. PICK o \in TurnOutcomes(v) :
         Local(e, "child_turn", at, [WithoutTurns(v) EXCEPT !.outcome = o])
  BY DEF ChildTurn
<1> DEFINE l == [WithoutTurns(v) EXCEPT !.outcome = o]
<1>2. v \in Live /\ OnlyIfComplete(v) /\ Local(e, "child_turn", at, l)
  BY <1>1, MoverKnows
<1>3. ~v.authorityMu /\ v.child.run = v.claim.run
  BY <1>2, MoverKnows, WorkerKnows DEF Local, Workers, Locked, WithChild
<1>4. l \in Live /\ Same(v, l)
  BY <1>2, TurnEdits
<1>5. "child_turn" \notin CallPcs /\ Moves("child_turn", at)
  BY DEF Moves, Workers, CallPcs
<1>6. at = "return" => Ordered(v)
  OBVIOUS
<1>7. at \in {"return", "lock_back"}
  OBVIOUS
<1> HIDE DEF l, at
<1>8. Needs(v, at, l)
  BY <1>2, <1>3, <1>4, <1>6, <1>7 DEF Needs, Same, Kept, OnlyIfComplete, Ordered
<1>9. Settles(e, l)
  BY <1>4 DEF Settles, Same
<1> QED BY <1>2, <1>5, <1>8, <1>9, DriveStep

(* The handoff back takes authorityMu. *)
LEMMA LockBackStep ==
    ASSUME RuntimeInv, NEW e \in Executors, LockBack(e)
    PROVE  RuntimeInv' /\ IntentKept
<1> DEFINE v == live[e]
           l == [v EXCEPT !.authorityMu = TRUE]
<1>1. v \in Live /\ OnlyIfComplete(v)
  BY MoverKnows
<1>2. pc[e] = "lock_back" /\ ~v.authorityMu
  BY DEF LockBack, Local
<1>3. v.child.run = v.claim.run
  BY <1>2, MoverKnows, WorkerKnows DEF Workers, WithChild
<1>4. /\ "lock_back" \notin CallPcs /\ Moves("lock_back", "return")
      /\ Moves("lock_back", "back") /\ "back" \in Locked
  BY DEF Moves, Workers, CallPcs, Locked
<1>5. /\ l \in Live /\ l.claim = v.claim /\ l.child = v.child /\ l.converged = v.converged
      /\ l.intent = v.intent /\ l.todo = v.todo
  BY <1>1, OwnerTypes, LockEdits
<1>6. \/ Ordered(v) /\ Local(e, "lock_back", "return", v)
      \/ Local(e, "lock_back", "back", l)
  BY DEF LockBack
<1> HIDE DEF l
<1>7. CASE Ordered(v) /\ Local(e, "lock_back", "return", v)
  <2>1. Needs(v, "return", v)
    BY <1>1, <1>2, <1>3, <1>7 DEF Needs, Kept
  <2>2. Settles(e, v)
    BY DEF Settles
  <2> QED BY <1>4, <1>7, <2>1, <2>2, DriveStep
<1>8. CASE Local(e, "lock_back", "back", l)
  <2>1. Needs(v, "back", l)
    BY <1>1, <1>3, <1>4, <1>5, <1>8 DEF Needs, Kept, OnlyIfComplete
  <2>2. Settles(e, l)
    BY <1>5 DEF Settles
  <2> QED BY <1>4, <1>8, <2>1, <2>2, DriveStep
<1> QED BY <1>6, <1>7, <1>8

(* The claim of a call that succeeded replaces the worker's own. *)
LEMMA ClaimEdit ==
    ASSUME NEW v \in Live, NEW k \in Claim
    PROVE  LET l == [v EXCEPT !.claim = k]
           IN  /\ l \in Live /\ l.claim = k /\ l.child = v.child /\ l.converged = v.converged
               /\ l.intent = v.intent /\ l.todo = v.todo /\ l.authorityMu = v.authorityMu
  BY DEF Live

(* After CommitReturnHandoff the worker holds the parent's new claim, or fails. *)
LEMMA BackedStep ==
    ASSUME RuntimeInv, NEW e \in Executors, Backed(e)
    PROVE  RuntimeInv' /\ IntentKept
<1> DEFINE v == live[e]
           k == ret[e].claim
           u == [v EXCEPT !.authorityMu = FALSE]
           f == Failing(u)
           p == [u EXCEPT !.claim = k]
<1>1. v \in Live /\ OnlyIfComplete(v) /\ k \in Claim
  BY MoverKnows
<1>2. Returned(e) /\ pc[e] = "backed"
  BY DEF Backed, Local
<1>3. ret[e].ok => k.run = v.claim.run
  BY <1>2, MoverKnows DEF AnswerOK, RunOf
<1>4. \/ Local(e, "backed", "reconcile", f)
      \/ ret[e].ok /\ Local(e, "backed", "resume", p)
  BY DEF Backed
<1>5. /\ Moves("backed", "reconcile") /\ Moves("backed", "resume")
      /\ "reconcile" \notin WithChild /\ "resume" \notin WithChild
  BY DEF Moves, Workers, CallPcs, WithChild
<1>6. /\ u \in Live /\ u.claim = v.claim /\ u.converged = v.converged /\ u.intent = v.intent
      /\ u.todo = v.todo /\ u.authorityMu = FALSE
  BY <1>1, OwnerTypes, LockEdits
<1> HIDE DEF v, k, u
<1>7. /\ p \in Live /\ p.claim = k /\ p.converged = v.converged
      /\ p.intent = v.intent /\ p.todo = v.todo /\ p.authorityMu = FALSE
  BY <1>1, <1>6, ClaimEdit
<1>8. f \in Live /\ Same(u, f)
  BY <1>6, PlainEdits
<1> HIDE DEF p, f
<1>9. CASE Local(e, "backed", "reconcile", f)
  <2>1. Needs(v, "reconcile", f)
    BY <1>1, <1>5, <1>6, <1>8 DEF Needs, Same, Kept, OnlyIfComplete
  <2>2. Settles(e, f)
    BY <1>6, <1>8 DEF Settles, Same, v
  <2> QED BY <1>2, <1>5, <1>9, <2>1, <2>2, DriveStep DEF v
<1>10. CASE ret[e].ok /\ Local(e, "backed", "resume", p)
  <2>1. Needs(v, "resume", p)
    BY <1>1, <1>3, <1>5, <1>7, <1>10 DEF Needs, Kept, OnlyIfComplete
  <2>2. Settles(e, p)
    BY <1>7 DEF Settles, v
  <2> QED BY <1>2, <1>5, <1>10, <2>1, <2>2, DriveStep DEF v
<1> QED BY <1>4, <1>9, <1>10

(* After the return that precedes a terminal, the terminals are tried with whatever claim there
   is. *)
LEMMA ReturnedTerminalStep ==
    ASSUME RuntimeInv, NEW e \in Executors, ReturnedTerminal(e)
    PROVE  RuntimeInv' /\ IntentKept
<1> DEFINE v == live[e]
           k == ret[e].claim
           p == [v EXCEPT !.claim = k]
           n == [v EXCEPT !.want = "none"]
<1>1. v \in Live /\ k \in Claim
  BY MoverKnows
<1>2. Returned(e) /\ pc[e] = "returned"
  BY DEF ReturnedTerminal, Local
<1>3. /\ ret[e].ok => k.run = v.claim.run
      /\ Ordered(v)
  BY <1>2, MoverKnows, WorkerKnows DEF AnswerOK, RunOf, Workers
<1>4. \/ ret[e].ok /\ Local(e, "returned", "persist", Intending(p, v.intent))
      \/ Local(e, "returned", "reconcile", n)
  BY DEF ReturnedTerminal
<1>5. "returned" \in Workers \ Locked /\ "reconcile" \in Plainly
  BY DEF Workers, Locked, CallPcs, Plainly, WithChild
<1>6. /\ p \in Live /\ p.claim = k /\ p.converged = v.converged
      /\ p.intent = v.intent /\ p.authorityMu = v.authorityMu
  BY <1>1, ClaimEdit
<1>7. n \in Live /\ Same(v, n)
  BY <1>1, PlainEdits DEF Intents
<1> HIDE DEF p, n, k
<1>8. CASE ret[e].ok /\ Local(e, "returned", "persist", Intending(p, v.intent))
  <2>1. Alike(v, p)
    BY <1>3, <1>6, <1>8 DEF Alike
  <2>2. v.intent \in Intents \ {"none"} /\ MaySelect(p, v.intent)
    BY <1>1, <1>3, <1>6, OrderedFacts
  <2> QED BY <1>2, <1>5, <1>8, <2>1, <2>2, IntendsStep
<1>9. CASE Local(e, "returned", "reconcile", n)
  BY <1>2, <1>5, <1>7, <1>9, GoesAlong
<1> QED BY <1>4, <1>8, <1>9

(* The parent's resource turn after a delegation, and the model turn it is for. *)
LEMMA ResumeStep ==
    ASSUME RuntimeInv, NEW e \in Executors, Resume(e) \/ Continue(e)
    PROVE  RuntimeInv' /\ IntentKept
<1> DEFINE v == live[e]
           i == IF closed THEN "shutdown" ELSE "cancel"
           n == [v EXCEPT !.want = i]
           w == [v EXCEPT !.turns = @ \cup {"primary"}]
           f == Failing(v)
<1>1. v \in Live
  BY MoverKnows
<1>2. /\ "resume" \in Workers \ Locked /\ "resume" \notin CallPcs
      /\ "continue" \in Workers \ Locked /\ "continue" \notin CallPcs
      /\ "continue" \in Plainly /\ "finish" \in Plainly
  BY DEF Workers, Locked, CallPcs, Plainly, WithChild
<1>3. i \in Intents /\ i # "none"
  BY DEF Intents
<1>4. /\ f \in Live /\ Same(v, f) /\ f.want = "fail" /\ w \in Live /\ Same(v, w)
      /\ n \in Live /\ Same(v, n) /\ n.want = i
  BY <1>1, <1>3, PlainEdits
<1>5. \/ Local(e, "resume", "select", n) \/ Local(e, "resume", "continue", w)
      \/ Local(e, "resume", "select", f)
      \/ \E o \in TurnOutcomes(v) :
            Local(e, "continue", "finish", [v EXCEPT !.outcome = o])
  BY DEF Resume, Continue
<1> HIDE DEF i, n, w, f
<1>6. CASE Local(e, "resume", "select", n)
  BY <1>2, <1>3, <1>4, <1>6, GoesAlong
<1>7. CASE Local(e, "resume", "continue", w)
  BY <1>2, <1>4, <1>7, GoesAlong
<1>8. CASE Local(e, "resume", "select", f)
  BY <1>2, <1>4, <1>8, GoesAlong
<1>9. ASSUME NEW o \in TurnOutcomes(v),
             Local(e, "continue", "finish", [v EXCEPT !.outcome = o])
      PROVE  RuntimeInv' /\ IntentKept
  <2> DEFINE l == [v EXCEPT !.outcome = o]
  <2>1. l \in Live /\ Same(v, l) /\ Local(e, "continue", "finish", l)
    BY <1>1, <1>9, TurnEdits
  <2> HIDE DEF l
  <2> QED BY <1>2, <2>1, GoesAlong
<1> QED BY <1>5, <1>6, <1>7, <1>8, <1>9

(* The run has its terminal in the log, and the worker notes that. *)
LEMMA ConvergedStep ==
    ASSUME RuntimeInv, NEW e \in Executors, NEW from \in {"persisted", "reconciled"},
           Returned(e), ret[e].ok,
           Local(e, from, "cleanup", [live[e] EXCEPT !.converged = TRUE])
    PROVE  RuntimeInv' /\ IntentKept
<1> DEFINE v == live[e]
           l == [v EXCEPT !.converged = TRUE]
<1>1. v \in Live /\ OnlyIfComplete(v) /\ pc[e] = from
  BY MoverKnows DEF Local
<1>2. log.run.id # RunOf(e)
  BY <1>1, MoverKnows DEF AnswerOK
<1>3. ~v.authorityMu
  BY <1>1, MoverKnows, WorkerKnows DEF Workers, Locked
<1>4. /\ l \in Live /\ l.claim = v.claim /\ l.intent = v.intent /\ l.todo = v.todo
      /\ l.authorityMu = v.authorityMu /\ l.converged = TRUE
  BY <1>1 DEF Live
<1>5. Moves(from, "cleanup")
  BY DEF Moves, Workers, CallPcs
<1>6. Local(e, from, "cleanup", l)
  OBVIOUS
<1> HIDE DEF l
<1>7. Needs(v, "cleanup", l)
  BY <1>1, <1>3, <1>4 DEF Needs, Kept, OnlyIfComplete, WithChild
<1>8. Settles(e, l)
  BY <1>2, <1>4 DEF Settles
<1> QED BY <1>5, <1>6, <1>7, <1>8, DriveStep

(* After the reconciliation the run counts as converged only if the storage said so. *)
LEMMA ReconciledStep ==
    ASSUME RuntimeInv, NEW e \in Executors, Reconciled(e)
    PROVE  RuntimeInv' /\ IntentKept
<1> DEFINE v == live[e]
           l == [v EXCEPT !.converged = TRUE]
<1>1. v \in Live /\ Same(v, v)
  BY MoverKnows DEF Same
<1>2. "reconciled" \in Workers \ Locked /\ "cleanup" \in Plainly
  BY DEF Workers, Locked, CallPcs, Plainly, WithChild
<1>3. /\ Returned(e)
      /\ \/ ret[e].ok /\ Local(e, "reconciled", "cleanup", l)
         \/ v.want = "fail" /\ Local(e, "reconciled", "select", v)
         \/ Local(e, "reconciled", "cleanup", v)
  BY DEF Reconciled
<1>4. CASE ret[e].ok /\ Local(e, "reconciled", "cleanup", l)
  BY <1>3, <1>4, ConvergedStep
<1> HIDE DEF l
<1>5. CASE v.want = "fail" /\ Local(e, "reconciled", "select", v)
  BY <1>1, <1>2, <1>3, <1>5, GoesAlong
<1>6. CASE Local(e, "reconciled", "cleanup", v)
  BY <1>1, <1>2, <1>3, <1>6, GoesAlong
<1> QED BY <1>3, <1>4, <1>5, <1>6

(* finishPrimaryDrive, and selectTerminal behind it. *)
LEMMA FinishSteps ==
    ASSUME RuntimeInv, NEW e \in Executors,
           \/ Finish(e) \/ FinishCheck(e) \/ FinishClosing(e) \/ FinishSelect(e)
           \/ FinishLast(e) \/ Select(e)
    PROVE  RuntimeInv' /\ IntentKept
<1> DEFINE v == live[e]
           Finishing == {"finish", "finish_check", "finish_closing", "finish_select",
                         "finish_last", "select"}
<1>1. v \in Live /\ Same(v, v) /\ Alike(v, v)
  BY MoverKnows DEF Same, Alike
<1>2. /\ \A from \in Finishing : from \in Workers \ Locked /\ from \notin CallPcs
      /\ Finishing \subseteq Plainly \cup {"select"} /\ "cleanup" \in Plainly
  BY DEF Workers, Locked, CallPcs, Plainly, WithChild
<1>3. /\ {"complete", "shutdown"} \subseteq Intents \ {"none"}
      /\ Ordered(v) => v.intent \in Intents \ {"none"} /\ MaySelect(v, v.intent)
      /\ pc[e] = "select" => v.want \in Intents \ {"none"}
  <2>1. pc[e] = "select" => v.want # "none"
    BY MoverKnows, WorkerKnows DEF Workers
  <2>2. v.want \in Intents
    BY <1>1 DEF Live
  <2> QED BY <1>1, <2>1, <2>2, OrderedFacts DEF Intents
<1>4. ASSUME NEW from \in Finishing, NEW to \in Finishing \cup {"cleanup"}, to # "select",
             Local(e, from, to, v)
      PROVE  RuntimeInv' /\ IntentKept
  BY <1>1, <1>2, <1>4, GoesAlong
<1>5. ASSUME NEW from \in Finishing, NEW i \in Intents \ {"none"}, MaySelect(v, i),
             Local(e, from, "persist", Intending(v, i))
      PROVE  RuntimeInv' /\ IntentKept
  BY <1>1, <1>2, <1>5, IntendsStep
<1>6. ASSUME NEW i \in {"cancel", "fail"},
             Local(e, "finish_last", "select", [v EXCEPT !.want = i])
      PROVE  RuntimeInv' /\ IntentKept
  <2> DEFINE l == [v EXCEPT !.want = i]
  <2>0. i \in Intents
    BY DEF Intents
  <2>1. l \in Live /\ Same(v, l) /\ l.want = i /\ Local(e, "finish_last", "select", l)
    BY <1>1, <1>6, <2>0, PlainEdits
  <2> HIDE DEF l
  <2> QED BY <1>2, <2>1, GoesAlong
<1>7. CASE Finish(e)
  BY <1>3, <1>4, <1>5, <1>7 DEF Finish
<1>8. CASE FinishCheck(e)
  BY <1>3, <1>4, <1>5, <1>8 DEF FinishCheck
<1>9. CASE FinishClosing(e)
  <2>1. \/ Local(e, "finish_closing", "finish_select", v)
        \/ Local(e, "finish_closing", "finish_last", v)
    BY <1>9 DEF FinishClosing
  <2> QED BY <1>4, <2>1
<1>10. CASE FinishSelect(e)
  BY <1>3, <1>4, <1>5, <1>10 DEF FinishSelect
<1>11. CASE FinishLast(e)
  <2>1. \/ Ordered(v) /\ Local(e, "finish_last", "persist", Intending(v, v.intent))
        \/ Local(e, "finish_last", "select", [v EXCEPT !.want = "cancel"])
        \/ Local(e, "finish_last", "select", [v EXCEPT !.want = "fail"])
    BY <1>11 DEF FinishLast
  <2> QED BY <1>3, <1>5, <1>6, <2>1
<1>12. CASE Select(e)
  <2>1. \/ MaySelect(v, v.want) /\ Local(e, "select", "persist", Intending(v, v.want))
        \/ Local(e, "select", "cleanup", v)
    BY <1>12 DEF Select
  <2>2. pc[e] = "select"
    BY <1>12 DEF Select, Local
  <2> QED BY <1>3, <1>4, <1>5, <2>1, <2>2
<1> QED BY <1>7, <1>8, <1>9, <1>10, <1>11, <1>12

(* A terminal was refused: the next one of the plan is tried. *)
LEMMA PersistedStep ==
    ASSUME RuntimeInv, NEW e \in Executors, Persisted(e)
    PROVE  RuntimeInv' /\ IntentKept
<1> DEFINE v == live[e]
           c == [v EXCEPT !.converged = TRUE]
           l == [v EXCEPT !.todo = Tail(@)]
<1>1. v \in Live /\ Same(v, v) /\ OnlyIfComplete(v)
  BY MoverKnows DEF Same
<1>2. /\ "persisted" \in Workers \ Locked /\ "cleanup" \in Plainly
      /\ Moves("persisted", "persist") /\ "persist" \notin WithChild
  BY DEF Workers, Locked, CallPcs, Plainly, WithChild, Moves
<1>3. /\ Returned(e)
      /\ \/ ret[e].ok /\ Local(e, "persisted", "cleanup", c)
         \/ Len(v.todo) > 1 /\ Local(e, "persisted", "persist", l)
         \/ Local(e, "persisted", "cleanup", v)
  BY DEF Persisted
<1>4. CASE ret[e].ok /\ Local(e, "persisted", "cleanup", c)
  BY <1>3, <1>4, ConvergedStep
<1> HIDE DEF c
<1>5. CASE Len(v.todo) > 1 /\ Local(e, "persisted", "persist", l)
  <2>1. /\ l \in Live /\ l.claim = v.claim /\ l.authorityMu = v.authorityMu
        /\ l.converged = v.converged /\ l.intent = v.intent
        /\ Len(l.todo) > 0 /\ OnlyIfComplete(l)
    BY <1>1, <1>5, TailFacts
  <2>2. ~v.authorityMu
    BY <1>5, MoverKnows, WorkerKnows DEF Local, Workers, Locked
  <2>3. Local(e, "persisted", "persist", l)
    BY <1>5
  <2> HIDE DEF l
  <2>4. Needs(v, "persist", l)
    BY <1>2, <2>1, <2>2 DEF Needs, Kept
  <2>5. Settles(e, l)
    BY <2>1 DEF Settles
  <2> QED BY <1>2, <1>3, <2>3, <2>4, <2>5, DriveStep
<1> HIDE DEF l
<1>6. CASE Local(e, "persisted", "cleanup", v)
  BY <1>1, <1>2, <1>3, <1>6, GoesAlong
<1> QED BY <1>3, <1>4, <1>5, <1>6

-----------------------------------------------------------------------------
(***************************************************************************)
(* The calls of an executor that has its run.                              *)
(***************************************************************************)
Calling(from, to) ==
    \/ from = "abort" /\ to = "aborted"
    \/ from = "routing" /\ to = "turn"
    \/ from = "child_routing" /\ to = "child_turn"
    \/ from = "out" /\ to = "handed"
    \/ from = "back" /\ to = "backed"
    \/ from = "return" /\ to = "returned"
    \/ from = "reconcile" /\ to = "reconciled"
    \/ from = "persist" /\ to = "persisted"

Calls(e, from, to) ==
    /\ pc[e] = from /\ To(e, to)
    /\ UNCHANGED <<active, inflight, closed, rtmu, live, req, stop>>

(* What the executor knows where it calls, it knows where it waits. *)
LEMMA CallShape ==
    ASSUME NEW v, NEW from, NEW to, Calling(from, to), Shape(from, v)
    PROVE  /\ Shape(to, v)
           /\ (from \in Workers /\ to \in Workers) \/ (from = "abort" /\ to = "aborted")
           /\ to \notin CallPcs => to \in {"turn", "child_turn"}
           /\ v.claim.run # 0
<1>1. HeldOK(to, v)
  BY DEF Calling, Shape, HeldOK, Unturned, Off, Locked
<1>2. RunOK(to, v) /\ v.claim.run # 0
  BY DEF Calling, Shape, RunOK, Starting, Started, Workers, WithChild
<1>3. TermOK(to, v)
  BY DEF Calling, Shape, TermOK
<1>4. /\ (from \in Workers /\ to \in Workers) \/ (from = "abort" /\ to = "aborted")
      /\ to \notin CallPcs => to \in {"turn", "child_turn"}
  BY DEF Calling, Workers, CallPcs
<1> QED BY <1>1, <1>2, <1>3, <1>4 DEF Shape

(* A worker that asks the kernel waits for the program it started, or was turned down at once. *)
LEMMA AskedStep ==
    ASSUME RuntimeInv, NEW e \in Executors, NEW from, NEW to, Calling(from, to),
           Calls(e, from, to), op = Idle, KernelOK', OpRun', runs' = runs, log' = log,
           \/ TurnedDown(e)
           \/ op'.caller = e /\ ret' = [ret EXCEPT ![e] = NoResult] /\ Drives(e)'
    PROVE  RuntimeInv' /\ IntentKept
<1>1. pc[e] = from /\ Shape(from, live[e])
  BY MoverKnows DEF Calls
<1>2. /\ Shape(to, live[e])
      /\ (from \in Workers /\ to \in Workers) \/ (from = "abort" /\ to = "aborted")
  BY <1>1, CallShape
<1>3. \/ op' = Idle /\ \E r \in Result : /\ ret' = [ret EXCEPT ![e] = r]
                                         /\ r.ok => to \notin CallPcs
      \/ op'.caller = e /\ ret' = [ret EXCEPT ![e] = NoResult] /\ Drives(e)'
  <2>1. Failed \in Result /\ Failed.ok = FALSE
    BY ResultTypes DEF Failed
  <2> QED BY <2>1 DEF TurnedDown
<1>4. To(e, to) /\ UNCHANGED <<active, inflight, closed, rtmu, live, req, stop>>
  BY DEF Calls
<1>5. log'.run = log.run
  OBVIOUS
<1> QED BY <1>1, <1>2, <1>3, <1>4, <1>5, CallStep

(* RecordProgress writes its event and is back. *)
LEMMA ProgressStep ==
    ASSUME RuntimeInv, NEW e \in Executors, Routing(e) \/ ChildRouting(e)
    PROVE  RuntimeInv' /\ IntentKept
<1> DEFINE k == live[e].claim
<1>1. PICK from \in {"routing", "child_routing"}, to \in {"turn", "child_turn"} :
         Calling(from, to) /\ Calls(e, from, to) /\ RecordProgress(e, k)
  BY DEF Routing, ChildRouting, Call, Calls, Calling
<1>2. pc[e] = from /\ Shape(from, live[e]) /\ k \in Claim /\ KernelOK
  BY <1>1, MoverKnows DEF Calls, Live, RuntimeInv, RuntimeTypes
<1>3. Shape(to, live[e]) /\ from \in Workers /\ to \in Workers /\ to \notin CallPcs
  BY <1>1, <1>2, CallShape DEF CallPcs
<1>4. KernelOK'
  BY <1>1, <1>2, MarkTypes
<1>5. /\ op = Idle /\ op' = Idle /\ OpRun' /\ runs' = runs /\ log'.run = log.run
      /\ \E r \in Result : ret' = [ret EXCEPT ![e] = r]
  BY <1>1, OneEventFacts
<1>6. To(e, to) /\ UNCHANGED <<active, inflight, closed, rtmu, live, req, stop>>
  BY <1>1 DEF Calls
<1>7. \/ op' = Idle /\ \E r \in Result : /\ ret' = [ret EXCEPT ![e] = r]
                                         /\ r.ok => to \notin CallPcs
      \/ op'.caller = e /\ ret' = [ret EXCEPT ![e] = NoResult] /\ Drives(e)'
  BY <1>3, <1>5
<1> HIDE DEF k
<1> QED BY <1>2, <1>3, <1>4, <1>5, <1>6, <1>7, CallStep

(* A program an executor launches drives the run of that executor. *)
LEMMA LaunchedDrives ==
    ASSUME RuntimeInv, NEW e \in Executors, NEW from, NEW to, Calls(e, from, to),
           NEW kind, NEW k, NEW type, Launched(e, kind, k, type), k.run = RunOf(e),
           \/ kind = "to_child" /\ to = "handed"
           \/ kind = "to_parent" /\ to \in {"backed", "returned"}
           \/ kind = "end" /\ to \in {"persisted", "aborted"}
              /\ (type = "RunCompleted" => live[e].intent = "complete")
           \/ kind = "reconcile" /\ to = "reconciled"
    PROVE  op'.caller = e /\ ret' = [ret EXCEPT ![e] = NoResult] /\ Drives(e)' /\ log' = log
<1>1. /\ op'.kind = kind /\ op'.caller = e /\ op'.claim = k /\ op'.type = type
      /\ ret' = [ret EXCEPT ![e] = NoResult] /\ log' = log
  BY DEF Launched
<1>2. pc'[e] = to /\ live' = live
  BY DEF Calls, To, RuntimeInv, RuntimeTypes
<1> QED BY <1>1, <1>2 DEF Drives, RunOf

(* The return goes to the owner of the primary run, as runSingleChildHandoff kept it. *)
LEMMA ReturnOwner == \A o \in Owner : Primary(o[1]) \in Owner
  BY DEF Owner, Primary, NoOwner, ChildOwner

(***************************************************************************)
(* The calls that launch a program: terminalExecute, the two handoffs and  *)
(* the reconciliation.                                                     *)
(***************************************************************************)
LEMMA EndCalls ==
    ASSUME RuntimeInv, NEW e \in Executors, Abort(e) \/ Persist(e)
    PROVE  RuntimeInv' /\ IntentKept
<1> DEFINE v == live[e]
           type == v.todo[1]
<1>1. PICK from \in {"abort", "persist"}, to \in {"aborted", "persisted"} :
         /\ Calling(from, to) /\ Calls(e, from, to)
         /\ TerminalExecute(e, v.claim, type)
  BY DEF Abort, Persist, Call, Calls, Calling
<1>2. /\ v \in Live /\ Shape(from, v) /\ pc[e] = from /\ OnlyIfComplete(v) /\ KernelOK
      /\ v.claim \in Claim
  BY <1>1, MoverKnows DEF Calls, RuntimeInv, RuntimeTypes, Live
<1>3. Len(v.todo) > 0
  BY <1>2 DEF Shape, TermOK
<1>4. type \in RunTerminals /\ (type = "RunCompleted" => v.intent = "complete")
  BY <1>2, <1>3 DEF Live, OnlyIfComplete
<1>5. KernelOK'
  BY <1>1, <1>2, <1>4, ActorFacts, ProgramTypes
<1>6. /\ op = Idle /\ OpRun' /\ runs' = runs
      /\ TurnedDown(e) \/ Launched(e, "end", v.claim, type)
  BY <1>1, TerminalFacts
<1>7. CASE TurnedDown(e)
  <2>1. log' = log
    BY <1>7 DEF TurnedDown
  <2> QED BY <1>1, <1>5, <1>6, <1>7, <2>1, AskedStep
<1>8. CASE Launched(e, "end", v.claim, type)
  <2>1. op'.caller = e /\ ret' = [ret EXCEPT ![e] = NoResult] /\ Drives(e)' /\ log' = log
    BY <1>1, <1>4, <1>8, LaunchedDrives DEF RunOf
  <2> QED BY <1>1, <1>5, <1>6, <2>1, AskedStep
<1> QED BY <1>6, <1>7, <1>8

(* The worker calls CommitHandoff with its own claim. *)
LEMMA HandOutCall ==
    ASSUME RuntimeInv, NEW e \in Executors, HandOut(e)
    PROVE  RuntimeInv' /\ IntentKept
<1> DEFINE k == live[e].claim
<1>1. /\ Calling("out", "handed") /\ Calls(e, "out", "handed") /\ BeginChildHandoff(e, k)
  BY DEF HandOut, Call, Calls, Calling
<1>2. k \in Claim /\ KernelOK
  BY MoverKnows DEF RuntimeInv, RuntimeTypes, Live
<1>3. KernelOK'
  BY <1>1, <1>2, ActorFacts, ProgramTypes
<1>4. /\ op = Idle /\ OpRun' /\ runs' = runs
      /\ TurnedDown(e) \/ Launched(e, "to_child", k, "none")
  BY <1>1, HandoffFacts
<1>5. CASE TurnedDown(e)
  <2>1. log' = log
    BY <1>5 DEF TurnedDown
  <2> QED BY <1>1, <1>3, <1>4, <1>5, <2>1, AskedStep
<1>6. CASE Launched(e, "to_child", k, "none")
  <2>1. op'.caller = e /\ ret' = [ret EXCEPT ![e] = NoResult] /\ Drives(e)' /\ log' = log
    BY <1>1, <1>6, LaunchedDrives DEF RunOf
  <2> QED BY <1>1, <1>3, <1>4, <2>1, AskedStep
<1> QED BY <1>4, <1>5, <1>6

(* The worker calls the return handoff, to resume the parent or to end the run. *)
LEMMA ReturnCalls ==
    ASSUME RuntimeInv, NEW e \in Executors, HandBack(e) \/ ReturnTerminal(e)
    PROVE  RuntimeInv' /\ IntentKept
<1> DEFINE v == live[e]
           k == v.child
<1>1. PICK from \in {"back", "return"}, to \in {"backed", "returned"},
           type \in {"ChildRunCompleted", "ChildRunFailed", "ChildRunCancelled",
                     "ChildRunInterrupted"} :
         /\ Calling(from, to) /\ Calls(e, from, to)
         /\ TerminalChildHandoff(e, k, v.owner[1], type)
  BY DEF HandBack, ReturnTerminal, ReturnTo, Call, Calls, Calling
<1>2. /\ v \in Live /\ Shape(from, v) /\ KernelOK /\ k \in Claim
  BY <1>1, MoverKnows DEF Calls, RuntimeInv, RuntimeTypes, Live
<1>3. k.run = RunOf(e)
  BY <1>2 DEF Shape, RunOK, WithChild, RunOf
<1>4. Primary(v.owner[1]) \in Owner /\ type \in ChildTerminals
  BY <1>2, ReturnOwner DEF Live, ChildTerminals
<1>5. KernelOK'
  BY <1>1, <1>2, <1>4, ActorFacts, ProgramTypes
<1>6. /\ op = Idle /\ OpRun' /\ runs' = runs
      /\ TurnedDown(e) \/ Launched(e, "to_parent", k, type)
  BY <1>1, HandoffFacts
<1>7. CASE TurnedDown(e)
  <2>1. log' = log
    BY <1>7 DEF TurnedDown
  <2> QED BY <1>1, <1>5, <1>6, <1>7, <2>1, AskedStep
<1>8. CASE Launched(e, "to_parent", k, type)
  <2>1. op'.caller = e /\ ret' = [ret EXCEPT ![e] = NoResult] /\ Drives(e)' /\ log' = log
    BY <1>1, <1>3, <1>8, LaunchedDrives
  <2> QED BY <1>1, <1>5, <1>6, <2>1, AskedStep
<1> QED BY <1>6, <1>7, <1>8

(* The worker asks for the reconciliation of its own run. *)
LEMMA ReconcileCall ==
    ASSUME RuntimeInv, NEW e \in Executors, ReconcileHandoff(e)
    PROVE  RuntimeInv' /\ IntentKept
<1>1. /\ Calling("reconcile", "reconciled") /\ Calls(e, "reconcile", "reconciled")
      /\ Reconcile(e, RunOf(e))
  BY DEF ReconcileHandoff, Call, Calls, Calling, RunOf
<1>2. RunOf(e) # 0 /\ KernelOK
  BY <1>1, MoverKnows, WorkerKnows DEF Calls, RunOf, Workers, RuntimeInv, RuntimeTypes
<1>3. KernelOK'
  BY <1>1, <1>2, ActorFacts, ProgramTypes
<1>4. /\ op = Idle /\ OpRun' /\ runs' = runs
      /\ \/ TurnedDown(e)
         \/ \E k : (RunOf(e) # 0 => k.run = RunOf(e))
                   /\ Launched(e, "reconcile", k, "RunInterrupted")
  BY <1>1, ReconcileFacts
<1>5. CASE TurnedDown(e)
  <2>1. log' = log
    BY <1>5 DEF TurnedDown
  <2> QED BY <1>1, <1>3, <1>4, <1>5, <2>1, AskedStep
<1>6. ASSUME NEW k, k.run = RunOf(e), Launched(e, "reconcile", k, "RunInterrupted")
      PROVE  RuntimeInv' /\ IntentKept
  <2>1. op'.caller = e /\ ret' = [ret EXCEPT ![e] = NoResult] /\ Drives(e)' /\ log' = log
    BY <1>1, <1>6, LaunchedDrives
  <2> QED BY <1>1, <1>3, <1>4, <2>1, AskedStep
<1> QED BY <1>2, <1>4, <1>5, <1>6

(***************************************************************************)
(* A request before it has a worker: the turn is acquired, or it gives up. *)
(***************************************************************************)
LEMMA SetupMove ==
    ASSUME RuntimeInv, NEW e \in Executors, NEW from \in {"admitted", "begun", "aborted"},
           NEW to \in {"begin", "release_slot"}, NEW l \in Live, Local(e, from, to, l),
           Same(live[e], l), from = "begun" => Returned(e), from = "aborted" => Returned(e),
           to = "begin" => from = "admitted", to = "release_slot" => l.turns = {}
    PROVE  RuntimeInv' /\ IntentKept
<1> DEFINE v == live[e]
<1>1. Shape(from, v)
  BY MoverKnows DEF Local
<1>2. Same(v, l)
  OBVIOUS
<1> HIDE DEF v
<1>3. HeldOK(to, l)
  BY <1>1, <1>2 DEF Shape, HeldOK, Same, Unturned, Off, Locked
<1>4. RunOK(to, l)
  BY <1>1, <1>2 DEF Shape, RunOK, Same, Starting, Started, Workers, WithChild
<1>5. TermOK(to, l)
  BY <1>1, <1>2 DEF Shape, TermOK, Same, OnlyIfComplete
<1>6. Fit(v, to, l)
  BY <1>2, <1>3, <1>4, <1>5 DEF Fit, Shape, Same, Kept
<1>7. Staying(from, to) /\ (from \in CallPcs => Returned(e))
  BY DEF Staying, Setup, CallPcs
<1>8. Settles(e, l)
  BY <1>2 DEF Settles, Same, v
<1> QED BY <1>6, <1>7, <1>8, LocalStep DEF v

(* The handler's steps before and beside the worker: the resource turn and the ways out. *)
LEMMA SetupSteps ==
    ASSUME RuntimeInv, NEW e \in Executors, AcquireTurn(e) \/ BeginFailed(e) \/ Aborted(e)
    PROVE  RuntimeInv' /\ IntentKept
<1> DEFINE v == live[e]
           w == [v EXCEPT !.turns = @ \cup {"primary"}]
           u == WithoutTurns(v)
<1>1. v \in Live /\ Shape(pc[e], v)
  BY MoverKnows
<1>2. /\ w \in Live /\ Same(v, w) /\ u \in Live /\ Same(v, u) /\ Same(v, v)
  BY <1>1, PlainEdits
<1>3. u.turns = {}
  BY <1>1 DEF WithoutTurns, Live
<1>4. \/ Local(e, "admitted", "begin", w)
      \/ Local(e, "admitted", "release_slot", v)
      \/ Returned(e) /\ Local(e, "begun", "release_slot", u)
      \/ Returned(e) /\ Local(e, "aborted", "release_slot", v)
  BY DEF AcquireTurn, BeginFailed, Begun, Aborted
<1> HIDE DEF w, u
<1>5. pc[e] \in {"admitted", "aborted"} => v.turns = {}
  BY <1>1 DEF Shape, HeldOK, Unturned
<1>6. CASE Local(e, "admitted", "begin", w)
  BY <1>2, <1>6, SetupMove
<1>7. CASE Local(e, "admitted", "release_slot", v)
  <2>1. v.turns = {}
    BY <1>5, <1>7 DEF Local
  <2> QED BY <1>1, <1>2, <1>7, <2>1, SetupMove
<1>8. CASE Returned(e) /\ Local(e, "begun", "release_slot", u)
  BY <1>2, <1>3, <1>8, SetupMove
<1>9. CASE Returned(e) /\ Local(e, "aborted", "release_slot", v)
  <2>1. v.turns = {}
    BY <1>5, <1>9 DEF Local
  <2> QED BY <1>1, <1>2, <1>9, <2>1, SetupMove
<1> QED BY <1>4, <1>6, <1>7, <1>8, <1>9

(* Nothing moves. *)
LEMMA StillStep ==
    ASSUME RuntimeInv, UNCHANGED vars
    PROVE  RuntimeInv' /\ IntentKept
<1>1. /\ UNCHANGED kernelVars /\ pc' = pc /\ active' = active /\ inflight' = inflight
      /\ closed' = closed /\ rtmu' = rtmu /\ live' = live /\ req' = req /\ stop' = stop
  BY DEF vars, runtimeVars
<1>2. /\ RuntimeTypes /\ TargetInv
  BY DEF RuntimeInv
<1>3. /\ closed \in BOOLEAN /\ rtmu \in Cancellers \cup {"none"}
      /\ live \in [Executors -> Live] /\ req \in [Cancellers -> Request] /\ stop \in Stopping
  BY <1>2 DEF RuntimeTypes
<1>4. \A e \in Executors : Signalled(live[e], live'[e])
  BY <1>1 DEF Signalled, Kept
<1>5. \A c \in Cancellers : Aims(c)'
  BY <1>1, <1>2 DEF TargetInv, Aims, Agrees, Expected, RunOf
<1>6. StopOK(stop')
  BY <1>1, <1>2 DEF TargetInv
<1>7. /\ closed' \in BOOLEAN /\ rtmu' \in Cancellers \cup {"none"}
      /\ live' \in [Executors -> Live] /\ req' \in [Cancellers -> Request] /\ stop' \in Stopping
      /\ \A c \in Cancellers : op.caller = c => req'[c] = req[c]
  BY <1>1, <1>3
<1> QED BY <1>1, <1>4, <1>5, <1>6, <1>7, StirStep

-----------------------------------------------------------------------------
(***************************************************************************)
(* The invariant holds throughout, and no step changes a chosen intent.    *)
(***************************************************************************)
LEMMA ExecuteSteps ==
    ASSUME RuntimeInv, NEW e \in Executors, Execute(e)
    PROVE  RuntimeInv' /\ IntentKept
<1>1. CASE Admit(e) \/ ReleaseSlot(e)
  BY <1>1, AdmitStep
<1>2. CASE AcquireTurn(e) \/ BeginFailed(e) \/ Aborted(e)
  BY <1>2, SetupSteps
<1>3. CASE BeginRun(e)
  BY <1>3, BeginStep
<1>4. CASE Register(e)
  BY <1>4, RegisterStep
<1>5. CASE Abort(e)
  BY <1>5, EndCalls
<1> QED BY <1>1, <1>2, <1>3, <1>4, <1>5 DEF Execute

(* Every step of a worker, action by action. *)
LEMMA DriveSteps ==
    ASSUME RuntimeInv, NEW e \in Executors, Drive(e)
    PROVE  RuntimeInv' /\ IntentKept
<1>1. CASE Routing(e) \/ ChildRouting(e)
  BY <1>1, ProgressStep
<1>2. CASE PrimaryTurn(e)
  BY <1>2, PrimaryTurnStep
<1>3. CASE PlanChild(e)
  BY <1>3, PlanChildStep
<1>4. CASE AcquireChild(e)
  BY <1>4, AcquireChildStep
<1>5. CASE LockOut(e)
  BY <1>5, LockOutStep
<1>6. CASE HandOut(e)
  BY <1>6, HandOutCall
<1>7. CASE Handed(e)
  BY <1>7, HandedStep
<1>8. CASE ChildTurn(e)
  BY <1>8, ChildTurnStep
<1>9. CASE LockBack(e)
  BY <1>9, LockBackStep
<1>10. CASE HandBack(e) \/ ReturnTerminal(e)
  BY <1>10, ReturnCalls
<1>11. CASE Backed(e)
  BY <1>11, BackedStep
<1>12. CASE Resume(e) \/ Continue(e)
  BY <1>12, ResumeStep
<1>13. CASE ReconcileHandoff(e)
  BY <1>13, ReconcileCall
<1>14. CASE Reconciled(e)
  BY <1>14, ReconciledStep
<1>15. CASE ReturnedTerminal(e)
  BY <1>15, ReturnedTerminalStep
<1>16. CASE \/ Finish(e) \/ FinishCheck(e) \/ FinishClosing(e) \/ FinishSelect(e)
            \/ FinishLast(e) \/ Select(e)
  BY <1>16, FinishSteps
<1>17. CASE Persist(e)
  BY <1>17, EndCalls
<1>18. CASE Persisted(e)
  BY <1>18, PersistedStep
<1>19. CASE Cleanup(e)
  BY <1>19, CleanupStep
<1> QED BY <1>1, <1>2, <1>3, <1>4, <1>5, <1>6, <1>7, <1>8, <1>9, <1>10, <1>11, <1>12,
           <1>13, <1>14, <1>15, <1>16, <1>17, <1>18, <1>19 DEF Drive

(* Every step of the runtime keeps the invariant and the intents already chosen. *)
LEMMA InvStep ==
    ASSUME RuntimeInv, [Next]_vars
    PROVE  RuntimeInv' /\ IntentKept
<1>1. ASSUME NEW e \in Executors, Execute(e) \/ Drive(e)
      PROVE  RuntimeInv' /\ IntentKept
  BY <1>1, ExecuteSteps, DriveSteps
<1>2. ASSUME NEW c \in Cancellers, Cancel(c)
      PROVE  RuntimeInv' /\ IntentKept
  <2>1. CASE CancelLifecycle(c) \/ CancelExecute(c)
    BY <2>1, CancelCalls
  <2>2. CASE \/ CancelCall(c) \/ CancelGet(c) \/ CancelEnter(c) \/ CancelSelect(c)
             \/ CancelSignal(c) \/ CancelAwait(c) \/ CancelFenced(c) \/ CancelTask(c)
             \/ CancelWrote(c)
    BY <2>2, CancelMoves
  <2> QED BY <1>2, <2>1, <2>2 DEF Cancel
<1>3. CASE Shutdown
  BY <1>3, ShutdownMoves
<1>4. CASE Work
  BY <1>4, WorkStep
<1>5. CASE Rest \/ UNCHANGED vars
  BY <1>5, StillStep DEF Rest
<1> QED BY <1>1, <1>2, <1>3, <1>4, <1>5 DEF Next

(* A new task: an empty log, nobody in Repo.mu, nothing answered. *)
LEMMA InitKernel == Init => KernelOK
<1> SUFFICES ASSUME Init PROVE KernelOK
  OBVIOUS
<1>1. EmptyLog \in Log
  BY OwnerTypes, ResultTypes DEF EmptyLog, NoRun, NoChild, NoProp, NoCheck, Log
<1>2. Plain("TaskCreated") \in Event /\ KindOK(Plain("TaskCreated"))
  BY EventTypesOK DEF EventTypes, OrdinaryEvents, ControlEvents
<1>3. log \in Log
  BY <1>1, <1>2, AppendTypes DEF Init
<1>4. op \in Operation /\ op.kind = "none"
  BY IdleType DEF Init
<1>5. OpOK
  BY <1>4 DEF OpOK
<1>6. RetOK /\ BoundsOK /\ lease \in [owner: Owner, fence: Nat]
  BY OwnerTypes, ResultTypes, BoundsAssumption DEF Init, RetOK, BoundsOK
<1> QED BY <1>3, <1>5, <1>6 DEF KernelOK

(* A runtime that has just been made satisfies the invariant. *)
LEMMA InvInit == Init => RuntimeInv
<1> SUFFICES ASSUME Init PROVE RuntimeInv
  OBVIOUS
<1>1. NoLive \in Live /\ NoRequest \in Request
  <2>1. <<>> \in Seq(RunTerminals)
    OBVIOUS
  <2> QED BY <2>1, OwnerTypes, ResultTypes
          DEF NoLive, Live, NoRequest, Request, RequestPcs, Intents, Outcomes
<1>2. /\ \A e \in Executors : pc[e] = "idle" /\ live[e] = NoLive
      /\ \A c \in Cancellers : req[c] = NoRequest
      /\ op = Idle /\ ret = [c \in Callers |-> NoResult]
  BY DEF Init
<1>3. RuntimeTypes
  BY <1>1, InitKernel DEF Init, RuntimeTypes, Stopping, Handlers
<1>4. OpRun
  BY <1>2 DEF Idle, OpRun, OpShape
<1>5. Registered
  BY <1>2, ActorFacts DEF Init, Registered, Workers
<1>6. SlotsInv
  <2>1. Busy = {}
    BY <1>2 DEF Busy, Off
  <2> QED BY <2>1, FS_EmptySet DEF SlotsInv, Init
<1>7. ShapeInv /\ DurableInv
  <2>1. Shape("idle", NoLive) /\ NoLive.converged = FALSE
    BY DEF Shape, HeldOK, RunOK, TermOK, OnlyIfComplete, NoLive, NoClaim, Started, Workers,
       WithChild
  <2> QED BY <1>2, <2>1 DEF ShapeInv, DurableInv
<1>8. OwnedInv
  BY <1>2, ActorFacts DEF OwnedInv, Idle
<1>9. AnswerInv
  BY <1>2, ActorFacts DEF AnswerInv, AnswerOK, NoResult
<1>10. FreshInv
  <2>1. \A e \in Executors : Drawn(e) = 0
    BY <1>2 DEF Drawn, RunOf, NoLive, NoClaim
  <2> QED BY <2>1 DEF FreshInv, Init
<1>11. TargetInv
  BY <1>2 DEF Init, TargetInv, Aims, Aimed, NoRequest, StopOK
<1> QED BY <1>3, <1>4, <1>5, <1>6, <1>7, <1>8, <1>9, <1>10, <1>11 DEF RuntimeInv

(***************************************************************************)
(* What the live side keeps at every step of every interleaving of execute *)
(* requests, workers, cancels, the shutdown and refused writes: the types, *)
(* the one registered worker, the slots, the claims each call is about.    *)
(***************************************************************************)
THEOREM RuntimeInvariant == Spec => []RuntimeInv
<1>1. RuntimeInv /\ [Next]_vars => RuntimeInv'
  BY InvStep
<1> QED BY <1>1, InvInit, PTL DEF Spec

(* Only the program that holds Repo.mu begins or ends the run of the log. *)
LEMMA RunStays ==
    ASSUME [Next]_vars, ~Work
    PROVE  log'.run = log.run
<1>1. ASSUME UNCHANGED kernelVars PROVE log'.run = log.run
  BY <1>1 DEF kernelVars
<1>2. \A e \in Executors : \A from, to, l : Local(e, from, to, l) => log'.run = log.run
  BY <1>1 DEF Local
<1>3. ASSUME NEW c, NEW k, NEW type, TerminalExecute(c, k, type)
      PROVE  log'.run = log.run
  BY <1>3, TerminalFacts DEF TurnedDown, Launched
<1>4. ASSUME NEW c, NEW k, BeginChildHandoff(c, k) PROVE log'.run = log.run
  BY <1>4, HandoffFacts DEF TurnedDown, Launched
<1>5. ASSUME NEW c, NEW k, NEW p, NEW type, TerminalChildHandoff(c, k, p, type)
      PROVE  log'.run = log.run
  BY <1>5, HandoffFacts DEF TurnedDown, Launched
<1>6. ASSUME NEW c, NEW run, Reconcile(c, run) PROVE log'.run = log.run
  BY <1>6, ReconcileFacts DEF TurnedDown, Launched
<1>7. ASSUME NEW c, NEW p, BeginExecute(c, p) PROVE log'.run = log.run
  BY <1>7, BeginRunFacts DEF TurnedDown, Launched
<1>8. ASSUME NEW c, NEW k, RecordProgress(c, k) \/ AppendLifecycle(c, "TaskCancelled", k)
      PROVE  log'.run = log.run
  BY <1>8, OneEventFacts DEF TaskTerminals
<1>9. ASSUME NEW e \in Executors, Execute(e) PROVE log'.run = log.run
  <2>1. CASE AcquireTurn(e) \/ BeginFailed(e) \/ Aborted(e)
    BY <1>2, <2>1 DEF AcquireTurn, BeginFailed, Aborted
  <2>2. CASE Admit(e) \/ ReleaseSlot(e) \/ Register(e)
    BY <1>1, <2>2 DEF Admit, ReleaseSlot, Register
  <2>3. CASE BeginRun(e)
    BY <1>7, <2>3 DEF BeginRun, Call
  <2>4. CASE Abort(e)
    BY <1>3, <2>4 DEF Abort, Call
  <2> QED BY <1>9, <2>1, <2>2, <2>3, <2>4 DEF Execute
<1>10. ASSUME NEW e \in Executors, Drive(e) PROVE log'.run = log.run
  <2>1. CASE Routing(e) \/ ChildRouting(e)
    BY <1>8, <2>1 DEF Routing, ChildRouting, Call
  <2>2. CASE HandOut(e)
    BY <1>4, <2>2 DEF HandOut, Call
  <2>3. CASE HandBack(e) \/ ReturnTerminal(e)
    BY <1>5, <2>3 DEF HandBack, ReturnTerminal, ReturnTo, Call
  <2>4. CASE ReconcileHandoff(e)
    BY <1>6, <2>4 DEF ReconcileHandoff, Call
  <2>5. CASE Persist(e)
    BY <1>3, <2>5 DEF Persist, Call
  <2>6. CASE Cleanup(e)
    BY <1>1, <2>6 DEF Cleanup
  <2>7. CASE \/ PrimaryTurn(e) \/ PlanChild(e) \/ AcquireChild(e) \/ LockOut(e)
             \/ Resume(e) \/ Continue(e) \/ ChildTurn(e) \/ LockBack(e)
    BY <1>2, <2>7 DEF PrimaryTurn, PlanChild, AcquireChild, LockOut, Resume, Continue,
       ChildTurn, LockBack
  <2>8. CASE Handed(e) \/ Backed(e) \/ Reconciled(e) \/ ReturnedTerminal(e) \/ Persisted(e)
    BY <1>2, <2>8 DEF Handed, Backed, Reconciled, ReturnedTerminal, Persisted
  <2>9. CASE \/ Finish(e) \/ FinishCheck(e) \/ FinishClosing(e) \/ FinishSelect(e)
             \/ FinishLast(e) \/ Select(e)
    BY <1>2, <2>9 DEF Finish, FinishCheck, FinishClosing, FinishSelect, FinishLast, Select
  <2> QED BY <1>10, <2>1, <2>2, <2>3, <2>4, <2>5, <2>6, <2>7, <2>8, <2>9 DEF Drive
<1>11. ASSUME NEW c \in Cancellers, Cancel(c) PROVE log'.run = log.run
  <2>1. CASE CancelLifecycle(c)
    BY <1>8, <2>1 DEF CancelLifecycle
  <2>2. CASE CancelExecute(c)
    BY <1>3, <2>2 DEF CancelExecute
  <2>3. CASE \/ CancelCall(c) \/ CancelGet(c) \/ CancelEnter(c) \/ CancelSelect(c)
             \/ CancelSignal(c) \/ CancelAwait(c) \/ CancelFenced(c) \/ CancelTask(c)
             \/ CancelWrote(c)
    BY <1>1, <2>3 DEF CancelCall, CancelGet, CancelEnter, CancelSelect, CancelSignal,
       CancelAwait, CancelFenced, CancelTask, CancelWrote
  <2> QED BY <1>11, <2>1, <2>2, <2>3 DEF Cancel
<1>12. ASSUME Shutdown PROVE log'.run = log.run
  BY <1>1, <1>3, <1>12 DEF Shutdown, ShutdownClose, ShutdownSignal, ShutdownAwait,
     ShutdownInterrupt
<1>13. CASE Rest \/ UNCHANGED vars
  BY <1>1, <1>13 DEF Rest, vars
<1> QED BY <1>9, <1>10, <1>11, <1>12, <1>13 DEF Next

(***************************************************************************)
(* A run the log completes is one whose worker selected complete: the      *)
(* program that does it was called by a worker, for that worker's own run. *)
(***************************************************************************)
LEMMA CompletedByIntent ==
    ASSUME RuntimeInv, [Next]_vars, NEW e \in Executors, log.run.id = RunOf(e), RunOf(e) # 0,
           log'.run.id = 0, log'.state = "completed"
    PROVE  live[e].intent = "complete"
<1>1. Work
  BY RunStays
<1>2. /\ RuntimeTypes /\ OpRun /\ ShapeInv /\ OwnedInv /\ FreshInv /\ KernelOK
  BY DEF RuntimeInv, RuntimeTypes
<1>3. RunChanges /\ log'.run # log.run
  BY <1>1, <1>2, StepRun DEF Work
<1>4. op.kind = "begin" => op.claim.run # 0
  BY <1>2, CallerFacts DEF OwnedInv, Drives, Cancels, Idle
<1>5. op.kind = "end" /\ op.type = "RunCompleted" /\ Names(op.claim)
  BY <1>3, <1>4 DEF RunChanges
<1>6. PICK f \in Executors : op.caller = f
  BY <1>2, <1>5, CallerFacts DEF OwnedInv, Cancels, Idle
<1>7. /\ Drives(f) /\ pc[f] \in {"persisted", "aborted"} /\ op.claim.run = RunOf(f)
      /\ live[f].intent = "complete"
  BY <1>2, <1>5, <1>6 DEF OwnedInv, Drives
<1>8. RunOf(f) # 0
  BY <1>2, <1>7 DEF ShapeInv, Shape, RunOK, Started, Workers, RunOf
<1>9. RunOf(f) = RunOf(e)
  BY <1>5, <1>7, <1>8 DEF Names
<1>10. pc[e] # "begun"
  BY <1>2 DEF ShapeInv, Shape, RunOK, Starting, RunOf
<1>11. Drawn(f) = RunOf(f) /\ Drawn(e) = RunOf(e)
  BY <1>7, <1>10 DEF Drawn
<1>12. e = f
  BY <1>2, <1>9, <1>11 DEF FreshInv
<1> QED BY <1>7, <1>12

-----------------------------------------------------------------------------
(***************************************************************************)
(* fabricLiveRun.durableConverged is never a lie: whatever writes were     *)
(* refused, a worker sets it only once its run has its terminal.           *)
(***************************************************************************)
THEOREM ConvergedRunsEnded == Spec => []ConvergedIsDurable
<1>1. RuntimeInv => ConvergedIsDurable
  BY DEF RuntimeInv, DurableInv, ConvergedIsDurable
<1> QED BY <1>1, RuntimeInvariant, PTL

(***************************************************************************)
(* cancelUnderAuthority answers with success only when the run it aimed at *)
(* is over in the log, for any number of cancels and shutdowns around it.  *)
(***************************************************************************)
THEOREM CancelSuccessHolds == Spec => []CancelSuccessIsDurable
<1>1. RuntimeInv => CancelSuccessIsDurable
  <2> SUFFICES ASSUME RuntimeInv, NEW c \in Cancellers, req[c].pc = "ok"
               PROVE  log.run.id # RunOf(req[c].target)
    BY DEF CancelSuccessIsDurable
  <2>1. Aims(c) /\ DurableInv
    BY DEF RuntimeInv, TargetInv
  <2>2. req[c].target \in Executors /\ live[req[c].target].converged
    BY <2>1 DEF Aims, Aimed
  <2> QED BY <2>1, <2>2 DEF DurableInv
<1> QED BY <1>1, RuntimeInvariant, PTL

(***************************************************************************)
(* rt.inflight counts the requests between admission and exit exactly, and *)
(* every way out of execute and of the worker gives back the turns, the    *)
(* authorityMu and the registration.                                       *)
(***************************************************************************)
THEOREM SlotsStayBalanced == Spec => []SlotsBalanced
<1>1. RuntimeInv => SlotsBalanced
  <2> SUFFICES ASSUME RuntimeInv PROVE SlotsBalanced
    OBVIOUS
  <2>1. SlotsInv /\ ShapeInv /\ Registered
    BY DEF RuntimeInv
  <2>2. Busy = {e \in Executors : pc[e] \notin {"idle", "rejected", "exited"}}
    BY DEF Busy, Off
  <2>3. ASSUME NEW e \in Executors, pc[e] \in {"rejected", "exited"}
        PROVE  live[e].turns = {} /\ ~live[e].authorityMu /\ active # e
    <3>1. pc[e] \in Unturned /\ pc[e] \notin Locked /\ pc[e] \notin Workers
      BY <2>3 DEF Unturned, Off, Locked, Workers
    <3> QED BY <2>1, <3>1 DEF ShapeInv, Shape, HeldOK, Registered
  <2> QED BY <2>1, <2>2, <2>3 DEF SlotsInv, SlotsBalanced
<1> QED BY <1>1, RuntimeInvariant, PTL

(***************************************************************************)
(* Two workers never drive the task at once, and rt.active is the one      *)
(* there is, from its registration to its deferred cleanup: a cancel or a  *)
(* shutdown that looks there finds it.                                     *)
(***************************************************************************)
THEOREM ActiveRunIsFound == Spec => [](DrivenAlone /\ DriverRegistered)
<1>1. RuntimeInv => DrivenAlone /\ DriverRegistered
  BY DEF RuntimeInv, Registered, DrivenAlone, DriverRegistered
<1> QED BY <1>1, RuntimeInvariant, PTL

(***************************************************************************)
(* A cancel with expectedOwner and expectedFencingToken never stops        *)
(* another authority than the one it names, neither through the live run   *)
(* nor through Repo.CancelTask.                                            *)
(***************************************************************************)
THEOREM NamedAuthorityHolds == Spec => []NamedAuthorityRespected
<1>1. RuntimeInv => NamedAuthorityRespected
  <2> SUFFICES ASSUME RuntimeInv, NEW c \in Preconditioned, Expected(c) # NoClaim
               PROVE  StopsOnlyExpected(c)
    BY DEF NamedAuthorityRespected
  <2>1. c \in Cancellers /\ Aims(c) /\ OwnedInv
    BY ActorsAssumption DEF RuntimeInv, TargetInv
  <2>2. req[c].pc \in {"signal", "await", "ok", "persist_failed"} =>
           req[c].held = req[c].expected
    BY <2>1 DEF Aims, Aimed
  <2>3. op.caller = c => [op.claim EXCEPT !.run = 0] = Expected(c)
    BY <2>1 DEF OwnedInv, Cancels, Agrees
  <2> QED BY <2>2, <2>3 DEF StopsOnlyExpected
<1> QED BY <1>1, RuntimeInvariant, PTL

(***************************************************************************)
(* selectTerminal's choice stands against every later intent, and          *)
(* RunCompleted reaches the log for no run whose worker did not choose     *)
(* complete first: no other actor's program can complete it.               *)
(***************************************************************************)
THEOREM FirstIntentStands == Spec => FirstIntentWins
<1> DEFINE Wins == \A e \in Executors :
              /\ live[e].intent # "none" => live'[e].intent = live[e].intent
              /\ log.run.id = RunOf(e) /\ RunOf(e) # 0 /\ log'.run.id = 0
                 /\ log'.state = "completed" => live[e].intent = "complete"
<1>1. RuntimeInv /\ [Next]_vars => Wins
  BY InvStep, CompletedByIntent DEF IntentKept, Kept
<1>2. Spec => [][Wins]_vars
  BY <1>1, RuntimeInvariant, PTL DEF Spec
<1> QED BY <1>2 DEF FirstIntentWins

(***************************************************************************)
(* The shape of the state of the live runtime, its requests and the kernel *)
(* they share, when finitely many execute requests arrive (rt.inflight     *)
(* counts some of them).                                                   *)
(***************************************************************************)
THEOREM RuntimeTypesHold ==
    ASSUME IsFiniteSet(Executors)
    PROVE  Spec => []TypeOK
<1>1. RuntimeInv => TypeOK
  <2> SUFFICES ASSUME RuntimeInv PROVE TypeOK
    OBVIOUS
  <2>1. RuntimeTypes /\ SlotsInv /\ KernelOK
    BY DEF RuntimeInv, RuntimeTypes
  <2>2. KernelTypeOK
    BY <2>1 DEF KernelOK, KernelTypeOK, OpOK, RetOK, BoundsOK, Operation, Result
  <2>3. Busy \subseteq Executors
    BY DEF Busy
  <2>4. Cardinality(Busy) <= Cardinality(Executors) /\ Cardinality(Busy) \in Nat
    BY <2>1, <2>3, FS_Subset, FS_CardinalityType DEF SlotsInv
  <2>5. Cardinality(Executors) \in Nat
    BY FS_CardinalityType
  <2>6. inflight \in 0..Cardinality(Executors)
    BY <2>1, <2>4, <2>5 DEF SlotsInv
  <2> QED BY <2>1, <2>2, <2>6 DEF RuntimeTypes, TypeOK, Live, Request, Stopping
<1> QED BY <1>1, RuntimeInvariant, PTL
=============================================================================
