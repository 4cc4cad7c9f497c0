------------------------ MODULE ResourceBudget_proofs ------------------------
(***************************************************************************)
(* What ResourceBudget guarantees for every number of requests, sessions,  *)
(* limits, classes, sizes and phases.                                      *)
(***************************************************************************)
EXTENDS ResourceBudget, FiniteSetTheorems, WellFoundedInduction, TLAPS

(***************************************************************************)
(* Type correctness, one lemma per group of operations.                    *)
(***************************************************************************)
LEMMA GrantTypes ==
    ASSUME AdmissionOK, NEW t \in Turns, NEW w \in Int, Grant(t, w)
    PROVE  AdmissionOK'
<1>1. Session[t] \in STRING
  BY LimitsAssumption
<1>2. activeSessions' \subseteq STRING
  BY <1>1 DEF AdmissionOK, Grant
<1> QED BY <1>2 DEF AdmissionOK, Grant

LEMMA SleepTypes ==
    ASSUME AdmissionOK, NEW t \in Turns, Sleep(t), queuedTurns' \in Int
    PROVE  AdmissionOK'
  BY DEF AdmissionOK, Sleep

LEMMA LeaveTypes ==
    ASSUME AdmissionOK, NEW t \in Turns, Leave(t), queuedTurns' \in Int
    PROVE  AdmissionOK'
  BY DEF AdmissionOK, Leave

LEMMA AdmissionTypes ==
    ASSUME TypeOK, NEW t \in Turns, Admission(t)
    PROVE  TypeOK'
<1>0. AdmissionOK /\ queuedTurns \in Int
  BY DEF TypeOK, AdmissionOK
<1>1. CASE Close(t)
  <2>1. AdmissionOK'
    <3>1. pc' \in [Turns -> {"new", "waiting", "held", "closed", "gone"}]
      BY <1>0, <1>1 DEF Close, AdmissionOK
    <3>2. activeSessions' \subseteq STRING
      BY <1>0, <1>1 DEF Close, AdmissionOK
    <3> QED BY <1>0, <1>1, <3>1, <3>2 DEF Close, SignalLocked, AdmissionOK
  <2>2. /\ total[t] \in Int /\ charged[t] \in [Classes -> Int]
        /\ turnReaders[t] \in Int
    BY DEF TypeOK, BytesOK, MarksOK
  <2>3. BytesOK'
    BY <1>1, <2>2 DEF Close, TypeOK, BytesOK
  <2>4. MarksOK'
    BY <1>1, <2>2 DEF Close, TypeOK, MarksOK, InPhase, markVars
  <2> QED BY <1>1, <2>1, <2>3, <2>4 DEF Close, TypeOK, HoldsOK, holdVars
<1>2. CASE ~Close(t)
  <2>1. AdmissionOK'
    BY <1>0, <1>2, GrantTypes, SleepTypes, LeaveTypes
       DEF Admission, AcquireTurn, TryAcquireTurn, Wake, GiveUp
  <2>2. NoBytes /\ NoMarks
    BY <1>2 DEF Admission, AcquireTurn, TryAcquireTurn, Wake, GiveUp
  <2> QED BY <2>1, <2>2 DEF NoBytes, NoMarks, TypeOK, BytesOK, HoldsOK, MarksOK,
             byteVars, holdVars, readerVars, phaseVars, markVars
<1> QED BY <1>1, <1>2

LEMMA AccountTypes ==
    ASSUME BytesOK, NEW t \in Turns, NEW class \in Classes, NEW k \in Int,
           Account(t, class, k)
    PROVE  BytesOK'
<1>1. charged' \in [Turns -> [Classes -> Int]]
  BY DEF Account, BytesOK
<1> QED BY <1>1 DEF Account, BytesOK

LEMMA GiveBackTypes ==
    ASSUME BytesOK, NEW t \in Turns, NEW class \in Classes, NEW n \in Int,
           GiveBack(t, class, n)
    PROVE  BytesOK'
<1>1. CASE pc[t] = "held"
  BY <1>1, AccountTypes DEF GiveBack
<1>2. CASE pc[t] # "held"
  BY <1>2 DEF GiveBack, BytesOK, byteVars
<1> QED BY <1>1, <1>2

LEMMA BytesTypes ==
    ASSUME TypeOK, NEW t \in Turns, Bytes(t)
    PROVE  TypeOK'
<1> PICK n \in Sizes :
        \/ \E class \in Classes : Reserve(t, class, n) \/ Release(t, class, n)
        \/ AccAppend(t, n) \/ AccRelease(t, n)
  BY DEF Bytes
<1>1. n \in Nat /\ n \in Int /\ AccClass \in Classes
  BY LimitsAssumption
<1>2. AdmissionOK' /\ MarksOK'
  BY DEF Reserve, Release, AccAppend, AccRelease, TypeOK, AdmissionOK, MarksOK,
         NoMarks, admissionVars, readerVars, phaseVars, markVars
<1>3. BytesOK'
  BY <1>1, AccountTypes, GiveBackTypes
     DEF Reserve, Release, AccAppend, AccRelease, TypeOK
<1>4. ASSUME NEW class \in Classes, Reserve(t, class, n) \/ Release(t, class, n)
      PROVE  HoldsOK'
  <2>1. PICK k \in Nat : held' = [held EXCEPT ![t][class][n] = k]
    <3>1. held[t][class][n] \in Nat
      BY DEF TypeOK, HoldsOK
    <3>2. CASE Reserve(t, class, n)
      <4>1. held' = [held EXCEPT ![t][class][n] = held[t][class][n] + 1]
        BY <3>2 DEF Reserve
      <4>2. held[t][class][n] + 1 \in Nat
        BY <3>1
      <4> QED BY <4>1, <4>2
    <3>3. CASE Release(t, class, n)
      <4>1. held' = [held EXCEPT ![t][class][n] = held[t][class][n] - 1]
        BY <3>3 DEF Release
      <4>2. held[t][class][n] - 1 \in Nat
        BY <3>1, <3>3 DEF Release
      <4> QED BY <4>1, <4>2
    <3> QED BY <1>4, <3>2, <3>3
  <2>2. held' \in [Turns -> [Classes -> [Sizes -> Nat]]]
    BY <2>1 DEF TypeOK, HoldsOK
  <2> QED BY <1>4, <2>2 DEF Reserve, Release, TypeOK, HoldsOK
<1>5. CASE AccAppend(t, n) \/ AccRelease(t, n)
  <2>0. leases[t][n] \in Nat /\ chunks[t] \in Nat
    BY DEF TypeOK, HoldsOK
  <2>1. leases' \in [Turns -> [Sizes -> Nat]]
    <3>1. PICK k \in Nat : leases' = [leases EXCEPT ![t][n] = k]
      <4>1. CASE AccAppend(t, n)
        <5>1. leases' = [leases EXCEPT ![t][n] = leases[t][n] + 1]
          BY <4>1 DEF AccAppend
        <5>2. leases[t][n] + 1 \in Nat
          BY <2>0
        <5> QED BY <5>1, <5>2
      <4>2. CASE AccRelease(t, n)
        <5>1. leases' = [leases EXCEPT ![t][n] = leases[t][n] - 1]
          BY <4>2 DEF AccRelease
        <5>2. leases[t][n] - 1 \in Nat
          BY <2>0, <4>2 DEF AccRelease
        <5> QED BY <5>1, <5>2
      <4> QED BY <1>5, <4>1, <4>2
    <3> QED BY <3>1 DEF TypeOK, HoldsOK
  <2>2. chunks' \in [Turns -> Nat]
    <3>1. CASE AccAppend(t, n)
      BY <1>1, <2>0, <3>1 DEF AccAppend, TypeOK, HoldsOK
    <3>2. CASE AccRelease(t, n)
      BY <3>2 DEF AccRelease, TypeOK, HoldsOK
    <3> QED BY <1>5, <3>1, <3>2
  <2>3. HoldsOK'
    BY <1>5, <2>1, <2>2 DEF AccAppend, AccRelease, TypeOK, HoldsOK
  <2> QED BY <1>2, <1>3, <2>3 DEF TypeOK
<1> QED BY <1>2, <1>3, <1>4, <1>5 DEF TypeOK

LEMMA MarksTypes ==
    ASSUME TypeOK, NEW t \in Turns, Marks(t)
    PROVE  TypeOK'
<1>1. CASE AccClose(t)
  <2>1. HoldsOK'
    BY <1>1 DEF AccClose, TypeOK, HoldsOK
  <2> QED BY <1>1, <2>1 DEF AccClose, TypeOK, AdmissionOK, BytesOK, MarksOK, NoMarks,
             admissionVars, byteVars, readerVars, phaseVars, markVars
<1>2. CASE ~AccClose(t)
  <2>1. AdmissionOK' /\ BytesOK' /\ HoldsOK'
    BY <1>2 DEF Marks, OpenReader, CloseReader, SetPhase, MarkCommitted, StartAttempt,
       EndAttempt, NoBytes, TypeOK, AdmissionOK, BytesOK, HoldsOK,
       admissionVars, byteVars, holdVars
  <2>2. ASSUME OpenReader(t) \/ CloseReader(t) PROVE MarksOK'
    BY <2>2 DEF OpenReader, CloseReader, TypeOK, MarksOK, phaseVars, markVars
  <2>3. ASSUME NEW p \in Phases, SetPhase(t, p) PROVE MarksOK'
    BY <2>3 DEF SetPhase, InPhase, TypeOK, MarksOK, readerVars, markVars
  <2>4. ASSUME MarkCommitted(t) \/ StartAttempt(t) \/ EndAttempt(t) PROVE MarksOK'
    BY <2>4 DEF MarkCommitted, StartAttempt, EndAttempt, TypeOK, MarksOK,
       readerVars, phaseVars
  <2> QED BY <1>2, <2>1, <2>2, <2>3, <2>4 DEF Marks, TypeOK
<1> QED BY <1>1, <1>2

LEMMA TypeStep == TypeOK /\ [Next]_vars => TypeOK'
<1> SUFFICES ASSUME TypeOK, [Next]_vars PROVE TypeOK'
  OBVIOUS
<1>1. CASE UNCHANGED vars
  BY <1>1 DEF vars, admissionVars, byteVars, holdVars, readerVars, phaseVars, markVars,
     TypeOK, AdmissionOK, BytesOK, HoldsOK, MarksOK
<1>2. CASE Next
  BY <1>2, AdmissionTypes, BytesTypes, MarksTypes DEF Next
<1> QED BY <1>1, <1>2

(***************************************************************************)
(* Every operation keeps the types of the Manager, its turns and what is   *)
(* held of them.                                                           *)
(***************************************************************************)
THEOREM TypeCorrect == Spec => []TypeOK
<1>1. Init => TypeOK
  <2> SUFFICES ASSUME Init PROVE TypeOK
    OBVIOUS
  <2>1. AdmissionOK
    BY DEF Init, AdmissionOK
  <2>2. BytesOK /\ HoldsOK
    BY DEF Init, BytesOK, HoldsOK
  <2>3. MarksOK
    BY DEF Init, MarksOK
  <2> QED BY <2>1, <2>2, <2>3 DEF TypeOK
<1> QED BY <1>1, TypeStep, PTL DEF Spec

-----------------------------------------------------------------------------
(***************************************************************************)
(* Admission.  NoLostWakeup and TurnsExclusive are not inductive alone:    *)
(* that Close wakes every waiter needs channels to be numbered in the      *)
(* order they are closed, and that a granted session was free needs        *)
(* activeSessions to be the sessions of the turns that are out.            *)
(***************************************************************************)
ChannelsArePast == \A t \in Waiting : seen[t] <= changed

AdmissionInv ==
    /\ AdmissionOK
    /\ AdmissionBalances /\ TurnsExclusive
    /\ NoLostWakeup /\ ChannelsArePast

LEMMA FiniteTurns ==
    IsFiniteSet(Holding) /\ IsFiniteSet(Waiting)
    /\ Cardinality(Holding) \in Nat /\ Cardinality(Waiting) \in Nat
<1>1. Holding \in SUBSET Turns /\ Waiting \in SUBSET Turns
  BY DEF Holding, Waiting
<1> QED BY <1>1, LimitsAssumption, FS_Subset, FS_CardinalityType

(* A grant to t, which held nothing before, adds t to the turns that are out. *)
LEMMA GrantAdmission ==
    ASSUME AdmissionInv, NEW t \in Turns, NEW w \in Int, Grant(t, w),
           \/ pc[t] = "new" /\ w = 0
           \/ pc[t] = "waiting" /\ w = 1
    PROVE  AdmissionInv'
<1>1. AdmissionOK'
  BY GrantTypes DEF AdmissionInv
<1>2. Holding' = Holding \cup {t} /\ t \notin Holding
  BY DEF Grant, Holding, AdmissionInv, AdmissionOK
<1>3. Waiting' = Waiting \ {t} /\ (t \in Waiting <=> w = 1)
  BY DEF Grant, Waiting, AdmissionInv, AdmissionOK
<1>4. Cardinality(Holding)' = Cardinality(Holding) + 1
  BY <1>2, FiniteTurns, FS_AddElement
<1>5. Cardinality(Waiting)' = Cardinality(Waiting) - w
  <2>1. CASE w = 1
    BY <1>3, <2>1, FiniteTurns, FS_RemoveElement
  <2>2. CASE w = 0
    <3>1. Waiting' = Waiting
      BY <1>3, <2>2
    <3> QED BY <2>2, <3>1, FiniteTurns
  <2> QED BY <2>1, <2>2
<1>6. activeSessions = {Session[u] : u \in Holding} \ {Anonymous}
  BY DEF AdmissionInv, AdmissionBalances
<1>7. activeSessions' = {Session[u] : u \in Holding'} \ {Anonymous}
  BY <1>2, <1>6 DEF Grant
<1>8. AdmissionBalances'
  BY <1>4, <1>5, <1>7 DEF Grant, AdmissionInv, AdmissionBalances
<1>9. TurnsExclusive'
  <2>1. Cardinality(Holding') <= MaxActiveTurns
    BY <1>4, LimitsAssumption, FiniteTurns
       DEF Grant, Grantable, AdmissionInv, AdmissionBalances
  <2>2. \A u \in Holding : Session[u] = Session[t] => Session[t] = Anonymous
    BY <1>6 DEF Grant, Grantable
  <2> QED BY <1>2, <2>1, <2>2 DEF AdmissionInv, TurnsExclusive
<1>10. NoLostWakeup'
  <2> SUFFICES ASSUME NEW u \in Waiting', seen'[u] = changed' PROVE ~Grantable(u)'
    BY DEF NoLostWakeup
  <2>1. ~Grantable(u)
    BY <1>3 DEF Grant, AdmissionInv, NoLostWakeup
  <2> QED BY <2>1, LimitsAssumption DEF Grant, Grantable, AdmissionInv, AdmissionOK
<1>11. ChannelsArePast'
  BY <1>3 DEF Grant, AdmissionInv, ChannelsArePast
<1> QED BY <1>1, <1>8, <1>9, <1>10, <1>11 DEF AdmissionInv

(* Neither falling asleep nor leaving changes which turns are out. *)
LEMMA SleepAdmission ==
    ASSUME AdmissionInv, NEW t \in Turns, Sleep(t),
           \/ pc[t] = "new" /\ queuedTurns' = queuedTurns + 1
           \/ pc[t] = "waiting" /\ queuedTurns' = queuedTurns
    PROVE  AdmissionInv'
<1>1. AdmissionOK'
  BY SleepTypes DEF AdmissionInv, AdmissionOK
<1>2. Holding' = Holding
  BY DEF Sleep, Holding, AdmissionInv, AdmissionOK
<1>3. Waiting' = Waiting \cup {t} /\ (t \in Waiting <=> pc[t] = "waiting")
  BY DEF Sleep, Waiting, AdmissionInv, AdmissionOK
<1>4. queuedTurns' = Cardinality(Waiting)'
  BY <1>3, FiniteTurns, FS_AddElement DEF AdmissionInv, AdmissionBalances
<1>5. AdmissionBalances' /\ TurnsExclusive'
  BY <1>2, <1>4 DEF Sleep, AdmissionInv, AdmissionBalances, TurnsExclusive
<1>6. NoLostWakeup'
  <2> SUFFICES ASSUME NEW u \in Waiting', seen'[u] = changed' PROVE ~Grantable(u)'
    BY DEF NoLostWakeup
  <2>1. ~Grantable(u)
    BY <1>3 DEF Sleep, AdmissionInv, AdmissionOK, NoLostWakeup
  <2> QED BY <2>1 DEF Sleep, Grantable
<1>7. ChannelsArePast'
  BY <1>3 DEF Sleep, AdmissionInv, AdmissionOK, ChannelsArePast
<1> QED BY <1>1, <1>5, <1>6, <1>7 DEF AdmissionInv

LEMMA LeaveAdmission ==
    ASSUME AdmissionInv, NEW t \in Turns, Leave(t),
           \/ pc[t] = "new" /\ queuedTurns' = queuedTurns
           \/ pc[t] = "waiting" /\ queuedTurns' = queuedTurns - 1
    PROVE  AdmissionInv'
<1>1. AdmissionOK'
  BY LeaveTypes DEF AdmissionInv, AdmissionOK
<1>2. Holding' = Holding
  BY DEF Leave, Holding, AdmissionInv, AdmissionOK
<1>3. Waiting' = Waiting \ {t} /\ (t \in Waiting <=> pc[t] = "waiting")
  BY DEF Leave, Waiting, AdmissionInv, AdmissionOK
<1>4. queuedTurns' = Cardinality(Waiting)'
  BY <1>3, FiniteTurns, FS_RemoveElement DEF AdmissionInv, AdmissionBalances
<1>5. AdmissionBalances' /\ TurnsExclusive'
  BY <1>2, <1>4 DEF Leave, AdmissionInv, AdmissionBalances, TurnsExclusive
<1>6. NoLostWakeup' /\ ChannelsArePast'
  BY <1>3 DEF Leave, Grantable, AdmissionInv, NoLostWakeup, ChannelsArePast
<1> QED BY <1>1, <1>5, <1>6 DEF AdmissionInv

(* Close: t was the only turn of its session, and every waiter is now behind. *)
LEMMA CloseAdmission ==
    ASSUME AdmissionInv, NEW t \in Turns, Close(t)
    PROVE  AdmissionInv'
<1>1. AdmissionOK'
  <2>1. pc' \in [Turns -> {"new", "waiting", "held", "closed", "gone"}]
    BY DEF Close, AdmissionInv, AdmissionOK
  <2>2. activeSessions' \subseteq STRING
    BY DEF Close, AdmissionInv, AdmissionOK
  <2> QED BY <2>1, <2>2 DEF Close, SignalLocked, AdmissionInv, AdmissionOK
<1>2. Holding' = Holding \ {t} /\ t \in Holding
  BY DEF Close, Holding, AdmissionInv, AdmissionOK
<1>3. Waiting' = Waiting
  BY DEF Close, Waiting, AdmissionInv, AdmissionOK
<1>4. Cardinality(Holding)' = Cardinality(Holding) - 1
  BY <1>2, FiniteTurns, FS_RemoveElement
<1>5. activeSessions = {Session[u] : u \in Holding} \ {Anonymous}
  BY DEF AdmissionInv, AdmissionBalances
<1>6. \A u \in Holding : Session[u] = Session[t] /\ Session[t] # Anonymous => u = t
  BY <1>2 DEF AdmissionInv, TurnsExclusive
<1>7. activeSessions' = {Session[u] : u \in Holding'} \ {Anonymous}
  BY <1>2, <1>5, <1>6 DEF Close
<1>8. AdmissionBalances'
  BY <1>3, <1>4, <1>7 DEF Close, AdmissionInv, AdmissionBalances
<1>9. TurnsExclusive'
  BY <1>2, <1>4, LimitsAssumption, FiniteTurns DEF AdmissionInv, TurnsExclusive
<1>10. \A u \in Waiting' : seen'[u] < changed'
  BY <1>3 DEF Close, SignalLocked, AdmissionInv, AdmissionOK, ChannelsArePast, Waiting
<1>11. NoLostWakeup' /\ ChannelsArePast'
  BY <1>1, <1>10 DEF AdmissionOK, NoLostWakeup, ChannelsArePast, Waiting
<1> QED BY <1>1, <1>8, <1>9, <1>11 DEF AdmissionInv

LEMMA AdmissionStep == AdmissionInv /\ [Next]_vars => AdmissionInv'
<1> SUFFICES ASSUME AdmissionInv, [Next]_vars PROVE AdmissionInv'
  OBVIOUS
<1>1. CASE UNCHANGED admissionVars
  BY <1>1 DEF admissionVars, AdmissionInv, AdmissionOK, AdmissionBalances, TurnsExclusive,
     NoLostWakeup, ChannelsArePast, Grantable, Holding, Waiting
<1>2. CASE Next
  <2> PICK t \in Turns : Admission(t) \/ Bytes(t) \/ Marks(t)
    BY <1>2 DEF Next
  <2>1. CASE AcquireTurn(t)
    BY <2>1, GrantAdmission, SleepAdmission DEF AcquireTurn
  <2>2. CASE TryAcquireTurn(t)
    BY <2>2, GrantAdmission, LeaveAdmission DEF TryAcquireTurn
  <2>3. CASE Wake(t)
    BY <2>3, GrantAdmission, SleepAdmission DEF Wake
  <2>4. CASE GiveUp(t)
    BY <2>4, LeaveAdmission DEF GiveUp
  <2>5. CASE Close(t)
    BY <2>5, CloseAdmission
  <2>6. CASE Bytes(t) \/ Marks(t)
    <3>1. UNCHANGED admissionVars
      BY <2>6 DEF Bytes, Reserve, Release, AccAppend, AccRelease, Marks, AccClose,
         OpenReader, CloseReader, SetPhase, MarkCommitted, StartAttempt, EndAttempt
    <3> QED BY <1>1, <3>1
  <2> QED BY <2>1, <2>2, <2>3, <2>4, <2>5, <2>6 DEF Admission
<1> QED BY <1>1, <1>2 DEF vars

LEMMA AdmissionCorrect == Spec => []AdmissionInv
<1>1. Init => AdmissionInv
  <2> SUFFICES ASSUME Init PROVE AdmissionInv
    OBVIOUS
  <2>1. Holding = {} /\ Waiting = {}
    BY DEF Init, Holding, Waiting
  <2>2. Cardinality({}) = 0
    BY FS_EmptySet
  <2>3. AdmissionOK
    BY DEF Init, AdmissionOK
  <2>4. AdmissionBalances /\ TurnsExclusive
    BY <2>1, <2>2, LimitsAssumption DEF Init, AdmissionBalances, TurnsExclusive
  <2>5. NoLostWakeup /\ ChannelsArePast
    BY <2>1 DEF NoLostWakeup, ChannelsArePast
  <2> QED BY <2>3, <2>4, <2>5 DEF AdmissionInv
<1> QED BY <1>1, AdmissionStep, PTL DEF Spec

(***************************************************************************)
(* AcquireTurn never sleeps through the Close that could have served it:   *)
(* whoever sleeps on the Manager's current channel cannot have a turn.     *)
(***************************************************************************)
THEOREM WakeupsAreNotLost == Spec => []NoLostWakeup
<1>1. AdmissionInv => NoLostWakeup
  BY DEF AdmissionInv
<1> QED BY <1>1, AdmissionCorrect, PTL

(***************************************************************************)
(* AcquireTurn and TryAcquireTurn never hand out more turns than           *)
(* MaxActiveTurns, nor two turns to one session.                           *)
(***************************************************************************)
THEOREM TurnsAreExclusive == Spec => []TurnsExclusive
<1>1. AdmissionInv => TurnsExclusive
  BY DEF AdmissionInv
<1> QED BY <1>1, AdmissionCorrect, PTL

(***************************************************************************)
(* activeTurns, queuedTurns and activeSessions stay the counts of turns    *)
(* out, of requests waiting and of busy sessions.                          *)
(***************************************************************************)
THEOREM AdmissionIsBalanced == Spec => []AdmissionBalances
<1>1. AdmissionInv => AdmissionBalances
  BY DEF AdmissionInv
<1> QED BY <1>1, AdmissionCorrect, PTL

(***************************************************************************)
(* StartAttempt never begins an attempt on a turn that MarkCommitted has   *)
(* marked, and no operation takes the mark back, a closed turn's included. *)
(***************************************************************************)
THEOREM CommitsAreFinal == Spec => NoRetryAfterCommit
<1> DEFINE Final == committed \subseteq committed'
                    /\ committed \cap attempting' \subseteq attempting
<1>1. [Next]_vars => [Final]_vars
  <2> SUFFICES ASSUME Next PROVE Final
    OBVIOUS
  <2> PICK t \in Turns : Admission(t) \/ Bytes(t) \/ Marks(t)
    BY DEF Next
  <2>1. CASE Admission(t)
    BY <2>1 DEF Admission, AcquireTurn, TryAcquireTurn, Wake, GiveUp, Close, NoMarks, markVars
  <2>2. CASE Bytes(t)
    BY <2>2 DEF Bytes, Reserve, Release, AccAppend, AccRelease, NoMarks, markVars
  <2>3. CASE Marks(t)
    BY <2>3 DEF Marks, AccClose, OpenReader, CloseReader, SetPhase, MarkCommitted,
       StartAttempt, EndAttempt, NoMarks, markVars
  <2> QED BY <2>1, <2>2, <2>3
<1> QED BY <1>1, PTL DEF Spec, NoRetryAfterCommit

-----------------------------------------------------------------------------
(***************************************************************************)
(* Sums.  The books of the Manager are sums over the turns that are out,   *)
(* written with the SumFunctionOnSet of the community modules, a recursive *)
(* function on the subsets of a finite set.                                *)
(***************************************************************************)
(* A set of subsets of a finite set has a smallest one: what the inductions below descend to. *)
LEMMA SmallestSet ==
    ASSUME NEW S, IsFiniteSet(S), NEW T, T \subseteq SUBSET S, T # {}
    PROVE  \E x \in T : \A y \in T : y \subseteq x => y = x
<1>1. IsWellFoundedOn(StrictSubsetOrdering(S), SUBSET S)
  BY FS_StrictSubsetOrderingWellFounded, FS_FiniteSubsetsOfFinite
<1>2. PICK x \in T : \A y \in T : <<y, x>> \notin StrictSubsetOrdering(S)
  BY <1>1, WFMin
<1>3. ASSUME NEW y \in T, y \subseteq x PROVE y = x
  <2>1. <<y, x>> \in (SUBSET S) \X (SUBSET S)
    OBVIOUS
  <2> QED BY <1>2, <1>3, <2>1 DEF StrictSubsetOrdering
<1> QED BY <1>3

(* MapThenFoldSet chooses an element, and adds it to the sum of the rest. *)
Pick(s) == CHOOSE x \in s : TRUE
Summing(g, f, S) ==
    g = [s \in SUBSET S |-> IF s = {} THEN 0 ELSE f[Pick(s)] + g[s \ {Pick(s)}]]

LEMMA Picked == ASSUME NEW s, s # {} PROVE Pick(s) \in s /\ s \ {Pick(s)} # s
  BY DEF Pick

Alike(f, e, U) == \A x \in U : f[x] = e[x]

(* Two such functions agree where the numbers they add agree. *)
LEMMA SummingAgree ==
    ASSUME NEW S, NEW T, IsFiniteSet(S), NEW f, NEW e, NEW g, NEW h,
           Summing(g, f, S), Summing(h, e, T),
           NEW U, U \subseteq S, U \subseteq T, Alike(f, e, U)
    PROVE  g[U] = h[U]
<1> DEFINE Bad == {V \in SUBSET U : g[V] # h[V]}
<1> SUFFICES ASSUME Bad # {} PROVE FALSE
  OBVIOUS
<1>0. IsFiniteSet(U)
  BY FS_Subset
<1>1. PICK V \in Bad : \A W \in Bad : W \subseteq V => W = V
  <2>1. Bad \subseteq SUBSET U
    OBVIOUS
  <2> HIDE DEF Bad
  <2> QED BY <1>0, <2>1, SmallestSet
<1>2. V \in SUBSET S /\ V \in SUBSET T
  OBVIOUS
<1>3. /\ g[V] = IF V = {} THEN 0 ELSE f[Pick(V)] + g[V \ {Pick(V)}]
      /\ h[V] = IF V = {} THEN 0 ELSE e[Pick(V)] + h[V \ {Pick(V)}]
  BY <1>2 DEF Summing
<1>4. V # {}
  BY <1>1, <1>3
<1>5. Pick(V) \in V /\ V \ {Pick(V)} # V
  BY <1>4, Picked
<1>6. g[V \ {Pick(V)}] = h[V \ {Pick(V)}]
  BY <1>1, <1>5
<1>7. f[Pick(V)] = e[Pick(V)]
  BY <1>5 DEF Alike
<1> QED BY <1>1, <1>3, <1>4, <1>6, <1>7

(* The sum of the library is read off such a function. *)
LEMMA SumIsSumming ==
    ASSUME NEW f, NEW S
    PROVE  SumFunctionOnSet(f, S) = (CHOOSE g : Summing(g, f, S))[S]
  BY DEF SumFunctionOnSet, FoldFunctionOnSet, MapThenFoldSet, Summing, Pick

(* There is such a function for every finite set. *)
LEMMA SummingExists ==
    ASSUME NEW f, NEW S, IsFiniteSet(S)
    PROVE  \E g : Summing(g, f, S)
<1> DEFINE Bad == {T \in SUBSET S : ~ \E g : Summing(g, f, T)}
           Sum(u) == (CHOOSE g : Summing(g, f, u))[u]
<1> SUFFICES ASSUME Bad # {} PROVE FALSE
  OBVIOUS
<1>1. PICK T \in Bad : \A W \in Bad : W \subseteq T => W = T
  <2>1. Bad \subseteq SUBSET S
    OBVIOUS
  <2> HIDE DEF Bad
  <2> QED BY <2>1, SmallestSet
<1>2. ASSUME NEW u \in SUBSET T, u # T
      PROVE  Summing(CHOOSE g : Summing(g, f, u), f, u)
  BY <1>1, <1>2
<1> DEFINE G == [s \in SUBSET T |-> IF s = {} THEN 0 ELSE f[Pick(s)] + Sum(s \ {Pick(s)})]
<1>3. ASSUME NEW u \in SUBSET T, u # T PROVE G[u] = Sum(u)
  <2> DEFINE g == CHOOSE h : Summing(h, f, u)
  <2>1. Summing(g, f, u)
    BY <1>2, <1>3
  <2> HIDE DEF g
  <2>2. g[u] = IF u = {} THEN 0 ELSE f[Pick(u)] + g[u \ {Pick(u)}]
    BY <2>1 DEF Summing
  <2>3. CASE u = {}
    BY <2>2, <2>3 DEF g
  <2>4. CASE u # {}
    <3> DEFINE v == u \ {Pick(u)}
               k == CHOOSE h : Summing(h, f, v)
    <3>1. v \in SUBSET T /\ v # T /\ v \subseteq u
      BY <1>3
    <3>2. Summing(k, f, v)
      BY <3>1, <1>2
    <3>3. IsFiniteSet(v) /\ IsFiniteSet(u)
      BY <3>1, FS_Subset
    <3> HIDE DEF k, v
    <3>4. k[v] = g[v]
      <4>1. Alike(f, f, v) /\ v \subseteq v
        BY DEF Alike
      <4> QED BY <4>1, <2>1, <3>1, <3>2, <3>3, SummingAgree
    <3>5. G[u] = f[Pick(u)] + k[v]
      BY <2>4 DEF k, v
    <3> QED BY <2>2, <2>4, <3>4, <3>5 DEF v, g
  <2> QED BY <2>3, <2>4
<1> HIDE DEF Sum
<1>4. \A s \in SUBSET T : s # {} => G[s \ {Pick(s)}] = Sum(s \ {Pick(s)})
  BY <1>3, Picked
<1>5. Summing(G, f, T)
  BY <1>4 DEF Summing
<1> QED BY <1>1, <1>5

(* So a sum is one of its numbers and the sum of the rest. *)
LEMMA SumUnfolds ==
    ASSUME NEW f, NEW S, IsFiniteSet(S)
    PROVE  SumFunctionOnSet(f, S) =
             IF S = {} THEN 0
             ELSE f[Pick(S)] + SumFunctionOnSet(f, S \ {Pick(S)})
<1> DEFINE g == CHOOSE h : Summing(h, f, S)
           T == S \ {Pick(S)}
           k == CHOOSE h : Summing(h, f, T)
<1>1. IsFiniteSet(T)
  BY FS_Subset
<1>2. Summing(g, f, S) /\ Summing(k, f, T)
  BY <1>1, SummingExists
<1>3. SumFunctionOnSet(f, S) = g[S] /\ SumFunctionOnSet(f, T) = k[T]
  BY SumIsSumming
<1> HIDE DEF g, k, T
<1>4. k[T] = g[T]
  <2>1. T \subseteq S /\ T \subseteq T /\ Alike(f, f, T)
    BY DEF T, Alike
  <2> QED BY <1>1, <1>2, <2>1, SummingAgree
<1>5. g[S] = IF S = {} THEN 0 ELSE f[Pick(S)] + g[T]
  BY <1>2 DEF Summing, T
<1> QED BY <1>3, <1>4, <1>5 DEF T

(* A sum of integers is an integer. *)
LEMMA SumInt ==
    ASSUME NEW f, NEW S, IsFiniteSet(S), \A x \in S : f[x] \in Int
    PROVE  SumFunctionOnSet(f, S) \in Int
<1> DEFINE Bad == {T \in SUBSET S : SumFunctionOnSet(f, T) \notin Int}
<1> SUFFICES ASSUME Bad # {} PROVE FALSE
  OBVIOUS
<1>1. PICK T \in Bad : \A W \in Bad : W \subseteq T => W = T
  <2>1. Bad \subseteq SUBSET S
    OBVIOUS
  <2> HIDE DEF Bad
  <2> QED BY <2>1, SmallestSet
<1>2. IsFiniteSet(T)
  BY FS_Subset
<1>3. SumFunctionOnSet(f, T) = IF T = {} THEN 0
                               ELSE f[Pick(T)] + SumFunctionOnSet(f, T \ {Pick(T)})
  BY <1>2, SumUnfolds
<1>4. T # {}
  BY <1>3
<1>5. Pick(T) \in T /\ T \ {Pick(T)} # T
  BY <1>4, Picked
<1>6. SumFunctionOnSet(f, T \ {Pick(T)}) \in Int /\ f[Pick(T)] \in Int
  BY <1>1, <1>5
<1> QED BY <1>3, <1>4, <1>6

(* Any of its numbers can be taken out of a sum: the order of adding makes no difference. *)
LEMMA SumTakes ==
    ASSUME NEW f, NEW S, IsFiniteSet(S), \A x \in S : f[x] \in Int, NEW y \in S
    PROVE  SumFunctionOnSet(f, S) = f[y] + SumFunctionOnSet(f, S \ {y})
<1> DEFINE Off(T, z) ==
              SumFunctionOnSet(f, T) # f[z] + SumFunctionOnSet(f, T \ {z})
           Bad == {T \in SUBSET S : \E z \in T : Off(T, z)}
<1> SUFFICES ASSUME Bad # {} PROVE FALSE
  OBVIOUS
<1>1. PICK T \in Bad : \A W \in Bad : W \subseteq T => W = T
  <2>1. Bad \subseteq SUBSET S
    OBVIOUS
  <2> HIDE DEF Bad
  <2> QED BY <2>1, SmallestSet
<1>2. PICK z \in T : Off(T, z)
  BY <1>1
<1> DEFINE x == Pick(T)
<1>3. x \in T
  BY Picked
<1>4. SumFunctionOnSet(f, T) = f[x] + SumFunctionOnSet(f, T \ {x})
  <2>1. IsFiniteSet(T)
    BY FS_Subset
  <2> QED BY <1>3, <2>1, SumUnfolds
<1> HIDE DEF x
<1>5. x # z
  BY <1>2, <1>4
<1> DEFINE R == T \ {x, z}
<1>6. SumFunctionOnSet(f, T \ {x}) = f[z] + SumFunctionOnSet(f, R)
  <2>1. T \ {x} \notin Bad /\ z \in T \ {x}
    BY <1>1, <1>3, <1>5
  <2>2. (T \ {x}) \ {z} = R
    OBVIOUS
  <2> QED BY <2>1, <2>2
<1>7. SumFunctionOnSet(f, T \ {z}) = f[x] + SumFunctionOnSet(f, R)
  <2>1. T \ {z} \notin Bad /\ x \in T \ {z}
    BY <1>1, <1>3, <1>5
  <2>2. (T \ {z}) \ {x} = R
    OBVIOUS
  <2> QED BY <2>1, <2>2
<1>8. SumFunctionOnSet(f, R) \in Int /\ f[x] \in Int /\ f[z] \in Int
  <2>1. IsFiniteSet(R) /\ R \subseteq S
    BY FS_Subset
  <2> QED BY <1>3, <2>1, SumInt
<1> HIDE DEF R
<1> QED BY <1>2, <1>4, <1>6, <1>7, <1>8

(* A sum depends on the numbers of its set only. *)
LEMMA SumAgrees ==
    ASSUME NEW f, NEW e, NEW S, IsFiniteSet(S), \A x \in S : f[x] = e[x]
    PROVE  SumFunctionOnSet(f, S) = SumFunctionOnSet(e, S)
<1> DEFINE g == CHOOSE h : Summing(h, f, S)
           k == CHOOSE h : Summing(h, e, S)
<1>1. Summing(g, f, S) /\ Summing(k, e, S)
  BY SummingExists
<1>2. SumFunctionOnSet(f, S) = g[S] /\ SumFunctionOnSet(e, S) = k[S]
  BY SumIsSumming
<1> HIDE DEF g, k
<1>3. S \subseteq S /\ Alike(f, e, S)
  BY DEF Alike
<1>4. g[S] = k[S]
  BY <1>1, <1>3, SummingAgree
<1> QED BY <1>2, <1>4

(* A sum of counts is a count, and none of them is larger. *)
LEMMA SumAtLeast ==
    ASSUME NEW f, NEW S, IsFiniteSet(S), \A x \in S : f[x] \in Nat
    PROVE  /\ SumFunctionOnSet(f, S) \in Nat
           /\ \A y \in S : f[y] <= SumFunctionOnSet(f, S)
<1>1. ASSUME NEW T \in SUBSET S PROVE SumFunctionOnSet(f, T) \in Nat
  <2> DEFINE Bad == {U \in SUBSET S : SumFunctionOnSet(f, U) \notin Nat}
  <2> SUFFICES ASSUME Bad # {} PROVE FALSE
    OBVIOUS
  <2>1. PICK U \in Bad : \A W \in Bad : W \subseteq U => W = U
    <3>1. Bad \subseteq SUBSET S
      OBVIOUS
    <3> HIDE DEF Bad
    <3> QED BY <3>1, SmallestSet
  <2>2. IsFiniteSet(U)
    BY FS_Subset
  <2>3. SumFunctionOnSet(f, U) = IF U = {} THEN 0
                                 ELSE f[Pick(U)] + SumFunctionOnSet(f, U \ {Pick(U)})
    BY <2>2, SumUnfolds
  <2>4. U # {}
    BY <2>3
  <2>5. Pick(U) \in U /\ U \ {Pick(U)} # U
    BY <2>4, Picked
  <2>6. SumFunctionOnSet(f, U \ {Pick(U)}) \in Nat /\ f[Pick(U)] \in Nat
    BY <2>1, <2>5
  <2> QED BY <2>3, <2>4, <2>6
<1>2. ASSUME NEW y \in S PROVE f[y] <= SumFunctionOnSet(f, S)
  <2>1. SumFunctionOnSet(f, S \ {y}) \in Nat
    BY <1>1
  <2>2. SumFunctionOnSet(f, S) = f[y] + SumFunctionOnSet(f, S \ {y})
    BY SumTakes
  <2> QED BY <2>1, <2>2
<1> QED BY <1>1, <1>2

(* A sum moves as the one number that moves. *)
LEMMA SumMoves ==
    ASSUME NEW f, NEW e, NEW S, IsFiniteSet(S), NEW y \in S,
           \A x \in S : f[x] \in Int, e[y] \in Int,
           \A x \in S : x # y => e[x] = f[x]
    PROVE  SumFunctionOnSet(e, S) = SumFunctionOnSet(f, S) + (e[y] - f[y])
<1> DEFINE R == S \ {y}
<1>1. IsFiniteSet(R) /\ \A x \in R : e[x] = f[x]
  BY FS_Subset
<1>2. SumFunctionOnSet(e, R) = SumFunctionOnSet(f, R) /\ SumFunctionOnSet(f, R) \in Int
  <2> HIDE DEF R
  <2>1. SumFunctionOnSet(e, R) = SumFunctionOnSet(f, R)
    BY <1>1, SumAgrees
  <2>2. \A x \in R : f[x] \in Int
    BY DEF R
  <2> QED BY <1>1, <2>1, <2>2, SumInt
<1>3. SumFunctionOnSet(f, S) = f[y] + SumFunctionOnSet(f, R)
  BY SumTakes
<1>4. SumFunctionOnSet(e, S) = e[y] + SumFunctionOnSet(e, R)
  <2>1. \A x \in S : e[x] \in Int
    OBVIOUS
  <2> QED BY <2>1, SumTakes
<1> QED BY <1>2, <1>3, <1>4

(* The empty sum. *)
LEMMA SumNothing == ASSUME NEW f PROVE SumFunctionOnSet(f, {}) = 0
<1>1. IsFiniteSet({})
  BY FS_EmptySet
<1> QED BY <1>1, SumUnfolds

(* A sum of zeros. *)
LEMMA SumZeros ==
    ASSUME NEW f, NEW S, IsFiniteSet(S), \A x \in S : f[x] = 0
    PROVE  SumFunctionOnSet(f, S) = 0
<1> DEFINE Bad == {T \in SUBSET S : SumFunctionOnSet(f, T) # 0}
<1> SUFFICES ASSUME Bad # {} PROVE FALSE
  OBVIOUS
<1>1. PICK T \in Bad : \A W \in Bad : W \subseteq T => W = T
  <2>1. Bad \subseteq SUBSET S
    OBVIOUS
  <2> HIDE DEF Bad
  <2> QED BY <2>1, SmallestSet
<1>2. IsFiniteSet(T)
  BY FS_Subset
<1>3. SumFunctionOnSet(f, T) = IF T = {} THEN 0
                               ELSE f[Pick(T)] + SumFunctionOnSet(f, T \ {Pick(T)})
  BY <1>2, SumUnfolds
<1>4. T # {}
  BY <1>3
<1>5. Pick(T) \in T /\ T \ {Pick(T)} # T
  BY <1>4, Picked
<1>6. SumFunctionOnSet(f, T \ {Pick(T)}) = 0 /\ f[Pick(T)] = 0
  BY <1>1, <1>5
<1> QED BY <1>3, <1>4, <1>6

-----------------------------------------------------------------------------
(***************************************************************************)
(* The books.  BooksBalance is not inductive alone: Close takes off what   *)
(* the turn is charged in total and class by class, so the two must agree; *)
(* it also takes off the readers the turn counts, which must be those that *)
(* are open; and a grant adds a turn to the sums, so a request must come   *)
(* with nothing.  That a total does not fall below zero follows: what a    *)
(* turn is charged for is what is still held of it.                        *)
(***************************************************************************)
TurnBooks ==
    /\ \A t \in Holding : total[t] = SumFunction(charged[t]) /\ turnReaders[t] = readers[t]
    /\ \A t \in Turns \ Holding :
          /\ total[t] = 0 /\ turnReaders[t] = 0
          /\ \A c \in Classes : charged[t][c] = 0

FreshTurns ==
    \A t \in Turns : ~Opened(t) =>
        /\ readers[t] = 0 /\ phase[t] = NoPhase
        /\ \A n \in Sizes : leases[t][n] = 0 /\ \A c \in Classes : held[t][c][n] = 0

UpperLimits ==
    /\ processBytes <= MaxProcessBytes
    /\ \A t \in Turns : total[t] <= MaxTurnBytes
    /\ \A c \in Classes : ClassBytes[c] > 0 => classBytes[c] <= ClassBytes[c]

Books == TypeOK /\ BooksBalance /\ ChargedForHeld /\ TurnBooks /\ FreshTurns
BooksInv == Books /\ UpperLimits

ByClass(c) == [t \in Turns |-> charged[t][c]]
Lease(t, c, n) == IF c = AccClass THEN leases[t][n] ELSE 0
Weights(t, c) == [n \in Sizes |-> n * (held[t][c][n] + Lease(t, c, n))]

(* The four parts of the books in the words above. *)
LEMMA BooksInWords ==
    /\ BooksBalance <=>
          /\ processBytes = SumFunctionOnSet(total, Holding)
          /\ activeReaders = SumFunctionOnSet(readers, Holding)
          /\ \A c \in Classes : classBytes[c] = SumFunctionOnSet(ByClass(c), Holding)
          /\ \A p \in Phases : activeByPhase[p] = Cardinality({t \in Holding : phase[t] = p})
    /\ ChargedForHeld <=>
          \A t \in Holding : \A c \in Classes :
              charged[t][c] = SumFunctionOnSet(Weights(t, c), Sizes)
  BY DEF BooksBalance, ChargedForHeld, ByClass, Weights, Lease, SumFunction

(* The same of the next state. *)
LEMMA BooksInWordsNext ==
    /\ BooksBalance' <=>
          /\ processBytes' = SumFunctionOnSet(total', Holding')
          /\ activeReaders' = SumFunctionOnSet(readers', Holding')
          /\ \A c \in Classes : classBytes'[c] = SumFunctionOnSet(ByClass(c)', Holding')
          /\ \A p \in Phases :
                activeByPhase'[p] = Cardinality({t \in Holding' : phase'[t] = p})
    /\ ChargedForHeld' <=>
          \A t \in Holding' : \A c \in Classes :
              charged'[t][c] = SumFunctionOnSet(Weights(t, c)', Sizes)
  BY DEF BooksBalance, ChargedForHeld, ByClass, Weights, Lease, SumFunction

Counts ==
    /\ \A t \in Turns : total[t] \in Nat /\ \A c \in Classes : charged[t][c] \in Nat
    /\ processBytes \in Nat
    /\ \A c \in Classes : classBytes[c] \in Nat

(* What a turn is charged is a count of bytes, and so are the totals. *)
LEMMA BooksAreCounts == Books => Counts
<1> SUFFICES ASSUME Books PROVE Counts
  OBVIOUS
<1>0. /\ IsFiniteSet(Sizes) /\ IsFiniteSet(Classes) /\ IsFiniteSet(Holding)
      /\ Holding \subseteq Turns
  BY LimitsAssumption, FiniteTurns DEF Holding
<1>1. ASSUME NEW t \in Turns, NEW c \in Classes PROVE charged[t][c] \in Nat
  <2>1. CASE t \in Holding
    <3>1. charged[t][c] = SumFunctionOnSet(Weights(t, c), Sizes)
      BY <2>1, BooksInWords DEF Books
    <3>2. \A n \in Sizes : Weights(t, c)[n] \in Nat
      <4> SUFFICES ASSUME NEW n \in Sizes PROVE Weights(t, c)[n] \in Nat
        OBVIOUS
      <4>1. /\ n \in Nat /\ held[t][c][n] \in Nat /\ Lease(t, c, n) \in Nat
        BY LimitsAssumption DEF Books, TypeOK, HoldsOK, Lease
      <4> DEFINE a == held[t][c][n] + Lease(t, c, n)
      <4>2. a \in Nat
        BY <4>1
      <4>3. Weights(t, c)[n] = n * a
        BY DEF Weights
      <4> HIDE DEF a
      <4> QED BY <4>1, <4>2, <4>3
    <3> HIDE DEF Weights
    <3> QED BY <1>0, <3>1, <3>2, SumAtLeast
  <2>2. CASE t \notin Holding
    BY <2>2 DEF Books, TurnBooks
  <2> QED BY <2>1, <2>2
<1>2. ASSUME NEW t \in Turns PROVE total[t] \in Nat
  <2>1. CASE t \in Holding
    <3>1. DOMAIN charged[t] = Classes
      BY DEF Books, TypeOK, BytesOK
    <3>2. total[t] = SumFunctionOnSet(charged[t], Classes)
      BY <2>1, <3>1 DEF Books, TurnBooks, SumFunction
    <3> QED BY <1>0, <1>1, <3>2, SumAtLeast
  <2>2. CASE t \notin Holding
    BY <2>2 DEF Books, TurnBooks
  <2> QED BY <2>1, <2>2
<1>3. processBytes \in Nat
  <2>1. processBytes = SumFunctionOnSet(total, Holding)
    BY BooksInWords DEF Books
  <2> QED BY <1>0, <1>2, <2>1, SumAtLeast
<1>4. ASSUME NEW c \in Classes PROVE classBytes[c] \in Nat
  <2>1. classBytes[c] = SumFunctionOnSet(ByClass(c), Holding)
    BY BooksInWords DEF Books
  <2>2. \A t \in Holding : ByClass(c)[t] \in Nat
    BY <1>0, <1>1 DEF ByClass
  <2> QED BY <1>0, <2>1, <2>2, SumAtLeast
<1> QED BY <1>1, <1>2, <1>3, <1>4 DEF Counts

(* The same of the next state. *)
LEMMA BooksAreCountsNext == Books' => Counts'
  BY BooksAreCounts, PTL

(* Within the limits: not above by the checks of Reserve, not below by the books. *)
LEMMA BooksAreWithin == BooksInv => BooksBalance /\ ChargedForHeld /\ WithinLimits
<1> SUFFICES ASSUME BooksInv PROVE WithinLimits
  BY DEF BooksInv, Books
<1>1. Books
  BY DEF BooksInv
<1>2. /\ \A t \in Turns : total[t] \in Nat
      /\ processBytes \in Nat
      /\ \A c \in Classes : classBytes[c] \in Nat
  BY <1>1, BooksAreCounts DEF Counts
<1> QED BY <1>2, LimitsAssumption DEF BooksInv, UpperLimits, WithinLimits

(* One number more in a sum. *)
LEMMA SumGrows ==
    ASSUME NEW f, NEW S, IsFiniteSet(S), \A x \in S : f[x] \in Int, NEW y, y \notin S,
           f[y] \in Int
    PROVE  SumFunctionOnSet(f, S \cup {y}) = f[y] + SumFunctionOnSet(f, S)
<1> DEFINE T == S \cup {y}
<1>1. IsFiniteSet(T)
  BY FS_AddElement
<1>2. (\A x \in T : f[x] \in Int) /\ y \in T /\ T \ {y} = S
  OBVIOUS
<1> HIDE DEF T
<1>3. SumFunctionOnSet(f, T) = f[y] + SumFunctionOnSet(f, T \ {y})
  BY <1>1, <1>2, SumTakes
<1> QED BY <1>2, <1>3 DEF T

(* What is charged, by class, as integers. *)
LEMMA BookTypes ==
    ASSUME TypeOK
    PROVE  /\ \A t \in Turns : total[t] \in Int /\ readers[t] \in Int
           /\ \A t \in Turns, c \in Classes : charged[t][c] \in Int /\ ByClass(c)[t] = charged[t][c]
           /\ IsFiniteSet(Holding) /\ Holding \subseteq Turns
           /\ IsFiniteSet(Classes) /\ IsFiniteSet(Sizes)
  BY LimitsAssumption, FiniteTurns DEF TypeOK, BytesOK, MarksOK, HoldsOK, ByClass, Holding

Entries == <<byteVars, held, leases, readerVars, phaseVars>>

(* A grant adds a turn with nothing to the sums. *)
LEMMA GrantBooks ==
    ASSUME BooksInv, TypeOK', NEW t \in Turns, NEW w, Grant(t, w),
           pc[t] \in {"new", "waiting"}, UNCHANGED Entries
    PROVE  BooksInv'
<1>0. /\ TypeOK /\ BooksBalance /\ ChargedForHeld /\ TurnBooks /\ FreshTurns /\ UpperLimits
      /\ pc \in [Turns -> {"new", "waiting", "held", "closed", "gone"}]
  BY DEF BooksInv, Books, TypeOK, AdmissionOK
<1>1. pc' = [pc EXCEPT ![t] = "held"] /\ Holding' = Holding \cup {t} /\ t \notin Holding
  BY <1>0 DEF Grant, Holding
<1>2. /\ total' = total /\ charged' = charged /\ processBytes' = processBytes
      /\ classBytes' = classBytes /\ held' = held /\ leases' = leases
      /\ activeReaders' = activeReaders /\ turnReaders' = turnReaders /\ readers' = readers
      /\ activeByPhase' = activeByPhase /\ phase' = phase
  BY DEF Entries, byteVars, readerVars, phaseVars
<1>3. /\ total[t] = 0 /\ turnReaders[t] = 0 /\ readers[t] = 0 /\ phase[t] = NoPhase
      /\ \A c \in Classes : charged[t][c] = 0
      /\ \A n \in Sizes : leases[t][n] = 0 /\ \A c \in Classes : held[t][c][n] = 0
  <2>1. ~Opened(t)
    BY DEF Opened
  <2> QED BY <1>0, <1>1, <2>1 DEF TurnBooks, FreshTurns
<1>4. BooksBalance'
  <2>1. SumFunctionOnSet(total, Holding') = SumFunctionOnSet(total, Holding)
    <3>1. SumFunctionOnSet(total, Holding \cup {t}) = total[t] + SumFunctionOnSet(total, Holding)
      BY <1>0, <1>1, BookTypes, SumGrows
    <3>2. SumFunctionOnSet(total, Holding) \in Int
      BY <1>0, BookTypes, SumInt
    <3> QED BY <1>1, <1>3, <3>1, <3>2
  <2>2. SumFunctionOnSet(readers, Holding') = SumFunctionOnSet(readers, Holding)
    <3>1. SumFunctionOnSet(readers, Holding \cup {t})
            = readers[t] + SumFunctionOnSet(readers, Holding)
      BY <1>0, <1>1, BookTypes, SumGrows
    <3>2. SumFunctionOnSet(readers, Holding) \in Int
      BY <1>0, BookTypes, SumInt
    <3> QED BY <1>1, <1>3, <3>1, <3>2
  <2>3. ASSUME NEW c \in Classes
        PROVE  SumFunctionOnSet(ByClass(c)', Holding') = SumFunctionOnSet(ByClass(c), Holding)
    <3> DEFINE f == ByClass(c)
    <3>0. ByClass(c)' = f /\ (\A x \in Turns : f[x] \in Int) /\ f[t] = 0
      BY <1>0, <1>2, <1>3, BookTypes DEF ByClass
    <3> HIDE DEF f
    <3>1. SumFunctionOnSet(f, Holding \cup {t}) = f[t] + SumFunctionOnSet(f, Holding)
      BY <1>0, <1>1, <3>0, BookTypes, SumGrows
    <3>2. SumFunctionOnSet(f, Holding) \in Int
      BY <1>0, <3>0, BookTypes, SumInt
    <3> QED BY <1>1, <3>0, <3>1, <3>2 DEF f
  <2>4. ASSUME NEW p \in Phases
        PROVE  {u \in Holding' : phase'[u] = p} = {u \in Holding : phase[u] = p}
    BY <1>1, <1>2, <1>3, LimitsAssumption
  <2> QED BY <1>0, <1>2, <2>1, <2>2, <2>3, <2>4, BooksInWords, BooksInWordsNext
<1>5. ChargedForHeld'
  <2> SUFFICES ASSUME NEW u \in Holding', NEW c \in Classes
               PROVE  charged'[u][c] = SumFunctionOnSet(Weights(u, c)', Sizes)
    BY BooksInWordsNext
  <2>1. Weights(u, c)' = Weights(u, c)
    BY <1>2 DEF Weights, Lease
  <2>2. CASE u \in Holding
    BY <1>0, <1>2, <2>1, <2>2, BooksInWords
  <2>3. CASE u = t
    <3>1. \A n \in Sizes : Weights(t, c)[n] = 0
      BY <1>3, LimitsAssumption DEF Weights, Lease
    <3>2. SumFunctionOnSet(Weights(t, c), Sizes) = 0
      BY <3>1, SumZeros, LimitsAssumption
    <3> QED BY <1>2, <1>3, <2>1, <2>3, <3>2
  <2> QED BY <1>1, <2>2, <2>3
<1>6. TurnBooks'
  <2>1. SumFunction(charged[t]) = 0
    <3>1. DOMAIN charged[t] = Classes
      BY <1>0 DEF TypeOK, BytesOK
    <3>2. SumFunctionOnSet(charged[t], Classes) = 0
      BY <1>3, SumZeros, LimitsAssumption
    <3> QED BY <3>1, <3>2 DEF SumFunction
  <2> QED BY <1>0, <1>1, <1>2, <1>3, <2>1 DEF TurnBooks
<1>7. FreshTurns'
  BY <1>0, <1>1, <1>2 DEF FreshTurns, Opened
<1>8. UpperLimits'
  BY <1>0, <1>2 DEF UpperLimits
<1> QED BY <1>4, <1>5, <1>6, <1>7, <1>8 DEF BooksInv, Books

(* A step that moves neither the turns that are out nor an entry of the books. *)
LEMMA QuietBooks ==
    ASSUME BooksInv, TypeOK', Holding' = Holding, UNCHANGED Entries,
           \A t \in Turns : Opened(t) => Opened(t)'
    PROVE  BooksInv'
<1>1. /\ total' = total /\ charged' = charged /\ processBytes' = processBytes
      /\ classBytes' = classBytes /\ held' = held /\ leases' = leases
      /\ activeReaders' = activeReaders /\ turnReaders' = turnReaders /\ readers' = readers
      /\ activeByPhase' = activeByPhase /\ phase' = phase
  BY DEF Entries, byteVars, readerVars, phaseVars
<1>2. BooksBalance'
  BY <1>1 DEF BooksInv, Books, BooksBalance
<1>3. ChargedForHeld'
  BY <1>1 DEF BooksInv, Books, ChargedForHeld
<1>4. TurnBooks' /\ FreshTurns' /\ UpperLimits'
  BY <1>1 DEF BooksInv, Books, TurnBooks, FreshTurns, UpperLimits
<1> QED BY <1>2, <1>3, <1>4 DEF BooksInv, Books

(* Turn.Close takes off what the turn was charged, its readers and its phase. *)
LEMMA CloseBooks ==
    ASSUME BooksInv, TypeOK', NEW t \in Turns, Close(t)
    PROVE  BooksInv'
<1>0. /\ TypeOK /\ BooksBalance /\ ChargedForHeld /\ TurnBooks /\ FreshTurns /\ UpperLimits
      /\ pc \in [Turns -> {"new", "waiting", "held", "closed", "gone"}]
      /\ total \in [Turns -> Int] /\ charged \in [Turns -> [Classes -> Int]]
      /\ classBytes \in [Classes -> Int] /\ turnReaders \in [Turns -> Nat]
      /\ activeByPhase \in [Phases -> Int]
  BY DEF BooksInv, Books, TypeOK, AdmissionOK, BytesOK, MarksOK
<1>1. /\ pc' = [pc EXCEPT ![t] = "closed"] /\ t \in Holding /\ Holding' = Holding \ {t}
      /\ held' = held /\ leases' = leases /\ readers' = readers /\ phase' = phase
      /\ total' = [total EXCEPT ![t] = 0]
      /\ charged' = [charged EXCEPT ![t] = [c \in Classes |-> 0]]
      /\ turnReaders' = [turnReaders EXCEPT ![t] = 0]
      /\ processBytes' = processBytes - total[t]
      /\ classBytes' = [c \in Classes |-> classBytes[c] - charged[t][c]]
      /\ activeReaders' = activeReaders - turnReaders[t]
      /\ activeByPhase' = [p \in Phases |-> activeByPhase[p] - InPhase(p, phase[t])]
  BY <1>0 DEF Close, Holding, holdVars
<1>2. IsFiniteSet(Holding) /\ IsFiniteSet(Holding \ {t}) /\ Holding \subseteq Turns
  BY FiniteTurns, FS_RemoveElement DEF Holding
<1>3. Counts
  BY BooksAreCounts DEF BooksInv
<1>4. BooksBalance'
  <2>1. processBytes' = SumFunctionOnSet(total', Holding')
    <3>1. SumFunctionOnSet(total', Holding \ {t}) = SumFunctionOnSet(total, Holding \ {t})
      <4>1. \A u \in Holding \ {t} : total'[u] = total[u]
        BY <1>0, <1>1, <1>2
      <4> QED BY <1>2, <4>1, SumAgrees
    <3>2. SumFunctionOnSet(total, Holding) = total[t] + SumFunctionOnSet(total, Holding \ {t})
      BY <1>0, <1>1, <1>2, SumTakes
    <3>3. SumFunctionOnSet(total, Holding \ {t}) \in Int
      BY <1>0, <1>2, SumInt
    <3>4. processBytes = SumFunctionOnSet(total, Holding)
      BY <1>0, BooksInWords
    <3> QED BY <1>0, <1>1, <3>1, <3>2, <3>3, <3>4
  <2>2. activeReaders' = SumFunctionOnSet(readers', Holding')
    <3>1. \A u \in Turns : readers[u] \in Int
      BY <1>0 DEF TypeOK, MarksOK
    <3>2. SumFunctionOnSet(readers, Holding)
            = readers[t] + SumFunctionOnSet(readers, Holding \ {t})
      BY <1>1, <1>2, <3>1, SumTakes
    <3>3. SumFunctionOnSet(readers, Holding \ {t}) \in Int
      BY <1>2, <3>1, SumInt
    <3>4. activeReaders = SumFunctionOnSet(readers, Holding) /\ turnReaders[t] = readers[t]
      BY <1>0, <1>1, BooksInWords DEF TurnBooks
    <3> QED BY <1>1, <3>1, <3>2, <3>3, <3>4
  <2>3. ASSUME NEW c \in Classes
        PROVE  classBytes'[c] = SumFunctionOnSet(ByClass(c)', Holding')
    <3> DEFINE f == ByClass(c)
               e == [u \in Turns |-> charged'[u][c]]
    <3>0. /\ \A u \in Turns : f[u] \in Int
          /\ \A u \in Holding \ {t} : e[u] = f[u]
          /\ f[t] = charged[t][c] /\ ByClass(c)' = e
      BY <1>0, <1>1, <1>2 DEF ByClass
    <3>1. classBytes[c] = SumFunctionOnSet(f, Holding)
      BY <1>0, BooksInWords
    <3>2. classBytes'[c] = classBytes[c] - charged[t][c]
      BY <1>1
    <3> HIDE DEF f, e
    <3>3. SumFunctionOnSet(e, Holding \ {t}) = SumFunctionOnSet(f, Holding \ {t})
      BY <1>2, <3>0, SumAgrees
    <3>4. SumFunctionOnSet(f, Holding) = f[t] + SumFunctionOnSet(f, Holding \ {t})
      BY <1>1, <1>2, <3>0, SumTakes
    <3>5. SumFunctionOnSet(f, Holding \ {t}) \in Int
      BY <1>2, <3>0, SumInt
    <3>6. f[t] \in Int
      BY <3>0
    <3>7. ByClass(c)' = e
      BY <3>0
    <3>8. f[t] = charged[t][c]
      BY <3>0
    <3> QED BY <1>1, <3>1, <3>2, <3>3, <3>4, <3>5, <3>6, <3>7, <3>8
  <2>4. ASSUME NEW p \in Phases
        PROVE  activeByPhase'[p] = Cardinality({u \in Holding' : phase'[u] = p})
    <3> DEFINE P == {u \in Holding : phase[u] = p}
    <3>1. activeByPhase[p] = Cardinality(P) /\ IsFiniteSet(P)
      BY <1>0, <1>2, BooksInWords, FS_Subset
    <3>2. activeByPhase'[p] = activeByPhase[p] - InPhase(p, phase[t])
      BY <1>1
    <3>3. {u \in Holding' : phase'[u] = p} = P \ {t}
      BY <1>1
    <3>4. t \in P <=> phase[t] = p
      BY <1>1
    <3> HIDE DEF P
    <3>5. Cardinality(P \ {t}) = IF t \in P THEN Cardinality(P) - 1 ELSE Cardinality(P)
      BY <3>1, FS_RemoveElement
    <3>6. activeByPhase[p] \in Int
      BY <1>0
    <3>7. activeByPhase'[p] = Cardinality(P \ {t})
      <4>1. CASE phase[t] = p
        BY <3>1, <3>2, <3>4, <3>5, <4>1 DEF InPhase
      <4>2. CASE phase[t] # p
        BY <3>1, <3>2, <3>4, <3>5, <3>6, <4>2 DEF InPhase
      <4> QED BY <4>1, <4>2
    <3> QED BY <3>3, <3>7
  <2> QED BY <2>1, <2>2, <2>3, <2>4, BooksInWordsNext
<1>5. ChargedForHeld'
  <2> SUFFICES ASSUME NEW u \in Holding', NEW c \in Classes
               PROVE  charged'[u][c] = SumFunctionOnSet(Weights(u, c)', Sizes)
    BY BooksInWordsNext
  <2>1. Weights(u, c)' = Weights(u, c)
    BY <1>1 DEF Weights, Lease
  <2>2. u \in Holding /\ u # t /\ charged'[u][c] = charged[u][c]
    BY <1>0, <1>1, <1>2
  <2> QED BY <1>0, <2>1, <2>2, BooksInWords
<1>6. TurnBooks'
  <2>1. ASSUME NEW u \in Holding'
        PROVE  total'[u] = SumFunction(charged'[u]) /\ turnReaders'[u] = readers'[u]
    <3>1. u \in Holding /\ u # t /\ u \in Turns
      BY <1>1, <1>2
    <3>2. total'[u] = total[u] /\ charged'[u] = charged[u] /\ turnReaders'[u] = turnReaders[u]
      BY <1>0, <1>1, <3>1
    <3> QED BY <1>0, <1>1, <3>1, <3>2 DEF TurnBooks
  <2>2. ASSUME NEW u \in Turns \ Holding'
        PROVE  /\ total'[u] = 0 /\ turnReaders'[u] = 0
               /\ \A c \in Classes : charged'[u][c] = 0
    BY <1>0, <1>1 DEF TurnBooks
  <2> QED BY <2>1, <2>2 DEF TurnBooks
<1>7. FreshTurns'
  BY <1>0, <1>1 DEF FreshTurns, Opened
<1>8. UpperLimits'
  <2>1. total[t] \in Nat /\ processBytes \in Nat
    BY <1>3 DEF Counts
  <2>2. \A c \in Classes : charged[t][c] \in Nat /\ classBytes[c] \in Nat
    BY <1>3 DEF Counts
  <2> QED BY <1>0, <1>1, <2>1, <2>2, LimitsAssumption DEF UpperLimits
<1> QED BY <1>4, <1>5, <1>6, <1>7, <1>8 DEF BooksInv, Books

(* How what is held of a turn can move: by k reservations or leases of n bytes. *)
HoldMoves(t, class, n, k) ==
    \/ held' = [held EXCEPT ![t][class][n] = @ + k] /\ leases' = leases
    \/ class = AccClass /\ leases' = [leases EXCEPT ![t][n] = @ + k] /\ held' = held

(* Then the weights of that class of that turn move by k times n bytes. *)
LEMMA WeightsMove ==
    ASSUME TypeOK, NEW t \in Turns, NEW class \in Classes, NEW n \in Sizes, NEW k \in {1, -1},
           HoldMoves(t, class, n, k)
    PROVE  /\ \A u \in Turns, c \in Classes :
                  u # t \/ c # class => Weights(u, c)' = Weights(u, c)
           /\ SumFunctionOnSet(Weights(t, class)', Sizes)
                = SumFunctionOnSet(Weights(t, class), Sizes) + n * k
<1>0. /\ held \in [Turns -> [Classes -> [Sizes -> Nat]]] /\ leases \in [Turns -> [Sizes -> Nat]]
      /\ n \in Nat /\ k \in Int /\ Sizes \subseteq Nat /\ IsFiniteSet(Sizes)
  BY LimitsAssumption DEF TypeOK, HoldsOK
<1>1. ASSUME NEW u \in Turns, NEW c \in Classes, NEW m \in Sizes
      PROVE  /\ held'[u][c][m] + Lease(u, c, m)' =
                  IF u = t /\ c = class /\ m = n
                  THEN (held[u][c][m] + Lease(u, c, m)) + k
                  ELSE held[u][c][m] + Lease(u, c, m)
             /\ held[u][c][m] \in Nat /\ Lease(u, c, m) \in Nat
  <2>1. held[u][c][m] \in Nat /\ leases[u][m] \in Nat /\ Lease(u, c, m) \in Nat
    BY <1>0 DEF Lease
  <2>2. CASE held' = [held EXCEPT ![t][class][n] = @ + k] /\ leases' = leases
    <3>1. Lease(u, c, m)' = Lease(u, c, m)
      BY <2>2 DEF Lease
    <3>2. held'[u][c][m] = IF u = t /\ c = class /\ m = n THEN held[u][c][m] + k
                           ELSE held[u][c][m]
      BY <1>0, <2>2
    <3> QED BY <1>0, <2>1, <3>1, <3>2
  <2>3. CASE class = AccClass /\ leases' = [leases EXCEPT ![t][n] = @ + k] /\ held' = held
    <3>1. leases'[u][m] = IF u = t /\ m = n THEN leases[u][m] + k ELSE leases[u][m]
      BY <1>0, <2>3
    <3> QED BY <1>0, <2>1, <2>3, <3>1 DEF Lease
  <2> QED BY <2>1, <2>2, <2>3 DEF HoldMoves
<1>2. ASSUME NEW u \in Turns, NEW c \in Classes, u # t \/ c # class
      PROVE  Weights(u, c)' = Weights(u, c)
  <2>1. \A m \in Sizes : held'[u][c][m] + Lease(u, c, m)' = held[u][c][m] + Lease(u, c, m)
    BY <1>1, <1>2
  <2> QED BY <2>1 DEF Weights
<1>3. SumFunctionOnSet(Weights(t, class)', Sizes)
        = SumFunctionOnSet(Weights(t, class), Sizes) + n * k
  <2> DEFINE f == Weights(t, class)
             e == [m \in Sizes |-> m * (held'[t][class][m] + Lease(t, class, m)')]
             a == held[t][class][n] + Lease(t, class, n)
  <2>0. e = Weights(t, class)'
    BY DEF Weights
  <2>1. a \in Nat
    BY <1>1
  <2>2. f[n] = n * a /\ e[n] = n * (a + k)
    BY <1>1 DEF Weights
  <2>3. \A m \in Sizes : m # n => e[m] = f[m]
    BY <1>1 DEF Weights
  <2>4. \A m \in Sizes : f[m] \in Int
    <3> SUFFICES ASSUME NEW m \in Sizes PROVE f[m] \in Int
      OBVIOUS
    <3> DEFINE b == held[t][class][m] + Lease(t, class, m)
    <3>1. b \in Int /\ m \in Int /\ f[m] = m * b
      BY <1>0, <1>1 DEF Weights
    <3> HIDE DEF b, f
    <3> QED BY <3>1
  <2> HIDE DEF a, e, f
  <2>5. n * (a + k) = n * a + n * k /\ n * a \in Int /\ n * k \in Int
    BY <1>0, <2>1
  <2>6. SumFunctionOnSet(e, Sizes) = SumFunctionOnSet(f, Sizes) + (e[n] - f[n])
    <3>1. e[n] \in Int
      BY <2>2, <2>5
    <3> QED BY <1>0, <2>3, <2>4, <3>1, SumMoves
  <2>7. SumFunctionOnSet(f, Sizes) \in Int
    BY <1>0, <2>4, SumInt
  <2>8. e[n] - f[n] = n * k
    BY <2>2, <2>5
  <2> QED BY <2>0, <2>6, <2>7, <2>8 DEF f
<1> QED BY <1>2, <1>3

(* Nobody but a turn that was granted has anything, before and after. *)
LEMMA HoldMovesFresh ==
    ASSUME TypeOK, FreshTurns, NEW t \in Turns, Opened(t), NEW class \in Classes,
           NEW n \in Sizes, NEW k, HoldMoves(t, class, n, k),
           pc' = pc, readers' = readers, phase' = phase
    PROVE  FreshTurns'
<1>1. ASSUME NEW u \in Turns, u # t PROVE held'[u] = held[u] /\ leases'[u] = leases[u]
  BY <1>1 DEF TypeOK, HoldsOK, HoldMoves
<1> QED BY <1>1 DEF FreshTurns, Opened

(* Bytes that come or go with a reservation or a lease of a turn that is out. *)
LEMMA AccountBooks ==
    ASSUME BooksInv, TypeOK', NEW t \in Holding, NEW class \in Classes, NEW n \in Sizes,
           NEW k \in {1, -1}, HoldMoves(t, class, n, k), Account(t, class, n * k),
           UNCHANGED <<admissionVars, readerVars, phaseVars>>,
           k = 1 => Fits(t, class, n)
    PROVE  BooksInv'
<1> DEFINE d == n * k
<1>0. /\ TypeOK /\ BooksBalance /\ ChargedForHeld /\ TurnBooks /\ FreshTurns /\ UpperLimits
      /\ total \in [Turns -> Int] /\ charged \in [Turns -> [Classes -> Int]]
      /\ classBytes \in [Classes -> Int] /\ processBytes \in Int
      /\ t \in Turns /\ pc[t] = "held"
  BY DEF BooksInv, Books, TypeOK, BytesOK, Holding
<1>1. n \in Nat /\ n > 0 /\ d \in Int /\ (k = 1 => d = n) /\ (k = -1 => d < 0)
  BY LimitsAssumption
<1>2. /\ total' = [total EXCEPT ![t] = total[t] + d]
      /\ charged' = [charged EXCEPT ![t][class] = charged[t][class] + d]
      /\ processBytes' = processBytes + d
      /\ classBytes' = [classBytes EXCEPT ![class] = classBytes[class] + d]
      /\ pc' = pc /\ readers' = readers /\ phase' = phase /\ activeReaders' = activeReaders
      /\ turnReaders' = turnReaders /\ activeByPhase' = activeByPhase /\ Holding' = Holding
  BY DEF Account, admissionVars, readerVars, phaseVars, Holding
<1> HIDE DEF d
<1>3. IsFiniteSet(Holding) /\ Holding \subseteq Turns /\ IsFiniteSet(Classes)
  BY FiniteTurns, LimitsAssumption DEF Holding
<1>4. /\ \A u \in Turns : total'[u] = IF u = t THEN total[u] + d ELSE total[u]
      /\ \A u \in Turns, c \in Classes : charged'[u][c] =
            IF u = t /\ c = class THEN charged[u][c] + d ELSE charged[u][c]
      /\ \A u \in Turns : u # t => charged'[u] = charged[u]
      /\ \A c \in Classes : classBytes'[c] =
            IF c = class THEN classBytes[c] + d ELSE classBytes[c]
  BY <1>0, <1>2
<1>5. BooksBalance'
  <2>1. processBytes' = SumFunctionOnSet(total', Holding')
    <3>1. /\ \A u \in Holding : total[u] \in Int
          /\ total'[t] \in Int /\ total'[t] - total[t] = d
          /\ \A u \in Holding : u # t => total'[u] = total[u]
      BY <1>0, <1>1, <1>3, <1>4
    <3>2. SumFunctionOnSet(total', Holding)
            = SumFunctionOnSet(total, Holding) + (total'[t] - total[t])
      BY <1>3, <3>1, SumMoves
    <3>3. processBytes = SumFunctionOnSet(total, Holding)
      BY <1>0, BooksInWords
    <3> QED BY <1>2, <3>1, <3>2, <3>3
  <2>2. activeReaders' = SumFunctionOnSet(readers', Holding')
    BY <1>0, <1>2, BooksInWords
  <2>3. ASSUME NEW c \in Classes
        PROVE  classBytes'[c] = SumFunctionOnSet(ByClass(c)', Holding')
    <3> DEFINE f == ByClass(c)
               e == [u \in Turns |-> charged'[u][c]]
    <3>1. /\ \A u \in Turns : f[u] = charged[u][c] /\ f[u] \in Int /\ e[u] = charged'[u][c]
          /\ ByClass(c)' = e
      BY <1>0 DEF ByClass
    <3>2. classBytes[c] = SumFunctionOnSet(f, Holding)
      BY <1>0, BooksInWords
    <3> HIDE DEF f, e
    <3>3. CASE c = class
      <4>1. e[t] = f[t] + d /\ e[t] \in Int /\ e[t] - f[t] = d
        BY <1>0, <1>1, <1>4, <3>1, <3>3
      <4>2. \A u \in Holding : f[u] \in Int /\ (u # t => e[u] = f[u])
        BY <1>3, <1>4, <3>1
      <4>3. SumFunctionOnSet(e, Holding) = SumFunctionOnSet(f, Holding) + (e[t] - f[t])
        BY <1>3, <4>1, <4>2, SumMoves
      <4> QED BY <1>2, <1>4, <3>1, <3>2, <3>3, <4>1, <4>3
    <3>4. CASE c # class
      <4>1. \A u \in Holding : e[u] = f[u]
        BY <1>3, <1>4, <3>1, <3>4
      <4>2. SumFunctionOnSet(e, Holding) = SumFunctionOnSet(f, Holding)
        BY <1>3, <4>1, SumAgrees
      <4> QED BY <1>2, <1>4, <3>1, <3>2, <3>4, <4>2
    <3> QED BY <3>3, <3>4
  <2>4. \A p \in Phases :
           activeByPhase'[p] = Cardinality({u \in Holding' : phase'[u] = p})
    BY <1>0, <1>2, BooksInWords
  <2> QED BY <2>1, <2>2, <2>3, <2>4, BooksInWordsNext
<1>6. /\ \A u \in Turns, c \in Classes : u # t \/ c # class => Weights(u, c)' = Weights(u, c)
      /\ SumFunctionOnSet(Weights(t, class)', Sizes)
            = SumFunctionOnSet(Weights(t, class), Sizes) + d
  BY <1>0, WeightsMove DEF d
<1>7. ChargedForHeld'
  <2> SUFFICES ASSUME NEW u \in Holding, NEW c \in Classes
               PROVE  charged'[u][c] = SumFunctionOnSet(Weights(u, c)', Sizes)
    BY <1>2, BooksInWordsNext
  <2>1. charged[u][c] = SumFunctionOnSet(Weights(u, c), Sizes) /\ u \in Turns
    BY <1>0, <1>3, BooksInWords
  <2>2. CASE u = t /\ c = class
    BY <1>4, <1>6, <2>1, <2>2
  <2>3. CASE u # t \/ c # class
    <3>1. Weights(u, c)' = Weights(u, c)
      BY <1>6, <2>1, <2>3
    <3> QED BY <1>4, <2>1, <2>3, <3>1
  <2> QED BY <2>2, <2>3
<1>8. TurnBooks'
  <2>1. total'[t] = SumFunction(charged'[t])
    <3> DEFINE f == charged[t]
               e == charged'[t]
    <3>1. DOMAIN f = Classes /\ DOMAIN e = Classes /\ total[t] = SumFunction(f)
      BY <1>0, <1>2 DEF TurnBooks
    <3>2. /\ e[class] - f[class] = d /\ e[class] \in Int
          /\ \A c \in Classes : f[c] \in Int /\ (c # class => e[c] = f[c])
      BY <1>0, <1>1, <1>4
    <3>3. total'[t] = total[t] + d
      BY <1>0, <1>4
    <3> HIDE DEF f, e
    <3>4. SumFunctionOnSet(e, Classes)
            = SumFunctionOnSet(f, Classes) + (e[class] - f[class])
      BY <1>3, <3>2, SumMoves
    <3>5. total'[t] = SumFunction(e)
      BY <3>1, <3>2, <3>3, <3>4 DEF SumFunction
    <3> QED BY <3>5 DEF e
  <2>2. ASSUME NEW u \in Holding, u # t
        PROVE  total'[u] = SumFunction(charged'[u])
    <3>1. total'[u] = total[u] /\ charged'[u] = charged[u]
      BY <1>3, <1>4, <2>2
    <3> QED BY <1>0, <3>1 DEF TurnBooks
  <2>3. ASSUME NEW u \in Turns \ Holding
        PROVE  total'[u] = 0 /\ \A c \in Classes : charged'[u][c] = 0
    BY <1>0, <1>4 DEF TurnBooks
  <2> QED BY <1>0, <1>2, <2>1, <2>2, <2>3 DEF TurnBooks
<1>9. FreshTurns'
  <2>1. Opened(t)
    BY <1>0 DEF Opened
  <2> QED BY <1>0, <1>2, <2>1, HoldMovesFresh
<1>10. UpperLimits'
  <2>1. CASE k = 1
    BY <1>0, <1>1, <1>2, <1>4, <2>1, LimitsAssumption DEF UpperLimits, Fits
  <2>2. CASE k = -1
    <3>1. processBytes' <= MaxProcessBytes
      BY <1>0, <1>1, <1>2, <2>2, LimitsAssumption DEF UpperLimits
    <3>2. ASSUME NEW u \in Turns PROVE total'[u] <= MaxTurnBytes
      <4>1. total[u] \in Int /\ total[u] <= MaxTurnBytes /\ MaxTurnBytes \in Int
        BY <1>0, LimitsAssumption DEF UpperLimits
      <4> QED BY <1>1, <1>4, <2>2, <4>1
    <3>3. ASSUME NEW c \in Classes, ClassBytes[c] > 0 PROVE classBytes'[c] <= ClassBytes[c]
      <4>1. classBytes[c] \in Int /\ classBytes[c] <= ClassBytes[c] /\ ClassBytes[c] \in Int
        BY <1>0, <3>3, LimitsAssumption DEF UpperLimits
      <4> QED BY <1>1, <1>4, <2>2, <4>1
    <3> QED BY <3>1, <3>2, <3>3 DEF UpperLimits
  <2> QED BY <2>1, <2>2
<1> QED BY <1>5, <1>7, <1>8, <1>9, <1>10 DEF BooksInv, Books

(* What outlives a closed turn is released without touching the books. *)
LEMMA LateBooks ==
    ASSUME BooksInv, TypeOK', NEW t \in Turns \ Holding, Opened(t), NEW class \in Classes,
           NEW n \in Sizes, NEW k \in {1, -1}, HoldMoves(t, class, n, k),
           UNCHANGED <<admissionVars, byteVars, readerVars, phaseVars>>
    PROVE  BooksInv'
<1>0. TypeOK /\ BooksBalance /\ ChargedForHeld /\ TurnBooks /\ FreshTurns /\ UpperLimits
  BY DEF BooksInv, Books
<1>1. /\ pc' = pc /\ Holding' = Holding /\ readers' = readers /\ phase' = phase
      /\ total' = total /\ charged' = charged /\ processBytes' = processBytes
      /\ classBytes' = classBytes /\ activeReaders' = activeReaders
      /\ turnReaders' = turnReaders /\ activeByPhase' = activeByPhase
  BY DEF admissionVars, byteVars, readerVars, phaseVars, Holding
<1>2. BooksBalance' /\ TurnBooks' /\ UpperLimits'
  BY <1>0, <1>1 DEF BooksBalance, TurnBooks, UpperLimits
<1>3. ChargedForHeld'
  <2> SUFFICES ASSUME NEW u \in Holding, NEW c \in Classes
               PROVE  charged'[u][c] = SumFunctionOnSet(Weights(u, c)', Sizes)
    BY <1>1, BooksInWordsNext
  <2>1. Weights(u, c)' = Weights(u, c)
    <3>1. u # t /\ u \in Turns
      BY DEF Holding
    <3> QED BY <1>0, <3>1, WeightsMove
  <2> QED BY <1>0, <1>1, <2>1, BooksInWords
<1>4. FreshTurns'
  BY <1>0, <1>1, HoldMovesFresh
<1> QED BY <1>2, <1>3, <1>4 DEF BooksInv, Books

(* Reserve, Release, and the leases of an accumulator. *)
LEMMA BytesBooks ==
    ASSUME BooksInv, TypeOK', NEW t \in Turns, Bytes(t)
    PROVE  BooksInv'
<1> PICK n \in Sizes :
        \/ \E class \in Classes : Reserve(t, class, n) \/ Release(t, class, n)
        \/ AccAppend(t, n) \/ AccRelease(t, n)
  BY DEF Bytes
<1>0. n \in Nat /\ AccClass \in Classes /\ n * 1 = n /\ n * (-1) = -n /\ TypeOK
  BY LimitsAssumption DEF BooksInv, Books
<1>1. PICK class \in Classes, k \in {1, -1} :
        \/ k = 1 /\ (Reserve(t, class, n) \/ (class = AccClass /\ AccAppend(t, n)))
        \/ k = -1 /\ (Release(t, class, n) \/ (class = AccClass /\ AccRelease(t, n)))
  BY <1>0
<1>2. HoldMoves(t, class, n, k) /\ NoMarks /\ UNCHANGED admissionVars
  <2>1. CASE k = 1
    BY <1>1, <2>1 DEF Reserve, AccAppend, HoldMoves
  <2>2. CASE k = -1
    <3>1. \A x \in Nat : x - 1 = x + (-1)
      OBVIOUS
    <3>2. held[t][class][n] \in Nat /\ leases[t][n] \in Nat
      BY <1>0 DEF TypeOK, HoldsOK
    <3>3. CASE Release(t, class, n)
      <4>1. held' = [held EXCEPT ![t][class][n] = held[t][class][n] - 1]
        BY <3>3 DEF Release
      <4>2. held' = [held EXCEPT ![t][class][n] = held[t][class][n] + k]
        BY <2>2, <3>1, <3>2, <4>1
      <4> QED BY <3>3, <4>2 DEF Release, HoldMoves
    <3>4. CASE class = AccClass /\ AccRelease(t, n)
      <4>1. leases' = [leases EXCEPT ![t][n] = leases[t][n] - 1]
        BY <3>4 DEF AccRelease
      <4>2. leases' = [leases EXCEPT ![t][n] = leases[t][n] + k]
        BY <2>2, <3>1, <3>2, <4>1
      <4> QED BY <3>4, <4>2 DEF AccRelease, HoldMoves
    <3> QED BY <1>1, <2>2, <3>3, <3>4
  <2> QED BY <2>1, <2>2
<1>3. UNCHANGED <<admissionVars, readerVars, phaseVars>>
  BY <1>2 DEF NoMarks
<1>4. CASE t \in Holding
  <2>1. pc[t] = "held"
    BY <1>4 DEF Holding
  <2>2. Account(t, class, n * k) /\ (k = 1 => Fits(t, class, n))
    <3>1. CASE k = 1
      <4>1. Account(t, class, n) /\ Fits(t, class, n)
        BY <1>1, <3>1 DEF Reserve, AccAppend
      <4> QED BY <1>0, <3>1, <4>1
    <3>2. CASE k = -1
      <4>1. Account(t, class, -n)
        BY <1>1, <2>1, <3>2 DEF Release, AccRelease, GiveBack
      <4> QED BY <1>0, <3>2, <4>1
    <3> QED BY <3>1, <3>2
  <2> QED BY <1>2, <1>3, <1>4, <2>2, AccountBooks
<1>5. CASE t \notin Holding
  <2>1. pc[t] # "held"
    BY <1>5 DEF Holding
  <2>2. k = -1
    BY <1>1, <2>1 DEF Reserve, AccAppend
  <2>3. UNCHANGED byteVars
    BY <1>1, <2>1, <2>2 DEF Release, AccRelease, GiveBack
  <2>4. Opened(t)
    <3>1. CASE Release(t, class, n)
      BY <3>1 DEF Release
    <3>2. CASE AccRelease(t, n)
      <4>1. leases[t][n] # 0
        BY <1>0, <3>2 DEF AccRelease, TypeOK, HoldsOK
      <4> QED BY <4>1 DEF BooksInv, Books, FreshTurns
    <3> QED BY <1>1, <2>2, <3>1, <3>2
  <2> QED BY <1>2, <1>3, <1>5, <2>3, <2>4, LateBooks
<1> QED BY <1>4, <1>5

(* Readers: the Manager counts one more or one less with the turn's own count. *)
LEMMA ReaderBooks ==
    ASSUME BooksInv, TypeOK', NEW t \in Turns, OpenReader(t) \/ CloseReader(t)
    PROVE  BooksInv'
<1>0. /\ TypeOK /\ BooksBalance /\ ChargedForHeld /\ TurnBooks /\ FreshTurns /\ UpperLimits
      /\ readers \in [Turns -> Nat] /\ turnReaders \in [Turns -> Nat] /\ activeReaders \in Int
  BY DEF BooksInv, Books, TypeOK, MarksOK
<1>1. /\ pc' = pc /\ Holding' = Holding /\ phase' = phase /\ activeByPhase' = activeByPhase
      /\ total' = total /\ charged' = charged /\ processBytes' = processBytes
      /\ classBytes' = classBytes /\ held' = held /\ leases' = leases
  BY DEF OpenReader, CloseReader, NoBytes, admissionVars, byteVars, holdVars, phaseVars, Holding
<1>2. PICK k \in {1, -1} :
        /\ readers' = [readers EXCEPT ![t] = readers[t] + k]
        /\ \/ /\ t \in Holding /\ activeReaders' = activeReaders + k
              /\ turnReaders' = [turnReaders EXCEPT ![t] = turnReaders[t] + k]
           \/ /\ t \notin Holding /\ activeReaders' = activeReaders
              /\ turnReaders' = turnReaders
  <2>1. CASE OpenReader(t)
    <3>1. t \in Holding
      BY <2>1 DEF OpenReader, Holding
    <3> QED BY <2>1, <3>1 DEF OpenReader
  <2>2. CASE CloseReader(t)
    <3>1. /\ readers' = [readers EXCEPT ![t] = readers[t] + (-1)]
          /\ readers[t] > 0 /\ (pc[t] = "held" <=> t \in Holding)
      <4>1. readers' = [readers EXCEPT ![t] = readers[t] - 1] /\ readers[t] > 0
        BY <2>2 DEF CloseReader
      <4>2. readers[t] - 1 = readers[t] + (-1)
        BY <1>0
      <4> QED BY <4>1, <4>2 DEF Holding
    <3>2. CASE t \in Holding
      <4>1. pc[t] = "held" /\ turnReaders[t] > 0
        BY <1>0, <3>1, <3>2 DEF TurnBooks
      <4>2. /\ turnReaders' = [turnReaders EXCEPT ![t] = turnReaders[t] - 1]
            /\ activeReaders' = activeReaders - 1
        BY <2>2, <4>1 DEF CloseReader
      <4>3. turnReaders[t] - 1 = turnReaders[t] + (-1) /\ activeReaders - 1 = activeReaders + (-1)
        BY <1>0
      <4> QED BY <3>1, <3>2, <4>2, <4>3
    <3>3. CASE t \notin Holding
      <4>1. UNCHANGED <<turnReaders, activeReaders>>
        BY <2>2, <3>1, <3>3 DEF CloseReader
      <4> QED BY <3>1, <3>3, <4>1
    <3> QED BY <3>2, <3>3
  <2> QED BY <2>1, <2>2
<1>3. IsFiniteSet(Holding) /\ Holding \subseteq Turns
  BY FiniteTurns DEF Holding
<1>4. /\ readers'[t] = readers[t] + k
      /\ \A u \in Turns : readers[u] \in Int /\ (u # t => readers'[u] = readers[u])
  BY <1>0, <1>2
<1>5. activeReaders' = SumFunctionOnSet(readers', Holding)
  <2>1. activeReaders = SumFunctionOnSet(readers, Holding)
    BY <1>0, BooksInWords
  <2>2. CASE t \in Holding
    <3>1. /\ \A u \in Holding : readers[u] \in Int
          /\ \A u \in Holding : u # t => readers'[u] = readers[u]
          /\ readers'[t] \in Int /\ readers'[t] - readers[t] = k
      BY <1>3, <1>4
    <3>2. SumFunctionOnSet(readers', Holding)
            = SumFunctionOnSet(readers, Holding) + (readers'[t] - readers[t])
      BY <1>3, <2>2, <3>1, SumMoves
    <3> QED BY <1>2, <2>1, <2>2, <3>1, <3>2
  <2>3. CASE t \notin Holding
    <3>1. \A u \in Holding : readers'[u] = readers[u]
      BY <1>3, <1>4, <2>3
    <3>2. SumFunctionOnSet(readers', Holding) = SumFunctionOnSet(readers, Holding)
      BY <1>3, <3>1, SumAgrees
    <3> QED BY <1>2, <2>1, <2>3, <3>2
  <2> QED BY <2>2, <2>3
<1>6. BooksBalance'
  <2>1. \A c \in Classes : ByClass(c)' = ByClass(c)
    BY <1>1 DEF ByClass
  <2> QED BY <1>0, <1>1, <1>5, <2>1, BooksInWords, BooksInWordsNext
<1>7. ChargedForHeld' /\ UpperLimits'
  BY <1>0, <1>1 DEF ChargedForHeld, UpperLimits
<1>8. TurnBooks'
  <2>1. \A u \in Holding : turnReaders'[u] = readers'[u]
    BY <1>0, <1>2, <1>3 DEF TurnBooks
  <2>2. \A u \in Turns \ Holding : turnReaders'[u] = 0
    BY <1>0, <1>2 DEF TurnBooks
  <2> QED BY <1>0, <1>1, <2>1, <2>2 DEF TurnBooks
<1>9. FreshTurns'
  <2>1. Opened(t)
    BY DEF OpenReader, CloseReader, Opened
  <2> QED BY <1>0, <1>1, <1>4, <2>1 DEF FreshTurns, Opened
<1> QED BY <1>6, <1>7, <1>8, <1>9 DEF BooksInv, Books

(* SetPhase moves one turn from one count to the other. *)
LEMMA PhaseBooks ==
    ASSUME BooksInv, TypeOK', NEW t \in Turns, NEW p \in Phases, SetPhase(t, p)
    PROVE  BooksInv'
<1>0. /\ TypeOK /\ BooksBalance /\ ChargedForHeld /\ TurnBooks /\ FreshTurns /\ UpperLimits
      /\ phase \in [Turns -> Phases \cup {NoPhase}] /\ activeByPhase \in [Phases -> Int]
  BY DEF BooksInv, Books, TypeOK, MarksOK
<1>1. /\ pc' = pc /\ Holding' = Holding /\ t \in Holding /\ Opened(t)
      /\ total' = total /\ charged' = charged /\ processBytes' = processBytes
      /\ classBytes' = classBytes /\ held' = held /\ leases' = leases
      /\ readers' = readers /\ turnReaders' = turnReaders /\ activeReaders' = activeReaders
      /\ phase[t] # p /\ phase' = [phase EXCEPT ![t] = p]
      /\ activeByPhase' = [q \in Phases |->
             activeByPhase[q] + InPhase(q, p) - InPhase(q, phase[t])]
  BY DEF SetPhase, NoBytes, admissionVars, byteVars, holdVars, readerVars, Holding, Opened
<1>2. IsFiniteSet(Holding) /\ Holding \subseteq Turns
  BY FiniteTurns DEF Holding
<1>3. ASSUME NEW q \in Phases
      PROVE  activeByPhase'[q] = Cardinality({u \in Holding : phase'[u] = q})
  <2> DEFINE P == {u \in Holding : phase[u] = q}
             Q == {u \in Holding : phase'[u] = q}
  <2>1. activeByPhase[q] = Cardinality(P) /\ IsFiniteSet(P) /\ activeByPhase[q] \in Int
    BY <1>0, <1>2, BooksInWords, FS_Subset
  <2>2. activeByPhase'[q] = activeByPhase[q] + InPhase(q, p) - InPhase(q, phase[t])
    BY <1>1
  <2>3. /\ q = p => Q = P \cup {t} /\ t \notin P
        /\ q # p /\ q = phase[t] => Q = P \ {t} /\ t \in P
        /\ q # p /\ q # phase[t] => Q = P
    BY <1>0, <1>1, <1>2
  <2> HIDE DEF P, Q
  <2>4. activeByPhase'[q] = Cardinality(Q)
    <3>1. CASE q = p
      BY <1>1, <2>1, <2>2, <2>3, <3>1, FS_AddElement DEF InPhase
    <3>2. CASE q # p /\ q = phase[t]
      BY <2>1, <2>2, <2>3, <3>2, FS_RemoveElement DEF InPhase
    <3>3. CASE q # p /\ q # phase[t]
      BY <2>1, <2>2, <2>3, <3>3 DEF InPhase
    <3> QED BY <3>1, <3>2, <3>3
  <2> QED BY <2>4 DEF Q
<1>4. BooksBalance'
  <2>1. \A c \in Classes : ByClass(c)' = ByClass(c)
    BY <1>1 DEF ByClass
  <2> QED BY <1>0, <1>1, <1>3, <2>1, BooksInWords, BooksInWordsNext
<1>5. ChargedForHeld' /\ UpperLimits' /\ TurnBooks'
  BY <1>0, <1>1 DEF ChargedForHeld, UpperLimits, TurnBooks
<1>6. FreshTurns'
  BY <1>0, <1>1 DEF FreshTurns, Opened
<1> QED BY <1>4, <1>5, <1>6 DEF BooksInv, Books

(* Every operation keeps the books. *)
LEMMA BooksStep == BooksInv /\ [Next]_vars => BooksInv'
<1> SUFFICES ASSUME BooksInv, [Next]_vars PROVE BooksInv'
  OBVIOUS
<1>0. TypeOK' /\ TypeOK /\ pc \in [Turns -> {"new", "waiting", "held", "closed", "gone"}]
  BY TypeStep DEF BooksInv, Books, TypeOK, AdmissionOK
<1>1. CASE UNCHANGED <<pc, Entries>>
  <2>1. Holding' = Holding /\ (\A t \in Turns : Opened(t) => Opened(t)') /\ UNCHANGED Entries
    BY <1>1 DEF Holding, Opened
  <2> QED BY <1>0, <2>1, QuietBooks
<1>2. CASE Next
  <2> PICK t \in Turns : Admission(t) \/ Bytes(t) \/ Marks(t)
    BY <1>2 DEF Next
  <2>1. CASE Bytes(t)
    BY <1>0, <2>1, BytesBooks
  <2>2. CASE Close(t)
    BY <1>0, <2>2, CloseBooks
  <2>3. CASE Admission(t) /\ ~Close(t)
    <3>1. UNCHANGED Entries /\ pc[t] \in {"new", "waiting"}
      BY <2>3 DEF Admission, AcquireTurn, TryAcquireTurn, Wake, GiveUp, NoBytes, NoMarks,
         holdVars, Entries
    <3>2. CASE \E w \in {0, 1} : Grant(t, w)
      BY <1>0, <3>1, <3>2, GrantBooks
    <3>3. CASE Sleep(t) \/ Leave(t)
      <4>1. Holding' = Holding /\ \A u \in Turns : Opened(u) => Opened(u)'
        BY <1>0, <3>1, <3>3 DEF Sleep, Leave, Holding, Opened
      <4> QED BY <1>0, <3>1, <4>1, QuietBooks
    <3> QED BY <2>3, <3>2, <3>3 DEF Admission, AcquireTurn, TryAcquireTurn, Wake, GiveUp
  <2>4. CASE OpenReader(t) \/ CloseReader(t)
    BY <1>0, <2>4, ReaderBooks
  <2>5. CASE \E p \in Phases : SetPhase(t, p)
    BY <1>0, <2>5, PhaseBooks
  <2>6. CASE AccClose(t) \/ MarkCommitted(t) \/ StartAttempt(t) \/ EndAttempt(t)
    <3>1. UNCHANGED <<pc, Entries>>
      BY <2>6 DEF AccClose, MarkCommitted, StartAttempt, EndAttempt, NoBytes, NoMarks,
         admissionVars, holdVars, Entries
    <3> QED BY <1>1, <3>1
  <2> QED BY <2>1, <2>2, <2>3, <2>4, <2>5, <2>6 DEF Marks
<1>3. CASE UNCHANGED vars
  <2>1. UNCHANGED <<pc, Entries>>
    BY <1>3 DEF vars, admissionVars, holdVars, Entries
  <2> QED BY <1>1, <2>1
<1> QED BY <1>2, <1>3

(* A Manager that has just been made: no bytes, no readers, nobody in a phase. *)
LEMMA BooksInit == Init => BooksInv
<1> SUFFICES ASSUME Init PROVE BooksInv
  OBVIOUS
<1>1. TypeOK
  <2>1. AdmissionOK
    BY DEF Init, AdmissionOK
  <2>2. BytesOK /\ HoldsOK
    BY DEF Init, BytesOK, HoldsOK
  <2>3. MarksOK
    BY DEF Init, MarksOK
  <2> QED BY <2>1, <2>2, <2>3 DEF TypeOK
<1>2. Holding = {}
  BY DEF Init, Holding
<1>3. BooksBalance /\ ChargedForHeld
  <2>1. SumFunctionOnSet(total, Holding) = 0 /\ SumFunctionOnSet(readers, Holding) = 0
    BY <1>2, SumNothing
  <2>2. \A c \in Classes : SumFunctionOnSet(ByClass(c), Holding) = 0
    BY <1>2, SumNothing
  <2>3. \A p \in Phases : Cardinality({t \in Holding : phase[t] = p}) = 0
    <3>1. \A p \in Phases : {t \in Holding : phase[t] = p} = {}
      BY <1>2
    <3> QED BY <3>1, FS_EmptySet
  <2>4. /\ processBytes = 0 /\ activeReaders = 0
        /\ (\A c \in Classes : classBytes[c] = 0) /\ \A p \in Phases : activeByPhase[p] = 0
    BY DEF Init
  <2> QED BY <1>2, <2>1, <2>2, <2>3, <2>4, BooksInWords
<1>4. TurnBooks
  BY <1>2 DEF Init, TurnBooks
<1>5. FreshTurns
  BY DEF Init, FreshTurns
<1>6. UpperLimits
  BY LimitsAssumption DEF Init, UpperLimits
<1> QED BY <1>1, <1>3, <1>4, <1>5, <1>6 DEF BooksInv, Books

(***************************************************************************)
(* The inductive invariant of the books: what the Manager counts, what     *)
(* each turn counts and what is still held of it agree, whatever           *)
(* operations of however many turns come in whatever order.                *)
(***************************************************************************)
THEOREM BooksInvariant == Spec => []BooksInv
  BY BooksInit, BooksStep, PTL DEF Spec

(***************************************************************************)
(* The totals of the Manager are the sums over the turns that are out: no  *)
(* order of Reserve, Release, Close and readers leaves a byte or a reader  *)
(* counted, or takes one off twice.                                        *)
(***************************************************************************)
THEOREM BooksAlwaysBalance == Spec => []BooksBalance
  BY BooksInvariant, BooksAreWithin, PTL

(***************************************************************************)
(* A turn that is out is charged, class by class, for the reservations not *)
(* released and the leases of its accumulator, and for nothing else.       *)
(***************************************************************************)
THEOREM ChargesAreForHeld == Spec => []ChargedForHeld
  BY BooksInvariant, BooksAreWithin, PTL

(***************************************************************************)
(* The limits of Reserve hold at any time, and no total drops below zero:  *)
(* neither by a release after Close nor by a Close before the releases.    *)
(***************************************************************************)
THEOREM LimitsHold == Spec => []WithinLimits
  BY BooksInvariant, BooksAreWithin, PTL
=============================================================================
