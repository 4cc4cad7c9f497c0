--------------------------- MODULE ResourceBudget ---------------------------
(***************************************************************************)
(* The admission and byte budget of the proxy (internal/resourcebudget):   *)
(* a Manager that grants a bounded number of turns, one per session, with  *)
(* waiters woken by a channel that Close closes and replaces; and the      *)
(* Turns, Reservations, ReaderLeases and Accumulators that account bytes   *)
(* and readers against it.                                                 *)
(*                                                                         *)
(* Every operation is one critical section of Manager.mu, except           *)
(* AcquireTurn, which gives the lock up while it waits, and                *)
(* Accumulator.Close, which releases its leases one by one.  Any goroutine *)
(* may call any operation in any order, on a closed turn too.  A turn is   *)
(* named by the request that acquires it.                                  *)
(***************************************************************************)
EXTENDS Integers, FiniteSets, Functions

CONSTANTS Turns,            \* the requests
          Session,          \* the session of each, or Anonymous (the empty key)
          MaxActiveTurns, MaxProcessBytes, MaxTurnBytes,   \* Limits
          Classes, ClassBytes,  \* Limits.ClassBytes, 0 where there is none
          AccClass,         \* the class of the accumulators
          Sizes,            \* the byte counts reserved
          Phases,
          MaxHeld           \* bound: unreleased reservations, chunks and readers per turn

Anonymous == "anonymous"
NoPhase == "none"

ASSUME LimitsAssumption ==
    /\ IsFiniteSet(Turns) /\ Session \in [Turns -> STRING]
    /\ MaxActiveTurns \in Nat \ {0} /\ MaxProcessBytes \in Nat \ {0}
    /\ MaxTurnBytes \in Nat \ {0}
    /\ ClassBytes \in [Classes -> Nat] /\ AccClass \in Classes /\ IsFiniteSet(Classes)
    /\ Sizes \subseteq Nat \ {0} /\ IsFiniteSet(Sizes)
    /\ NoPhase \notin Phases /\ MaxHeld \in Nat

VARIABLES
    pc,             \* per request: new, waiting, held, closed or gone
    seen,           \* per request: the channel AcquireTurn waits on
    activeTurns, queuedTurns, activeSessions,       \* Manager: admission
    changed,        \* Manager.changed: the number of channels closed before it
    processBytes, classBytes,                       \* Manager: bytes, bytes by class
    total, charged,                                 \* Turn: totalBytes, bytes
    held,           \* per request: reservations not released yet, by class and size
    chunks, leases, accClosed,                      \* the Accumulator of each request
    activeReaders, turnReaders,                     \* Manager and Turn: readers
    readers,        \* per request: reader leases not closed yet
    activeByPhase, phase,                           \* Manager and Turn: phases
    committed, attempting                           \* the turns so marked

admissionVars == <<pc, seen, activeTurns, queuedTurns, activeSessions, changed>>
byteVars == <<processBytes, classBytes, total, charged>>
holdVars == <<held, chunks, leases, accClosed>>
readerVars == <<activeReaders, turnReaders, readers>>
phaseVars == <<activeByPhase, phase>>
markVars == <<committed, attempting>>
vars == <<admissionVars, byteVars, holdVars, readerVars, phaseVars, markVars>>

AdmissionOK ==
    /\ pc \in [Turns -> {"new", "waiting", "held", "closed", "gone"}]
    /\ seen \in [Turns -> Nat]
    /\ activeTurns \in Int /\ queuedTurns \in Int /\ changed \in Nat
    /\ activeSessions \subseteq STRING

BytesOK ==
    /\ processBytes \in Int /\ classBytes \in [Classes -> Int]
    /\ total \in [Turns -> Int] /\ charged \in [Turns -> [Classes -> Int]]

HoldsOK ==
    /\ held \in [Turns -> [Classes -> [Sizes -> Nat]]]
    /\ chunks \in [Turns -> Nat] /\ leases \in [Turns -> [Sizes -> Nat]]
    /\ accClosed \subseteq Turns

MarksOK ==
    /\ activeReaders \in Int /\ turnReaders \in [Turns -> Nat] /\ readers \in [Turns -> Nat]
    /\ activeByPhase \in [Phases -> Int] /\ phase \in [Turns -> Phases \cup {NoPhase}]
    /\ committed \subseteq Turns /\ attempting \subseteq Turns

TypeOK == AdmissionOK /\ BytesOK /\ HoldsOK /\ MarksOK

Init ==
    /\ pc = [t \in Turns |-> "new"] /\ seen = [t \in Turns |-> 0]
    /\ activeTurns = 0 /\ queuedTurns = 0 /\ activeSessions = {} /\ changed = 0
    /\ processBytes = 0 /\ classBytes = [c \in Classes |-> 0]
    /\ total = [t \in Turns |-> 0] /\ charged = [t \in Turns |-> [c \in Classes |-> 0]]
    /\ held = [t \in Turns |-> [c \in Classes |-> [n \in Sizes |-> 0]]]
    /\ chunks = [t \in Turns |-> 0] /\ leases = [t \in Turns |-> [n \in Sizes |-> 0]]
    /\ accClosed = {}
    /\ activeReaders = 0 /\ turnReaders = [t \in Turns |-> 0]
    /\ readers = [t \in Turns |-> 0]
    /\ activeByPhase = [p \in Phases |-> 0] /\ phase = [t \in Turns |-> NoPhase]
    /\ committed = {} /\ attempting = {}

-----------------------------------------------------------------------------
(* Mutant: the session may hold a turn already. *)
GrantableAnySession(t) == activeTurns < MaxActiveTurns

(***************************************************************************)
(* Turns.  queuedTurns and budgetWaiters always change together and are    *)
(* one variable here.                                                      *)
(***************************************************************************)
Grantable(t) == Session[t] \notin activeSessions /\ activeTurns < MaxActiveTurns

Grant(t, waiters) ==
    /\ Grantable(t)
    /\ pc' = [pc EXCEPT ![t] = "held"]
    /\ activeTurns' = activeTurns + 1
    /\ queuedTurns' = queuedTurns - waiters
    /\ activeSessions' = activeSessions \cup ({Session[t]} \ {Anonymous})
    /\ UNCHANGED <<seen, changed>>

(* The channel is taken under the lock that saw no turn free. *)
Sleep(t) ==
    /\ ~Grantable(t)
    /\ seen' = [seen EXCEPT ![t] = changed]
    /\ pc' = [pc EXCEPT ![t] = "waiting"]
    /\ UNCHANGED <<activeTurns, activeSessions, changed>>

Leave(t) ==
    /\ pc' = [pc EXCEPT ![t] = "gone"]
    /\ UNCHANGED <<seen, activeTurns, activeSessions, changed>>

NoBytes == UNCHANGED <<byteVars, holdVars>>
NoMarks == UNCHANGED <<readerVars, phaseVars, markVars>>

(* AcquireTurn: at once, or queue up behind the channel of this moment. *)
AcquireTurn(t) ==
    /\ pc[t] = "new"
    /\ Grant(t, 0) \/ (Sleep(t) /\ queuedTurns' = queuedTurns + 1)
    /\ NoBytes /\ NoMarks

(* The channel was closed: try again, or wait on the one that replaced it. *)
Wake(t) ==
    /\ pc[t] = "waiting" /\ seen[t] # changed
    /\ Grant(t, 1) \/ (Sleep(t) /\ UNCHANGED queuedTurns)
    /\ NoBytes /\ NoMarks

(* The context of a waiting request is done. *)
GiveUp(t) ==
    /\ pc[t] = "waiting"
    /\ Leave(t) /\ queuedTurns' = queuedTurns - 1
    /\ NoBytes /\ NoMarks

TryAcquireTurn(t) ==
    /\ pc[t] = "new"
    /\ Grant(t, 0) \/ (~Grantable(t) /\ Leave(t) /\ UNCHANGED queuedTurns)
    /\ NoBytes /\ NoMarks

(* Mutant: nobody is woken. *)
SignalNobody == UNCHANGED changed

(* signalLocked: close the channel that the waiters hold and replace it. *)
SignalLocked == changed' = changed + 1

InPhase(p, q) == IF p = q THEN 1 ELSE 0

(* Mutant: the readers of the turn stay counted. *)
CloseKeepingReaders(t) ==
    /\ pc[t] = "held"
    /\ pc' = [pc EXCEPT ![t] = "closed"]
    /\ activeByPhase' = [p \in Phases |-> activeByPhase[p] - InPhase(p, phase[t])]
    /\ classBytes' = [c \in Classes |-> classBytes[c] - charged[t][c]]
    /\ processBytes' = processBytes - total[t]
    /\ turnReaders' = [turnReaders EXCEPT ![t] = 0]
    /\ total' = [total EXCEPT ![t] = 0]
    /\ charged' = [charged EXCEPT ![t] = [c \in Classes |-> 0]]
    /\ activeSessions' = activeSessions \ ({Session[t]} \ {Anonymous})
    /\ activeTurns' = activeTurns - 1
    /\ SignalLocked
    /\ UNCHANGED <<activeReaders, seen, queuedTurns, holdVars, readers, phase, markVars>>

(* Turn.Close: give everything back at once and wake every waiter. *)
Close(t) ==
    /\ pc[t] = "held"
    /\ pc' = [pc EXCEPT ![t] = "closed"]
    /\ activeByPhase' = [p \in Phases |-> activeByPhase[p] - InPhase(p, phase[t])]
    /\ classBytes' = [c \in Classes |-> classBytes[c] - charged[t][c]]
    /\ processBytes' = processBytes - total[t]
    /\ activeReaders' = activeReaders - turnReaders[t]
    /\ turnReaders' = [turnReaders EXCEPT ![t] = 0]
    /\ total' = [total EXCEPT ![t] = 0]
    /\ charged' = [charged EXCEPT ![t] = [c \in Classes |-> 0]]
    /\ activeSessions' = activeSessions \ ({Session[t]} \ {Anonymous})
    /\ activeTurns' = activeTurns - 1
    /\ SignalLocked
    /\ UNCHANGED <<seen, queuedTurns, holdVars, readers, phase, markVars>>

Opened(t) == pc[t] \in {"held", "closed"}

-----------------------------------------------------------------------------
(* Mutant: the limits are compared before the bytes are added. *)
FitsBefore(t, class, n) ==
    /\ ClassBytes[class] > 0 => classBytes[class] <= ClassBytes[class]
    /\ total[t] <= MaxTurnBytes
    /\ processBytes <= MaxProcessBytes

(***************************************************************************)
(* Bytes.                                                                  *)
(***************************************************************************)
Fits(t, class, n) ==
    /\ ClassBytes[class] > 0 => classBytes[class] + n <= ClassBytes[class]
    /\ total[t] + n <= MaxTurnBytes
    /\ processBytes + n <= MaxProcessBytes

Account(t, class, n) ==
    /\ total' = [total EXCEPT ![t] = @ + n]
    /\ charged' = [charged EXCEPT ![t][class] = @ + n]
    /\ processBytes' = processBytes + n
    /\ classBytes' = [classBytes EXCEPT ![class] = @ + n]

(* A reservation that does not fit, or on a closed turn, is an error. *)
Reserve(t, class, n) ==
    /\ pc[t] = "held" /\ held[t][class][n] < MaxHeld
    /\ Fits(t, class, n) /\ Account(t, class, n)
    /\ held' = [held EXCEPT ![t][class][n] = @ + 1]
    /\ NoMarks /\ UNCHANGED <<admissionVars, chunks, leases, accClosed>>

(* The bytes of a closed turn were given back by Close. *)
GiveBack(t, class, n) ==
    IF pc[t] = "held" THEN Account(t, class, -n) ELSE UNCHANGED byteVars

(* Mutant: the bytes of a released reservation stay charged. *)
ReleaseKeepingBytes(t, class, n) ==
    /\ Opened(t) /\ held[t][class][n] > 0
    /\ held' = [held EXCEPT ![t][class][n] = @ - 1]
    /\ NoMarks /\ UNCHANGED <<admissionVars, byteVars, chunks, leases, accClosed>>

Release(t, class, n) ==
    /\ Opened(t) /\ held[t][class][n] > 0
    /\ GiveBack(t, class, n)
    /\ held' = [held EXCEPT ![t][class][n] = @ - 1]
    /\ NoMarks /\ UNCHANGED <<admissionVars, chunks, leases, accClosed>>

(***************************************************************************)
(* Accumulator.  A chunk is kept only when its bytes could be reserved.    *)
(***************************************************************************)
AccAppend(t, n) ==
    /\ pc[t] = "held" /\ t \notin accClosed /\ leases[t][n] < MaxHeld
    /\ Fits(t, AccClass, n) /\ Account(t, AccClass, n)
    /\ chunks' = [chunks EXCEPT ![t] = @ + n]
    /\ leases' = [leases EXCEPT ![t][n] = @ + 1]
    /\ NoMarks /\ UNCHANGED <<admissionVars, held, accClosed>>

AccClose(t) ==
    /\ Opened(t) /\ t \notin accClosed
    /\ accClosed' = accClosed \cup {t}
    /\ chunks' = [chunks EXCEPT ![t] = 0]
    /\ NoMarks /\ UNCHANGED <<admissionVars, byteVars, held, leases>>

AccRelease(t, n) ==
    /\ t \in accClosed /\ leases[t][n] > 0
    /\ GiveBack(t, AccClass, n)
    /\ leases' = [leases EXCEPT ![t][n] = @ - 1]
    /\ NoMarks /\ UNCHANGED <<admissionVars, held, chunks, accClosed>>

-----------------------------------------------------------------------------
(***************************************************************************)
(* Readers, phases and attempts.                                           *)
(***************************************************************************)
OpenReader(t) ==
    /\ pc[t] = "held" /\ readers[t] < MaxHeld
    /\ readers' = [readers EXCEPT ![t] = @ + 1]
    /\ turnReaders' = [turnReaders EXCEPT ![t] = @ + 1]
    /\ activeReaders' = activeReaders + 1
    /\ NoBytes /\ UNCHANGED <<admissionVars, phaseVars, markVars>>

CloseReader(t) ==
    /\ Opened(t) /\ readers[t] > 0
    /\ readers' = [readers EXCEPT ![t] = @ - 1]
    /\ IF pc[t] = "held" /\ turnReaders[t] > 0
       THEN /\ turnReaders' = [turnReaders EXCEPT ![t] = @ - 1]
            /\ activeReaders' = activeReaders - 1
       ELSE UNCHANGED <<turnReaders, activeReaders>>
    /\ NoBytes /\ UNCHANGED <<admissionVars, phaseVars, markVars>>

SetPhase(t, p) ==
    /\ pc[t] = "held" /\ phase[t] # p
    /\ phase' = [phase EXCEPT ![t] = p]
    /\ activeByPhase' = [q \in Phases |->
           activeByPhase[q] + InPhase(q, p) - InPhase(q, phase[t])]
    /\ NoBytes /\ UNCHANGED <<admissionVars, readerVars, markVars>>

MarkCommitted(t) ==
    /\ pc[t] = "held" /\ committed' = committed \cup {t}
    /\ NoBytes /\ UNCHANGED <<admissionVars, readerVars, phaseVars, attempting>>

(* StartAttempt after the commit is ErrPostCommitRetry. *)
StartAttempt(t) ==
    /\ pc[t] = "held" /\ t \notin committed /\ attempting' = attempting \cup {t}
    /\ NoBytes /\ UNCHANGED <<admissionVars, readerVars, phaseVars, committed>>

EndAttempt(t) ==
    /\ pc[t] = "held" /\ attempting' = attempting \ {t}
    /\ NoBytes /\ UNCHANGED <<admissionVars, readerVars, phaseVars, committed>>

-----------------------------------------------------------------------------
Admission(t) == AcquireTurn(t) \/ TryAcquireTurn(t) \/ Wake(t) \/ GiveUp(t) \/ Close(t)

Bytes(t) ==
    \E n \in Sizes :
        \/ \E class \in Classes : Reserve(t, class, n) \/ Release(t, class, n)
        \/ AccAppend(t, n) \/ AccRelease(t, n)

Marks(t) ==
    \/ AccClose(t) \/ OpenReader(t) \/ CloseReader(t)
    \/ \E p \in Phases : SetPhase(t, p)
    \/ MarkCommitted(t) \/ StartAttempt(t) \/ EndAttempt(t)

Next == \E t \in Turns : Admission(t) \/ Bytes(t) \/ Marks(t)

Spec == Init /\ [][Next]_vars

(***************************************************************************)
(* Fairness: a request closes its turn in the end (every handler defers    *)
(* turn.Close), and a waiter whose channel was closed runs again.  Nothing *)
(* obliges a waiting request to give up.                                   *)
(***************************************************************************)
LiveSpec == Spec /\ \A t \in Turns : WF_vars(Close(t)) /\ WF_vars(Wake(t))

-----------------------------------------------------------------------------
Holding == {t \in Turns : pc[t] = "held"}
Waiting == {t \in Turns : pc[t] = "waiting"}

(***************************************************************************)
(* No wake-up is lost: a request that sleeps on the current channel really *)
(* cannot be granted a turn now, because its session is busy or every turn *)
(* is taken.  It depends on AcquireTurn taking the channel under the same  *)
(* lock as the refusal, and on every Close replacing it.                   *)
(***************************************************************************)
NoLostWakeup == \A t \in Waiting : seen[t] = changed => ~Grantable(t)

(***************************************************************************)
(* A session has at most one turn, anonymous requests any number, and      *)
(* never more turns are out than the limit allows.                         *)
(***************************************************************************)
TurnsExclusive ==
    /\ Cardinality(Holding) <= MaxActiveTurns
    /\ \A t, u \in Holding : Session[t] = Session[u] /\ Session[t] # Anonymous => t = u

(***************************************************************************)
(* The Manager's counters say how many turns are really out and how many   *)
(* requests really wait, and a session is busy exactly while it holds a    *)
(* turn, however requests are granted, woken, given up and closed.         *)
(***************************************************************************)
AdmissionBalances ==
    /\ activeTurns = Cardinality(Holding)
    /\ queuedTurns = Cardinality(Waiting)
    /\ activeSessions = {Session[t] : t \in Holding} \ {Anonymous}

(***************************************************************************)
(* The books balance: every total of the Manager is the sum over the turns *)
(* that are open, in whatever order turns, reservations, accumulators and  *)
(* reader leases were closed and released.                                 *)
(***************************************************************************)
BooksBalance ==
    /\ processBytes = SumFunctionOnSet(total, Holding)
    /\ activeReaders = SumFunctionOnSet(readers, Holding)
    /\ \A c \in Classes : classBytes[c] =
          SumFunctionOnSet([t \in Turns |-> charged[t][c]], Holding)
    /\ \A p \in Phases : activeByPhase[p] = Cardinality({t \in Holding : phase[t] = p})

(***************************************************************************)
(* What a turn is charged for is what is still held of it: its open        *)
(* reservations and the leases of its accumulator.                         *)
(***************************************************************************)
ChargedForHeld ==
    \A t \in Holding : \A c \in Classes :
        charged[t][c] =
            SumFunction([n \in Sizes |-> n * (held[t][c][n]
                             + IF c = AccClass THEN leases[t][n] ELSE 0)])

(***************************************************************************)
(* No total ever passes its limit or falls below zero.                     *)
(***************************************************************************)
WithinLimits ==
    /\ processBytes \in 0..MaxProcessBytes
    /\ \A t \in Turns : total[t] \in 0..MaxTurnBytes
    /\ \A c \in Classes : classBytes[c] >= 0
          /\ (ClassBytes[c] > 0 => classBytes[c] <= ClassBytes[c])

(***************************************************************************)
(* After the semantic commit no new attempt starts on the turn, and a      *)
(* commit is never taken back.                                             *)
(***************************************************************************)
NoRetryAfterCommit ==
    [][committed \subseteq committed' /\ committed \cap attempting' \subseteq attempting]_vars

(***************************************************************************)
(* A request that waits is granted a turn or gives up: no waiter is left   *)
(* behind when the turns it waited for are closed.                         *)
(***************************************************************************)
WaitersServed == \A t \in Turns : pc[t] = "waiting" ~> pc[t] \in {"held", "closed", "gone"}
=============================================================================
