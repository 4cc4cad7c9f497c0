# Benes in TLA+

Benes is a local proxy in Go between coding agents and model providers, with a
TypeScript dashboard and a release coordinator in TypeScript.  This directory
holds TLA+ models of the parts of it whose correctness depends on the order of
steps of several actors, the TLC configurations that check them, and TLAPS
proofs of their most important properties.  `PROJECT.json` lists the runs, the theorems, the source lines behind
every definition, the mutants that show each property can fail, the hazards the
properties are aimed at, and the disagreements found between code and comments.

    tlc -workers 2 -config FabricClients_faults.cfg FabricClients
    tlc -workers 2 -config ResourceBudget_queue.cfg MCResourceBudget
    tlc -workers 2 -config MCSurfaces_all.cfg MCSurfaces
    tlapm FabricClients_proofs.tla
    tlapm FabricRuntime_proofs.tla
    tlapm ResourceBudget_proofs.tla

## 1. Inventory of the system

| Component | State | Operations | What is hard | Models |
|---|---|---|---|---|
| Fabric task kernel (`internal/sidecar/fabric`) | per task an append-only event log (`store.go`), a lease file with owner and fencing token (`lease.go`), a projection rebuilt from the log (`projection.go`) | create, start/close/fail a run, begin/end a fenced execute, hand authority to one child and back, record progress, initial-input marks, cancel, remove, reconcile, recover orphans | several durable writes per operation with a crash or refusal between any two, and writes that are made and answered with an error; log and lease are two files; stale claims; log capacity | `FabricLog`, `FabricKernel`, `FabricClients`, `FabricAuthority` |
| Fabric live runtime (`internal/server/fabric_runtime.go`, `fabric_delegate.go`, `fabric_api.go`) | registered live runs, in-flight count, shutdown flag, per run the claim, terminal intent and convergence flag | execute, worker, delegation, cancel with/without precondition, shutdown | three mutexes in a fixed order, waits with a timeout, intents that compete, terminals refused by the storage | `FabricRuntime` |
| Resource budget (`internal/resourcebudget`) | turns, sessions, waiters, bytes per class/turn/process, readers, phases | acquire (blocking and not), reserve/release, readers, phases, attempts, close; accumulator | wake-up channel closed and replaced, release after close, limits reached in several orders | `ResourceBudget` |
| Client resource runtime (`gui/src/client-resource.ts`, `client-resource-policy.ts`) | per key a snapshot, a generation, the registered request, the components that watch, a polling pulse; one visibility listener; eviction timers | join, leave, refresh, publish, seed, tick, visibility change, deadline, settle, evict | every `await` lets other callbacks run; replaced requests answer late; the owner of a request unmounts; one listener for all keys | `ClientResource` |
| Codex account pool controller (`gui/src/hooks/useCodexAccountPool.ts`, `codex-account-pool-domain.ts`) | generation of loads, pending active account, gates, snapshot, observers | load (mount, poll, retry, quota top-up, after each mutation), switch, pause, resume, bulk pause, priority, alias, remove, sync after an add | two requests per load, loads overtaking each other, optimistic values against reads, other tabs writing | `CodexPool` |
| Auto-switch card (`gui/src/hooks/useCodexAutoSwitch.ts`, `codex-auto-switch.ts`) | confirmed threshold, draft, held read, revision | read, edit, toggle, commit, bounded PUT | a poll during a save or an edit; a PUT that times out and lands later | `AutoSwitch`, `CodexPool` |
| Rotation card (`gui/src/codex-pool-rotation-machine.ts`, `account-pool-strategy.ts`) | confirmed and visible rotation, revision, and a mirror of it that lags | own reads, the pool's reads, writes, remount | a read begun at a revision that is out of date | `PoolRotation`, `CodexPool` |
| Codex auth API of the proxy (`internal/server/codex_auth_api.go`, `codex_auth_routing.go`) | active account, pin, paused accounts, threshold, rotation | the requests of the cards above | several writers | in `CodexPool` |
| Release coordinator (`scripts/lib/release/`) | branch, CI, registry, staged packages, tags, releases; clones and workflow runs | cut (audit, bump, push, wait for CI, dispatch), publish (snapshot, plan, stage, tag, release, verify), reruns | a branch that moves, a snapshot of several moments, a program that dies between two effects, people who act by hand | `ReleaseLedger`, `Release` |
| Fabric result store (`internal/server/fabric_result_store.go`) | bounded in-memory results | put, get, evict, clear | a late put after shutdown | planned |
| Codex login dialog (`gui/src/components/use-add-codex-account-oauth.ts`, its reducer and decoders) | phase, the flow it holds and watches, the open status read, the pasted code, the open login POST | open to add or to re-authenticate, log in, poll, paste a code, give up after 300 s, close | answers of flows it has left, reads that fail, a close during any of them | `CodexLogin` |
| Login handlers, login owner, checked credential store (`internal/server/codex_auth_login.go`, `internal/oauth/loginown`, `internal/oauth/chatgpt/login.go`, `internal/codexauth/managed_store.go`) | the flows, the slot with its generation, one pending file, the callback listener, credentials, config rows | login, status, code, callback, cancel, commit in five steps | a commit holds no lock over its steps while cancels and newer logins come in; one pending file for all | `CodexLogin` |
| Credential pool, refresh and selection of Codex accounts (`internal/credentialpool`, the rest of `internal/codexauth`) | accounts, cooldowns, tokens | select, refresh, record an outcome | two refreshes at once, stale cooldown | planned |
| Combo walker (`internal/combo`) | position in a fail-over list | next, fail | retry after output | planned |
| Managed files, configuration (`internal/managedfs`, `internal/config`) | journal and files | begin, write, commit, roll back | crash in the middle of a multi-file edit | planned |
| Continuation store, pacing (`internal/responses/continuation`, `internal/transport/pacing.go`) | bounded maps, next free time | put, take, evict; wait | eviction against use | planned, later |
| Sessions, request history, usage ledger | databases and append-only files | append, trim, query | concurrent trim | last, or left to the database |
| Storage maintenance, credentials store, probes, integrations, service control, platform glue | files, services | jobs | almost all input/output | not modelled |
| Protocol translation, providers, router, catalog, registries | none or static tables | conversions and look-ups | data, not control | not modelled |
| The rest of the dashboard (models page, routing profiles, compatibility matrix, translations), command line, developer and evidence scripts | forms, tables, texts | | layout, validation of drafts, text, I/O around a browser | not modelled |

How they interact: an HTTP execute request passes the runtime's admission
(`inflight`), takes a resource turn, begins a fenced run in the kernel
(`BeginExecute`), registers it and starts a worker.  The worker runs the model
turn, may hand the authority to one child and take it back, and ends with one
terminal in the log.  Cancels and the shutdown choose a terminal intent, cancel
the run's context and wait for the worker.  After a restart the first use of the
repository runs `RecoverOrphans`.

What makes each correct:

* kernel: at most one holder of authority whatever claims are still about; a fenced
  run ends only by its own claim; log and lease can disagree only in ways recovery
  understands; the log stays readable; runs do not overlap;
* runtime: success is reported only for durable terminals; one intent decides; no
  slot, turn, lock or registration leaks; a cancel stops only what its
  precondition names; everybody gets out;
* budget: exact books, limits never passed, no lost wake-up, waiters served, no
  retry after a commit;
* client resources: one live request per key, no older value painted over a newer
  one, nobody loses data or is left waiting because somebody else unmounted, timers
  that match the components that are there, spinners that end;
* pool and cards: once nothing is under way the page shows the proxy's state; a read
  never undoes a save or an edit; loads and saves end when the proxy hangs;
* login: what was cancelled does not become done, a superseded login does not write
  over newer tokens, what is reported as added is stored, the dialog leaves a flow for
  a cause and notices when it is done;
* release: only audited commits are staged or published, a version is public once,
  its tag and release name the commit that was published, and what was approved is
  finalized whatever fails in between.

The dashboard talks to the proxy over HTTP only.  The pool controller hands each
read of `/active` to both cards as observers: a read begins with the cards'
revisions and is accepted, deferred or dropped by each when it comes back.  The
release coordinator runs twice, as a maintainer's command and as a workflow, and
shares nothing between the two but the branch, the registry and GitHub.

## 2. Modules

**FabricLog** — the event log as data.  A log is kept as the values the code
computes by scanning it: run state, active run, child, open proposal, latest
committed claim, projection owner and fence, counts for the capacity, and `valid`,
whether `validateHandoffFenceProgression` would still accept it.  `AppendEvent`
folds one event in; `Admits` is `checkEventCapacity`; `RecoverAuthorityClaim` and
`CancelClaim` are the two ways the code derives a claim from log and lease.
Owners are tagged (`Primary(p)`, `ChildOwner(h)`), because the code makes child
owners from ids no primary has.  Event texts, hashes, timestamps and models are
left out: no property tells them apart.

**FabricKernel** — log, lease, and the operations of `Repo`.  `Repo.mu`
serialises operations, so `op` holds the one that is running.  Operations with a
single write are single actions; `BeginExecute`, `terminalExecute`, both
handoffs and reconcile are programs with one durable write per step, each of
which may fail (`Refused`) and between any two of which the process may die
(`KernelCrash`).  A write fails in one of two ways (`TryAppend`, `TryLease`): it is
refused and leaves nothing, or it is made and its caller gets an error all the same.
`Log.Append` writes the line and then answers what `f.Sync()` says (`store.go:123-126`);
`atomicfile.Write` renames the lease and then syncs the directory.  The callers treat
both alike.  `unsynced` is history: which writes were made and answered with an error.
`Holds` is `CheckOwnerAndFence`.

**FabricAuthority** — the abstract specification of the kernel: a lease whose token
grows with every move, a log that acknowledges a token at most once and only while
the lease is at it (with a fenced start or a committed handoff), runs that follow each
other, a task that is over once.

**FabricClients** — the kernel under every order of calls: an API caller that
presents any claim ever returned to anyone (`issued`), `CancelTask` with the gap
between its read and its write (`snapshot`), crashes, and `RecoverOrphans` before
anything else in a new process (`booted`).  `Authority` maps it to `FabricAuthority`: the
lease, the active run, the fence that `validateHandoffFenceProgression` goes by
(`log.check`) and whether the task is terminal.

**FabricRuntime** — the same kernel driven by the real callers.  An executor is an
execute request and its worker (`pc`, `live`); a canceller a cancel request
(`req`); `stop` the shutdown.  `rtmu` and `live[e].authorityMu` are the mutexes
held across steps; `intentMu`, `claimMu` and `durableMu` guard single steps.  A
model turn ends with any outcome and a resource turn may be refused.  With
`Impatient` a wait of `fabricShutdownWait` may run out at any time.  `req[c].held` is
history: the claim the run held at the moment a cancel stopped it.
**MCFabricRuntime** makes two executors interchangeable (a symmetry, used only
for invariants).

**ResourceBudget** — Manager, Turn, Reservation, ReaderLease, Accumulator; every
critical section of `Manager.mu` is one action.  `changed` counts the channels
closed so far and `seen[t]` is the one a waiter got, so sleeping on an old
channel means being woken.  Any operation may come at any time, on closed turns
too.  **MCResourceBudget** gives sessions and class limits values.

**ClientResource** — the keyed resources of a page.  One browser callback is one
action; `flights` holds every request whose promise has not settled, aborted ones
included, and `epoch` numbers the generations.  A value is the version of the
server's state that it was read from, so "older" can be said.  Watchers may poll at
different cadences, pause in a hidden tab or not, and be aware of staleness.

**AutoSwitch**, **PoolRotation** — the reducers of the two cards as operators on
their state, one per event of the reducer.

**CodexPool** — the controller, both cards and the proxy's configuration together.
The two requests of a load settle one by one; a request takes effect at the proxy,
its answer comes back later, is lost, comes after a timeout, or comes with a good status
and without a body, which `readPayload` turns into `{}` (`EmptyView`: no active account,
no pin, no rotation, and the threshold that `normalizeAutoSwitchThreshold` makes of
nothing, the default); another tab writes the threshold, the rotation or the accounts.  `newest`, `at` and `accepted` are
history: they record which version of the proxy's state a shown value came from.

**CodexLogin** — the dialog, the handlers behind it, the owner's slot, the pending
file, the credential store and the config rows.  A flow is a login POST; it takes
three steps in the proxy (`LoginSave`, `LoginClaim`, `LoginRegister`), for the file,
the owner and the table of flows have separate locks.  A grant is an authorization
of a flow that reaches the proxy, through the browser or as a pasted code; its handler
goes through `LoadPending`, `Exchange` and the steps of `commitChatGPTLogin`
(`CommitCheck` .. `CommitRelease`), with the store's lock held from `CommitGate` to
`CommitPersist`.  A cancel takes the owner, the file and the flow in three steps.
`gen`, `cancelled`, `stored` and `spent` are history or what the code keeps per flow; a
status read that was aborted is gone, for the hook ignores it however it settles.
`Fault` is a write, an exchange or a read that fails; `RestartProxy` loses the memory
and keeps the files.

**ReleaseLedger** — the abstract specification of a release: publish once, tag that
commit, release that tag.

**Release** — the coordinator and its world: `cut` and `publish` step by step with one
effect per action, the seven requests of a snapshot by the three things that can
change between them, outages, reruns, the workflow's concurrency group, CI of pushes
and of pull requests, approval, and tags and drafts made by hand.  `Ledger` is the
refinement mapping: `public` is the registry, a version is tagged when its tag names
the published commit, and released when its GitHub Release is published.

**MCSurfaces** — instances for these six modules.  `surface` chooses, per behaviour, the
part that is at work, since a release, a page's resources, a login and the parts of the pool
share no state beyond what `CodexPool` already composes (loads run under all of its
surfaces).  `NotCrowded`, `FewChanges`, `FewGrants` and `OneRunLater` are bounds.

**FabricClients_proofs**, **FabricRuntime_proofs**, **ResourceBudget_proofs**,
**ClientResource_proofs**, **CodexPool_proofs**, **CodexLogin_proofs**,
**Release_proofs** — the theorems.  **FabricKernel_proofs** — lemmas about the kernel's
operations that the first two share: types, and what a program in `op` stands for.

Definitions commented "Mutant" are plausible bugs of the definition below them;
nothing uses them except the mutation entries of `PROJECT.json`.

## 3. Runs

| Run | What it checks | Bounds |
|---|---|---|
| `kernel_faults` | half-commits are recoverable (`HalfCommitsRecoverable`) and the kernel never writes a log its validator refuses (`LogStaysReadable`), both outside the failed syncs their comments name; the log is behind the lease, authority is exclusive, the kernel implements `FabricAuthority` (`ImplementsAuthority`), and a restarted process closes the run it finds (`RecoveryConverges`) | two runs, three handoffs, one fault anywhere: a refused write, a write made and answered with an error, or a crash |
| `kernel_all` | all operations in all orders, `MarkStarted` and `StartRun` among them: no claim ends a fenced run but its own, and none ends a run without a fence unless there was a fault (`ClaimEndsOwnRun`); no run starts over another or after the task's end (`RunsAreSequential`) | two runs, one handoff, one fault, five ordinary events and a reserve of eight |
| `runtime_delegate` | a delegating run against a cancel and a shutdown: success is durable, convergence is honest (`ConvergedIsDurable`), the first intent wins | one executor, two refusals, impatient waits |
| `runtime_preconditions` | a cancel naming an owner and a fence, delayed at will, stops a live run only while that run holds exactly this claim, and ends one durably only with it (`NamedAuthorityRespected`); no slot leaks (`SlotsBalanced`); two workers never drive the task, a worker's active run is the registered one, and a run kept from registering is over or its handler still holds the authority to end it (`ActiveRunIsCancellable`) | two executors with delegation, one refusal |
| `runtime_returns` | every request, cancel and the shutdown end | one delegating executor, one refusal |
| `budget_bytes` | totals equal what is held, limits hold, no double release | two turns, two classes, a turn limit of 4 and a process limit of 5 bytes with pieces of 2, so each limit refuses first somewhere |
| `budget_queue` | no lost wake-up, exclusive turns, waiters are served | four requests, two sharing a session, two turns |
| `surfaces` | pool: the page that is caught up shows the proxy's pin and active account (up to finding 2), a mounted rotation card never falls behind a write it saw accepted, the threshold never goes back, except to the default of an answer without a body (section 5). Resources: one live request per key, nothing older painted, mounted components keep their data, nobody is abandoned in a visible tab. Login: `CancelledNeverDone`, `NewestTokensStay`, `WatchEndsForCause`. Release: only audited commits are staged or published | two accounts, three versions of the proxy's state, two loads and two mutations in flight, one save and two mounts per card; one key with a component that does not poll, one that does and is aware of staleness, and a faster one that polls in a hidden tab, two versions, three generations; two logins in two mounts of the dialog, two grants; one version to release, two runs with two commits and one run with three (about 1,200,000 states) |
| `live` | spinners, loads and threshold saves end, the cadence and the listener follow the watchers of two keys, a login that is done is noticed and what is reported is stored, an approved release is finalized, and `Release` implements `ReleaseLedger` | two keys; one login of two identities with one fault and one restart of the proxy; one version to release, two commits, one run with an outage and a rerun, one interference by hand (about 90,000 states) |
| `kernel_twofaults` | violated: finding 1 | one run, two faults |
| `pool_staleread` | violated: finding 2 | the instance of `surfaces` with switches and pauses only |
| `login_callback` | violated: finding 3 | two logins, one callback each |

Why the bounds suffice.  Claims differ by run and by handoff; two runs give a
stale claim of an ended run against a current one, and three handoffs give a child
and a return in one run and a child in the next, with the old child's claim still
about.  A second fault breaks `HalfCommitsRecoverable` (finding 1), so that one
property cannot be checked beyond one; exclusivity and `ImplementsAuthority` are proved
for any number.  Three of the writes of the kernel break one of the two properties of
the log with a single failed sync, in the code as in the model: `RunStarted`, the
compare-and-swap of a handoff, and `HandoffProposed` (section 5).  `HalfCommitsRecoverable`
and `LogStaysReadable` name and exclude these; every other write may fail after it
was made.  `LogStaysReadable` is limited to one fault too: with both the
compare-and-swap and `HandoffFailed` refused, a caller that presents its claim to
`BeginChildHandoff` again writes a second open proposal, which the validator
refuses; the runtime never does that (it reconciles instead).  In `kernel_all` one
handoff and two runs are the fewest that give a child's claim, the parent's superseded one and
a claim of an ended run next to a run of `MarkStarted`.  In the runtime one
task is enough because `rt.active`, the log and the lease are per task; only
`inflight` is shared, and two executors fill it.  Five ordinary events let the
capacity of the log refuse appends and admissions in `kernel_all`; in `kernel_faults`
it refuses some late admissions only, and nothing in the instances of the runtime, where `MaxRuns` and `MaxHandoffs` are never
reached either: two executors start at most two runs with a handoff there and back each.  `CHECK_DEADLOCK FALSE` appears for the budget, where all
requests end and nothing is left to do, and for `MCSurfaces`, where an operator or a
maintainer may stop and the bounded versions, loads and generations run out; the
runtime ends in the explicit step `Rest`, enabled only when every request was answered.

In `ClientResource` a late answer needs a replaced generation and a value newer than
the one it read: two versions and three generations give a request, its
replacement and the replacement's replacement.  One eviction timer per key is pending at
a time in the runs (`MaxTimers`); the theorems cover several.  In `CodexPool` two loads overtake
each other, a third version of the proxy's state separates "what the older load
read", "what the write made" and "what another tab made after it", and two mutations
in flight give every order of landing and answering.  In `Release` three commits are
the first one, a bump and a commit that overtakes it; two runs are a run and a second
one for the same version, with two commits (`OneRunLater`); the proof of
`OnlyAudited` covers both at once.  Interference by hand and outages need a second version
nowhere, and the proofs cover all sizes.  In `CodexLogin` two logins are the superseded
one and its successor, and a browser callback and a pasted code for the same login are two
grants whose commits overlap; `FewGrants` keeps the two apart: one grant of each of two
logins, or two of one, in the first mount of the dialog.  `CancelledNeverDone` and `NewestTokensStay` are proved without any of these
bounds.

Fairness.  Kernel: the operation that holds `Repo.mu`, and recovery at the start
of a process, go on without waiting for anybody (`WF(Progress)`); `RecoveryConverges`
assumes the storage works after the one fault.  Runtime: weak fairness for every
goroutine that has started (Go's scheduler; `sync.Mutex` hands a free mutex to a
waiter), and a model turn ends (it runs under request timeouts).  That a request
arrives is never assumed.  Budget: weak fairness for the waiters and for closing
a held turn: a handler defers `Close`.  Resources: timers fire and settled promises
run their reactions; the server may never answer.  Pool: both reads of a load time
out (`LOAD_TIMEOUT_MS`), which fails the read or cuts off its body, and so does the threshold's PUT
(`AUTO_SWITCH_PUT_TIMEOUT_MS`); nothing is assumed of any other write, which has no
timeout.  Release: programs that run go on, the registry shows a `gitHead` in the end;
GitHub starts a waiting run and a maintainer reruns a failed one again and again as
long as that is possible (strong fairness: another run may hold the concurrency group
in between).  Nobody has to cut, push or approve.  Login: while the
tab is visible the poll timer fires when no read is open, the status handler answers
and an answer is read (a read has a timeout per tick; that it fails is a fault, and
faults are bounded).  Nothing is assumed of the operator, the provider or the commit.

## 4. Proofs

All proofs are complete and hold for every value of the constants allowed by the
named assumptions (`OwnersAssumption`, `CapacityAssumption`, `BoundsAssumption`,
`OpsAssumption`, `CallersAssumption`, `ActorsAssumption`, `PoolAssumption`, `LimitsAssumption`, `ResourceAssumption`,
`LoginAssumption`, `ReleaseAssumption`): any number of callers, owners, runs, handoffs, refusals, failed syncs, crashes,
requests, sessions, components, keys, generations, logins, grants, restarts, versions, commits and maintainers.

`FabricClients_proofs`:

* `FencingIsMonotone` — every step leaves the lease alone or moves it with the
  token increased (`LeaseMoves`), action by action.
* `TypeCorrect` — `TypeOK` needs the shape of the running program too (which
  steps belong to which kind of operation): `TypeInv`.
* `LogIsBehindLease` — `BehindInv` adds what the program in `op` is about to
  write: until the compare-and-swap its claim is at most the lease, after it the
  event to append carries exactly the lease's token.
* `AuthorityIsExclusive` — `OneAuthority` is about returned claims only and is
  not inductive: a claim is in circulation earlier, in a program that has moved
  the lease and has not returned yet, in a result not recorded yet, or named by
  the log, from which `CancelTask` can read it.  `AuthorityInv` says that of all
  circulating claims any two with the token of the lease are the same, and none has
  a later one.  A step that moves the lease mints a token above all of them;
  a step that does not brings no claim that was not already circulating.
* `RunsFollowEachOther` (`RunsAreSequential`).  A step of a program may append
  `RunStarted` long after `BeginExecute` saw no active run.  `OpRun` says what a
  program's step rests on: one that is about to append it still has no active run and
  an open task before it, because every other call waits for `Repo.mu`.
* `ClaimsEndTheirOwnRun` (`ClaimEndsOwnRun`), for all operations and any number of
  faults.  A fenced run is ended with a claim that names its id, which `terminalExecute`
  compares (`LogFenced`: an active run with an id has a token, so the claim of nothing
  ends none).  A run of `MarkStarted` or `StartRun` has no id to compare; what keeps old
  claims off it is that they no longer hold the lease.  As long as nothing has failed, no claim that
  circulates holds the lease unless a run with an id is active (`Settled`): the run before
  released the lease in the same hold of `Repo.mu` that ended it, and a handoff, which
  moves the lease too, is always of a run with an id (`Entitled`).
* `KernelImplementsAuthority` (`ImplementsAuthority`), for any number of faults and all
  operations.  `AckInv`: the log has acknowledged no token beyond the lease's, and a program that has moved
  the lease and not yet told the log (`started`, `commit`) holds one it has not
  acknowledged.  One lemma for the lease, one for the events that acknowledge nothing, and
  one each for the two that do show that a step is one of the abstract ones or a stutter.
* `LogStaysReadableUnderOneFault` (`LogStaysReadable`), for at most one fault of any
  kind, a failed sync of a proposal excepted; with two it is false (section 3).  The danger is a second
  proposal written over a first that was never closed.  `OneFault` says what the log looks like
  between operations (`LogShape`: an open child is the one the validation is in,
  a proposal is newer than everything committed), that a claim which holds the lease is
  the one the log was judged by last (`ClaimShape`), that the events a handoff has yet to
  write still fit (`Room`), so that only the fault itself can refuse them, and where a
  proposal can be left open (`Stranded`): either the lease has reached it, and no claim
  that is out holds the lease (`Ahead`), or it has not, which takes a crash, and
  the next process recovers before it serves anyone (`NotYet`).
* `HalfCommitsRecoverableUnderOneFault` (`HalfCommitsRecoverable`), under the same bound
  (`OneFaultOnly`), for all operations; the property itself excludes the failed syncs of
  `RunStarted` and of the compare-and-swap.
  `Recoverable` follows the lease of an active run through a handoff: the log explains it
  by the run's start, then by the open proposal, then by the commit.  Recovery
  itself breaks that between `HandoffRolledBack` and `RunInterrupted`; it still holds
  `Repo.mu` then, the fault is already spent, and an open proposal leaves two places
  in the log.  The initial-input marks ask for no claim and can take those places
  (section 5): where they are used, the theorem speaks of states in which the log has room for
  one more event (`Room(1)`).

`FabricRuntime_proofs`, from `RuntimeInv` (`RuntimeInvariant`): types and the kernel's
`OpRun`; `OwnedInv`: the actor named in `op` waits at the very step that started the
program, and an executor's program carries a claim on its own run; `ShapeInv`: what the
fields of a run are at each step of its worker (a claim, `authorityMu` only while it
holds it, terminals to try, `RunCompleted` among them only when completing was
the intent); `AnswerInv`: what an answer the caller has not read yet means; `FreshInv`: no
two executors have the same run; `Registered`, `SlotsInv`, `DurableInv`, `TargetInv`: the
properties with what makes them inductive.

* `ConvergedRunsEnded`, `CancelSuccessHolds` — a success is read from an answer in a
  later step than the append, so the run must stay ended in between: run ids are
  never used twice, which needs `FreshInv` and the executor's wait in `OwnedInv`.
* `ActiveRunIsFound` — a run works only between `Register` and `Cleanup`, and
  registering refuses while another run is active: the first two parts of
  `ActiveRunIsCancellable` (`DrivenAlone`, `DriverRegistered`).  The third,
  `AbortHasAuthority`, is model-checked only, where another run keeps the run from
  registering (two executors and a shutdown with delegation are too many states for a run).  `NamedAuthorityHolds` — a cancel
  compares its precondition under `authorityMu` and `rtmu` and keeps both until it
  has selected, so the claim it named is the one the run holds when it is stopped; and a durable
  end carries the owner and fence that were named (`Agrees`).
* `SlotsStayBalanced` — the count is the cardinality of the executors that are in,
  and no way out keeps a turn, a lock or the registration.
* `FirstIntentStands` — of every step (`InvStep` proves it with the invariant, for
  a selected intent is kept by the step and its terminals by `ShapeInv`).
* `RuntimeTypesHold`, for finitely many executors.

`ResourceBudget_proofs`:

* `WakeupsAreNotLost`, `TurnsAreExclusive`, `AdmissionIsBalanced` from
  `AdmissionInv`: the counters are the cardinalities of the sets of holders and
  waiters, the active sessions are those of the holders, `seen` is never in the
  future, and a waiter on the current channel was refused since that channel was
  made and so is still not grantable.  The finiteness of the set of requests is
  an assumption.
* `CommitsAreFinal` (no attempt starts after the commit, a commit stays), `TypeCorrect`
  — direct.
* `BooksAlwaysBalance`, `ChargesAreForHeld`, `LimitsHold` from `BooksInv`
  (`BooksInvariant`).  The books are sums (`SumFunctionOnSet`) over turns, sizes and
  classes.  What such a sum does is proved first: the recursive function behind it
  exists on every finite set (`SummingExists`), does not depend on the order of adding
  (`SumTakes`), and moves as the number that moves (`SumMoves`); each is an induction over
  finite sets in the form that a set of counterexamples would have a smallest
  one (`SmallestSet`, from the library's well-foundedness of strict inclusion).
  `BooksInv` adds to the three properties that a turn's total is the sum of its classes
  (`Close` takes off both), that it counts the readers that are open, and that a request
  never granted has nothing (`TurnBooks`, `FreshTurns`).  That nothing drops below zero
  is no part of the invariant: it follows, since every charge is a sum of
  what is held.  The finiteness of classes and sizes is an assumption.

`ClientResource_proofs`, all from one inductive invariant `Inv` (`ResourceInvariant`):

* `ResourceInv` is the type and, per key, `RInv`: no two requests have the same
  generation; a request in flight that is not the registered one was aborted; the
  registered one can be aborted by its deadline only; and what the
  registered one has read, if anything, is not older than the value on screen.
  The last part is why `PaintsForward` holds: a published value raises the generation,
  so the request that read earlier is not the registered one any more.
* `CadenceFollowsWatchers` is a conjunct, for the listener depends on all keys.
* Results: `AtMostOneLive`, `CadenceIsRight`, `StaleNeverPaints`, `MountedStays`,
  `SomebodyTakesOver`, `BackCatchesUp` (after the tab is shown again every polled key
  has a request under way), `ResourceTypeCorrect`.

`CodexPool_proofs`, from `PageInv` (`PageInvariant`): what a read carries is no newer than the
proxy, and is its state when it is as new (`LoadsInv`); while no load was started after the
newest one that came in, the page shows what that load read (`NewestInv`); and a read
begun at a card's present mount and revision is no older than what the card has
confirmed (`ThresholdInv`, `RotationInv`).

* `ThresholdNeverGoesBack`, `AcceptedRotationHolds` — a read that would set a card back was
  begun before the save, at a revision the save has raised.  An answer without a body
  is the exception for the threshold: it brings the default at any time (`EmptyThreshold`
  in the invariant), and after it the invariant holds of the default.
* `CaughtUpPageShows` (`CaughtUpShowsServer`) — with nothing under way and a load finished
  since the last change, what is shown was read at the newest version, except for a
  pending account that no read can confirm (finding 2).

`CodexLogin_proofs`, from `LoginInv` (`LoginInvariant`):

* `CancelWins` (`CancelledNeverDone`).  The property is not inductive: a commit may be
  one step from reporting done when the cancel comes.  `Disowned` says that a flow whose
  cancel has been at the owner does not own the slot, from `CancelOwner` on and not just
  from the step that marks it cancelled; since a claim makes a new generation and a flow
  claims before it is shown (`Shown`, `Answered`), it never owns it again, and
  `CommitFinish` asserts the owner where it reports done.
* `NewestTokensWin` (`NewestTokensStay`).  `Newest` extends the property to logins that
  have written tokens and not finished.  `Behind` is why a late write does no harm: while
  a grant holds the store's lock, no newer login has written its tokens, for the gate
  asserts the owner under that lock and a newer login's gate needs the same lock
  (`OneLock`).
* `AddedWasStored` (`AddedIsStored`) — a status of done is set after the tokens and the row
  are written, and the dialog reports a flow only from an answer of that flow.
* `WatchEndsWithCause` (`WatchEndsForCause`) — an action property, of every step of the
  dialog.

`Release_proofs`, from `ReleaseInv` (`ReleaseInvariant`):

* `BranchOK`: the branch consists of existing commits and contains its tip; `CutOK`: a cut
  that runs has a version; `RunOK`: a dispatched run has a version and a commit of the
  branch, the audited one once it works (`PinnedOK`), what its snapshot says was true
  when it was read and still is where it matters (`SnapshotOK`), and its planned
  mutations follow from the snapshot (`PlanOK`); and `OnlyAuditedGetsOut` itself.
* Results: `OnlyAudited`; `ReleaseImplementsLedger`, step by step: what a run decided
  from a snapshot of several moments is still allowed by the ledger when it acts,
  because a published version, its commit and a tag at it never change;
  `ReleaseTypeCorrect`.

Only model-checked: everything temporal under fairness (`RecoveryConverges`,
`EveryoneReturns`, `WaitersServed`, `RefreshingEnds`, `ThresholdSaveEnds`,
`RefreshingMarkEnds`, `DoneGetsReported`, `ApprovedGetsFinalized`), which is out of the
prover's reach.  Every invariant of a passing run is proved, but for `AbortHasAuthority`, and two of
the kernel under hypotheses they need: with two faults `HalfCommitsRecoverable`
(`kernel_twofaults`) and `LogStaysReadable` are false, and `HalfCommitsRecoverable` also
after one failed sync of a proposal that is proposed over, or once input marks fill the log
(section 5).

## 5. Findings

1. `kernel_twofaults`: recovery closes the open proposal (`HandoffRolledBack`)
   before it interrupts the run.  If the lease had already moved and
   the call then stops before `RunInterrupted` is written (it is refused, or the rollback is
   written and answered with an error), nothing in the log explains the lease any more
   and no later recovery can end the run.
2. `pool_staleread`: `reconcileActiveRead` (`codex-account-pool-domain.ts:180`) refuses a
   read that disagrees with the pending active account and keeps the pending account.
   A switch and a pause are not gated against each other; when they reach the proxy in
   one order and their answers come back in the other, the pending account is one
   the proxy has left, every later read is refused, and the page keeps showing it.
3. `login_callback`: the callback listener (`codex_auth_login.go:222`) is started by a
   login with that login's flow id and is never stopped; the next login finds the
   port taken and gets no listener.  Its browser callback is completed by the first
   one: the code is exchanged, the pending file consumed, the commit fails because the
   first flow is over, and the error is put on the first flow.  The second login stays
   pending until the dialog gives up.  A pasted code is not affected, and neither is
   the first login after a start of the proxy.

Seen while modelling, without a run of their own.  Kernel and runtime:

* A write that is made and answered with an error (`store.go:123-126`,
  `atomicfile/atomic.go:135-146`) breaks three operations with this one fault; the
  properties of section 3 exclude exactly these, and fail when the exclusion is taken out.
  `RunStarted`: `beginExecute` releases the lease under a run that the log has active
  (`execute.go:93-96`); nothing explains the lease then, and no recovery ends the run.
  The compare-and-swap of a handoff: `HandoffFailed` closes the proposal
  (`handoff.go:109-126`) while the lease is with the child, and nothing explains it,
  although `handoff.go:34` promises half-commits that stay recoverable.
  `HandoffProposed`: the caller keeps a valid claim (`handoff.go:102`); presented again
  it makes a second open proposal, which `validateHandoffFenceProgression` refuses, and
  the task cannot be read any more.  The runtime reconciles after an error instead of
  proposing again, another caller of `Repo` need not.
* The reserve for terminals (`store.go:491`) is per task and interrupted runs use it
  up; `BeginExecute` still starts a run whose terminal cannot be written.
* The initial-input marks take no claim (`remove.go:172-222`): called while a proposal
  is open they can fill the log, so that recovery writes `HandoffRolledBack` in its last
  place and has none for `RunInterrupted`; the lease then stays unexplained, as in
  finding 1, after one fault.  It takes a task that has used up the whole reserve by
  then, mostly with interrupted runs.
* `CancelTask` (`remove.go:99`) takes the latest committed handoff of the whole history;
  after an interrupted run with a handoff, a later run cannot be cancelled durably.
* An explicit precondition of no owner and fence 0 (`fabric_api.go:170`) is filled in by
  `CancelTask` with the claim of whatever runs by then.
* In the instance of `runtime_returns`, `req[c].pc = "persist_failed" => faults > 0` fails: a cancel that wins the intent
  just before a failure path that has no way to persist it is answered with a
  persistence failure although no write was refused
  (`fabric_runtime.go:438-440` speaks of a dual storage failure).  The worker of that run
  persists no terminal at all, and the run stays active in the log until a later durable
  cancel, or the recovery of the next process, ends it.
* A cancel without a precondition may get a conflict while its run goes on:
  `CancelTask` (`remove.go:93`) unlocks between reading the claim and using it.
* `applyChildReturnTerminal` (`fabric_delegate.go:696`) moves the lease and
  publishes the claim outside `authorityMu`, so a second cancel that holds both
  mutexes can see the child's claim after the move (`fabric_runtime.go:21-22`).
  No property of a run depends on that claim being current.
* One lost `Release` (`execute.go:193`, its error is ignored) and a `MarkStarted` or
  `StartRun` after it: the old claim still holds the lease, the new run has no id, and
  `terminalExecute` compares run ids only when both are set, so the old claim may end the
  new run.  `MarkStarted` is an HTTP route (`fabric_api.go:137-148`).  `ClaimEndsOwnRun`
  allows this one case, a run without id after a fault, and no other.

Dashboard and release:

* An answer of `GET /active` with a good status whose body fails, is cut off by the
  timeout or does not parse counts as `{}` (`readPayload`,
  `codex-account-pool-domain.ts:466`).  `acceptServerRead` makes the default threshold of
  it (`useCodexAutoSwitch.ts:248`), marks it confirmed and replaces a confirmed value; the
  next toggle or commit may write it back.  `useCodexAutoSwitch.ts:22` says that the mark
  "blocks writes of the seed default".  The active account and the pin go the same way
  until the next load.  `ThresholdNeverOlder` allows the default, and nothing else that is old.
* A card that is mounted again is seeded from the pool's last payload, which may be
  older than what its predecessor saved (`ProviderAccess.tsx:541`); the next poll
  corrects it.  `ThresholdNeverOlder` and `AcceptedRotationStays` speak of one mount.
* The rotation card sends every field it shows, so a field another tab changed
  meanwhile is written back (`codex-pool-rotation-machine.ts:309`).
* A mutation of the pool has no timeout: while its request hangs, its gate stays closed
  (`codex-account-pool-domain.ts:260`).
* `refresh()` after the component unmounted and its key was evicted creates a resource
  that nobody watches and no timer evicts (`client-resource.ts:538`).
* Login, cancel of an old flow: the handler cancels whatever owns the slot and deletes
  whatever pending file there is (`codex_auth_login.go:175`); a cancel that comes late
  ends the login that replaced the one it names.
* Login, `Consume` (`chatgpt/login.go`) deletes the pending file by name; the file may be
  a newer login's by then.
* Login, `setCodexLoginError` (`codex_auth_login.go:382`) overwrites the status "done" when
  the second grant of one login fails after the first one succeeded.
* Login, a commit uses the rows it read at its start (`codex_auth_login.go:264`): a
  superseded commit past its checks can write a row over a newer login's.  The tokens
  are safe (`NewestTokensStay`), the row is not.
* Login, two POSTs may claim in one order and register in the other, and the owner's
  own flow is then marked expired (`codex_auth_login.go:95`).
* Login, an answer to a pasted code is applied to whatever login the same dialog shows
  by then (`use-add-codex-account-oauth.ts:425`).
* Login, tokens stay in the store without a row when the config transaction fails
  (`codex_auth_login.go:338`); nothing reports them, the next login of the account
  replaces them.
* Login, a hidden tab stops the poll and not the 300 s deadline, so a login finished in
  another window may be cancelled by the dialog that has not looked.
* The dist-tag is checked at staging and moves at approval: two staged versions
  approved out of order move it backwards (`plan.ts:115`).
* Once a run created the tag and died, the cut refuses the version as used
  (`execute.ts:228`), although `release.ts:63` says to rerun the command; the workflow
  run can be rerun.

## 6. What is left out

* Appends and lease writes are atomic: a torn last line is not modelled, and neither is a
  loss of power after a failed sync, which would take the write back.
* One task: the task list, its capacity and `reclaimOldestRemovedLocked` are not.
* In `FabricRuntime`: the process does not restart (that is `FabricClients`'
  subject), the operator does not call `MarkClosed` during a run, results are
  not stored, and continuation payloads and HTTP decoding are left out.
* In `CodexPool`: what the rows show, usage figures, logins and quotas, cool-downs and
  reset credits; poll leases only suspend the poll.  The reset order of a rotation
  behaves as the strategy does and is not a field of its own.  A handler reads the
  config and begins its transaction in one step (`MutationLands`); in the code another
  tab's write may come in between (`codex_auth_routing.go:35-78`).  `switchAccount(null)` is
  left out: the pool's only caller passes an id (`codex-account-pool-action-policy.ts:12`).
  A rotation write whose card was unmounted is answered to nobody and may land as another
  tab's (`OtherRotation`).
* In `CodexLogin`: notices and the streak of errors that shows them; the retry after a
  409, which the proxy never answers to this dialog; the hidden tab; the overlap of two status reads after an aborted
  one clears the in-flight mark of its successor
  (`use-add-codex-account-oauth.ts:268-270`); PKCE, states and
  the tokens themselves (a code is good once, for the pending file of its login).
* In `Release`: packing, release notes, the evidence of the service lifecycle, a
  second release branch; version strings are numbers in the order of
  `compareReleaseVersions`.  A cut whose clone has an earlier commit that was never pushed
  is refused here, where the code may fast-forward (`live.ts:359-365`).  The evidence and the notes
  (`plan.ts:155-170`) could refuse a plan for good; `planAccepted` leaves them out.  By
  hand a missing tag or a draft is added; none is moved or deleted.
* Components marked planned or not modelled in section 1.

Not modelled, and why.  Most of the TypeScript is layout, forms, translations, their
lint, and tools that drive a browser: pages render what a resource or a request
returns and keep drafts that only their own component changes, so a model would
restate single assignments.  The Go code that translates protocols is data
conversion without shared state.  The parts with order-dependent state that are
still missing are named in the plan.

## 7. Plan

Done, with proofs: `FabricLog`, `FabricKernel`, `FabricClients` with `FabricAuthority`, `FabricRuntime`,
`ResourceBudget`, `ClientResource`, `CodexPool` with its cards, `CodexLogin`, `Release` with
`ReleaseLedger`.  Next, in this order:

1. `ResultStore` and its place in shutdown; the credential pool's refresh and
   selection; the combo walker.
2. Several tasks: capacity of the task list and reclaim; torn lines.
3. Managed files: the journal, with crashes at every write.
4. The models page's optimistic writes, and the logins of the other providers.
5. Proofs: `AbortHasAuthority`; that one run with its handoffs leaves the room that
   `HalfCommitsRecoverable` needs when the input marks are used.
