# TLA+ model of Stella Runtime

This directory specifies the parts of Stella Runtime whose correctness depends on
*order*: what is written when, what a crash leaves behind, and what other
activities see in between. Each module is translated from the TypeScript under
`src/src`; file and line of every definition are in `PROJECT.json` ("map").

TLC checks every property on a small instance; the theorems in `*Proofs.tla`
are checked by TLAPS and hold for every value of the constants that satisfies the
assumptions named in section 4; both refinements are among them.

## 1. The system

Stella Runtime is a plugin of the OpenClaw host. It compiles an authority
repository and a personal domain projection into an immutable *Generation*,
makes the host serve it, and binds every eligible Run of the agent to exactly one
Generation.

| component | source | state | operations | modelled in |
|---|---|---|---|---|
| Activation Barrier | `sync/index.ts` | `sync-journal.json`, `maintenance-gate.json`, active pointer, activation receipts, sync lease | `recoverInterruptedSync`, `syncGeneration`, `closeMaintenanceGate` | `SyncBarrier` |
| Consumption adapter | `openclaw/consumption.ts` | host `extraPaths`, ownership file, host memory index | `capture`, `applyTarget`, `verifyTarget`, `restore`, `verifyPrior` | `HostConsumption`, `SyncBarrier` |
| Run hooks | `openclaw/runtime.ts`, `core/index.ts` | `admissionClosed`, `promptBuilds`, scratch, rejected and invalidated Runs, lifecycle epoch | the five hooks, `closeAdmission`, `openAdmission`, `drain`, `clearLifecycle` | `RunAdmission`; `SyncBarrier` (as the barrier sees them) |
| Binding compiler | `runtime/binding.ts` | none (reads pointer, receipt, Generation, projection) | `compile`, `revalidate`, `validateGenerationDomainsCurrent` | guards of `SyncBarrier` |
| Health | `diagnostics/index.ts` | health receipt, reconciliation queue, lifecycle counters | `selfCheck`, `reconcile`, `checkRunGate` | drift quarantine in `SyncBarrier` |
| Governed publication | `publication/index.ts` | publication journal; approval records in the admission store; Git commits of the consumer | `publish`, `recover`; `preparePublication`, `finalizePublication` of the store | `Publication` |
| User state | `state/*.ts` | one SQLite database per instance: events, head, view history, imports, served Runs, re-answer outbox | `initialize`, `import`, `view`, `planCorrection`, `applyCorrection`; `claim`, `complete`, `release`; `recordServedRun` | `StateStore` |
| Instance recovery | `recovery/index.ts` | snapshots, restore lock, restore journal, stage and rollback files | `backup`, `verify`, `restore`, `recoverInterruptedRuntimeRestore` | `InstanceRecovery` |
| Candidate admission | `admission/*.ts`, `openclaw/confirmation.ts` | one SQLite snapshot: authorizations, candidates, confirmation requests, receipts | `authorizeDiscovery`, `createCandidate`, `reviseCandidate`, `prepareConfirmation`, `decideConfirmation`, `consumeApprovalReceipt`, `endDiscovery` | `CandidateAdmission` |
| Personal-data exchange | `personal-data/*.ts` | lock directory and record, `revisions/`, `active.json`, source bindings, retention | `publishIdentityProjection`, `recoverPublication`, `collectOrphanRevisions`, `recordLastVerifiedRevision`, `read*Projection` | `ProjectionExchange`; `domain`, `readable` of `SyncBarrier` |
| Generation | `generation/index.ts` | directories under `generations/`, pointer, bootstrap files | `buildGeneration`, `verifyGeneration`, `activateGeneration` | `GenerationArtifacts`, `GenerationBuild`; in `SyncBarrier` a model value that may fail to build |
| Router, packet, authority | `router`, `packet`, `authority` | none | pure functions | not modelled |
| Cutover, provenance, contracts, compatibility, conformance, CLI | the rest | none that another component reads | one-off checks, append-only traces, wiring | not modelled |

How they interact: the plugin entry (`openclaw/index.ts`) registers the hooks and
starts `recoverInterruptedSync` *beside* them, so Runs may arrive while recovery is
under way. The gateway method `cognitive-runtime.sync` calls `syncGeneration`,
which first recovers under the same lease. Barrier and Runs share three things:
the gate file, the in-memory flag `admissionClosed`, and the drain, which counts
scratch entries and builds in flight. The barrier moves the host through the
consumption adapter. Health and rejected Runs write the gate file without the
lease. The personal-data exchange publishes domain revisions at any time.

Upstream of all that, the owner decides on candidates: admission turns a confirmed
candidate revision into a Decision Receipt, and the publication coordinator turns
the receipt into one Git commit of the authority repository. They meet in the
receipt, a record of the admission store that admission may invalidate or use up
and publication claims (`preparePublication`) and consumes (`finalizePublication`).
What is committed becomes part of a Generation at the next sync.

A Generation is built by the sync or by the build command, neither of which excludes
the other, from a checkout its owner goes on changing. Beside all that, the state
commands, the Runs that deliver a re-answer, the `before_prompt_build` hook and a restore
are separate processes over one instance's `runtime.sqlite`; the restore lock and its
journal are files next to it.

What makes it hard: five durable pieces (journal, gate, receipt, pointer, host)
change one after the other and the process may die between any two; the host
itself is three pieces; a Run awaits at half a dozen places between "admission is
open" and "bound"; a transition that *removes* documents may not be rolled back;
a sync may replace an interrupted one, handing its snapshot on; and the domain
projection moves under all of them. Publication writes three stores that share no
transaction (receipt, journal, Git), while revisions, the end of an authorization
and other committers change what was validated a moment ago. Recovery, exchange and build
keep their state in files whose removal, creation and replacement are separate steps,
name locks and journals by path, and decide from a look at them that may be stale.

### What makes each component correct

* Barrier and consumption: closed gate while a transition is unfinished; open gate
  means host and pointer agree; the pointer is switched last; what the user
  configured stays; a sync returns, and service comes back.
* Run hooks: a bound Run keeps its Generation; a drained hook controller has no binding
  left that could still come into being; the limit holds; a refused Run stays refused; no
  Run goes on without a binding in `enforce`; a drain ends and every hook is answered.
* Publication: an approval is published at most once, on the base that was reviewed,
  and consumed only then; what is committed gets consumed.
* Admission: only the latest revision can be approved or claimed; what is revoked
  stays revoked; what is claimed is not revoked.
* User state: a correction is applied to the view that was previewed and acknowledged
  however often the answer is lost; a baseline lies below everything else, served Runs
  included; every revision
  stays answerable; a re-answer has one claimant and is completed by the last one.
* Recovery: the prior state can be brought back until a restore commits, reports are true,
  what has served a Run is not replaced, an interrupted restore is undone.
* Exchange: the active revision stays whole; a lock is taken from a dead owner only; one
  source gives one revision; a reader is served what is active; a crash is recovered.
* Generation: a directory is what its commit holds, tampering shows, what is visible is
  immutable, and rebuilding converges.

## 2. Modules

| module | what it is |
|---|---|
| `ActivationBarrier` | what the barrier promises to Runs: they are served only while the host exposes exactly the active Generation, a bound Run keeps that exposure, the pointer is switched to what is already exposed |
| `HostConsumption` | state functions of the host adapter and the rule that forbids restoring a prior Generation |
| `SyncBarrier` | the detailed system: recovery, sync, host, Runs, health, crashes, faults, domain changes; refines `ActivationBarrier` |
| `SyncBarrierProofs` | inductive invariants and theorems about `SyncBarrier`, its refinement of `ActivationBarrier` among them |
| `MCSyncBarrier` | values of the constants for TLC |
| `RunAdmission` | the hook controller and its scratch map: hooks, shared builds, refusals, expiry, resets, and the drain |
| `RunAdmissionProofs` | inductive invariant and theorems about `RunAdmission` |
| `ApprovalLedger` | what admission and publication promise of an approval: live, then revoked or claimed, one commit, then settled |
| `CandidateAdmission` | authorizations, candidates, confirmation requests and receipts of the admission store |
| `Publication` | the publication coordinator, its journal and the consumer's repository beside admission; refines `ApprovalLedger` |
| `CandidateAdmissionProofs`, `PublicationProofs` | inductive invariants and theorems of the two, and the proof that `Publication` implements `ApprovalLedger` |
| `MCPublication` | symmetry of the constants for TLC |
| `StateStore` | the instance's database and the port that manages it |
| `InstanceRecovery` | backup, restore, the recovery of an interrupted restore, and the hook that records a served Run |
| `ProjectionExchange` | the file exchange of projections: publishers, collector, recovery, readers |
| `GenerationArtifacts` | the content of a Generation as a function of its inputs, and what `verifyGeneration` accepts (operators only) |
| `GenerationBuild` | builds, the pointer and the bootstrap files over a moving checkout; extends `GenerationArtifacts` |
| `StateStoreProofs`, `InstanceRecoveryProofs`, `ProjectionExchangeProofs`, `GenerationBuildProofs` | inductive invariants and theorems of the four; the last one also proves what `verifyGeneration` accepts |
| `MCStateStore`, `MCProjectionExchange`, `MCGenerationBuild` | values of the constants for TLC |

### CandidateAdmission, Publication and the code

`FileCandidateAdmissionStore.transact` runs every admission operation as one SQLite
transaction over the whole snapshot, and rolls back one that throws, so an operation
is one action and a refusal is no step. `auth`, `owner`, `revs`, `conf` and `rcpt` are
the snapshot; `head` is the version of each target in the authority repository, which
the consumer owns. A confirmation request, its routing token and the receipt decided
with it share one name because the token is deleted when it is used. A version of a
target is known by the change set that published it, a revision by the version it is
based on: contents, diffs, senders and message references only ever cause a refusal.

`Publication` adds the journal of each change set, the commits (`log`), the contents
of the repository outside the targets (`rest`), and the local variables of the one
`publish` or `recover` that holds the lease (`pc`, `cs`, `expected`, `found`). The lease
is one SQLite lock for all change sets, so one call is under way at a time; it is
released by the death of the process. A step is the code between two awaits that
write something durable or ask the consumer: `Validate`, `PreparePublication`,
`WriteJournal` and `Resume`, `Revalidate`, `Commit`, `RecordCommit`,
`FinalizePublication`, `Complete` in the order of `publish` and `#resume`. `Accepts`
collects what each of them checks; `Throws` is a failing check, `Fails` a crash or an
error of a store or of the consumer at any step. Both leave only what is durable.

The consumer is behind `AuthorityPublicationPort` and modelled from its use: `findCommit`
finds a commit by change set, `validatePublication` refuses a target that is not at
the reviewed base, `commitPublication` compares the expected tree itself (if it did
not, `assertCommit` would throw after the commit was made). `OthersCommit` is anybody
else's commit to the same repository; it may bring an earlier tree back.
`AuthorizationExpires` lets time run out at any moment.

### SyncBarrier and the code

`journal`, `gate`, `pointer`, `receipts` are the files; `cfg`, `owned`, `index` the
host; `domain`, `readable` the personal-data exchange as `readFitnessDomain` sees
it; `pc`, `task`, `req`, `replacing`, `hold` the local variables of the one call of
`recoverInterruptedSync` or `syncGeneration` that holds the lease; `runs` what hooks
and scratch know of a Run; `detecting` a health check that has seen drift and has
not acted on it yet. `crashes`, `faults`, `changes` only bound the instance.

A step is the code between two awaits that write something durable or read
something another activity may change:

* `Recover*` are the ways through `recoverInterruptedSyncLocked`, in the order of its
  `if`s; `RecoverVerify*` its two verifications; `Restore*` is `recoverPrior`, host
  step by host step; `Block` writes `recovery_failed`; `OpenGate` removes the gate file
  and opens admission.
* `BeginSync` is `performSync`, which reads the projection *before* it waits for the
  lease. `Prepare`, `WriteGate`, `Drain`, `Validate`, `Apply*`, `Verify`, `WriteReceipt`,
  `WritePointer` follow `syncGenerationLocked`. Steps that do nothing but write the next
  phase are one action, `RecordPhase`, over the table `JournalSteps`. `Catch` is the
  catch block.
* `RunStart` (the synchronous `admissionClosed` check), `RunLoadsGate`, `RunCompiles`,
  `RunBinds` are the awaits of `buildPromptContext`; `RunRevalidationFails` and
  `RunQuarantines` its failing branches; `RunEnds` is `agent_end`, expiry or a degraded
  build.
* `Crash` loses everything but files and host. A host index command that was running
  leaves the index anywhere on its way (`InterruptedIndex`).

Domain revisions are naturals that only grow: a revision is content-addressed over
its source revision and time, so it does not come back; `readable` models a
projection that cannot be read or verified for a while.

`DomainOf` says which revision a Generation was built from and `Destroys` which
revisions remove or change documents of which earlier ones; `Destroys` is what
`replacementForbidsPriorRestore` computes.

Left out of this module: cutover plans; the contents of receipts; an exception from a
local file write (told apart from a crash by nothing the properties see, except that
the process survives); a second process contending for the lease through the CLI
(the SQLite lock serialises it with ours, and the journal is all they share); the
health receipt that also gates Runs in `enforce` mode (it only ever rejects more Runs).

### RunAdmission and the code

`promptBuilds`, `scratch`, `injectedPackets`, `rejectedRuns`, `invalidatedRuns` and
`admissionClosed` are the maps and the flag of `registerRuntimeHooks`; `gate` is the
durable gate; `phase` is what the sync that closes and drains has reached. `mode` is
chosen in `Init`, so that one run covers `observe` and `enforce` (`off` does nothing).
`call` has the hooks that are pending: the Run, whether the call registered its build
(`owner`), the build it joined (`on`), and whether a reset has come since it began
(`stale`, i.e. `startedEpoch !== lifecycleEpoch`).

`Joins` and `Enters` are the two branches of `prepareEligibleRun`; `RefusedAtOnce` is a
refusal before anything is awaited. `LoadsGate`, `PassesChecks`, `Binds` and `Revalidates`
are the awaits of `buildPromptContext` when they go well, `Refused` and `DomainFails` when
they do not; `Quarantines` is the rest of `rejectDomainFailure`. What ends a call also
runs the `finally` that unregisters it and resumes the calls that joined it (`Throws`,
`Returns`): JavaScript runs the continuations of a settled promise before any other event,
so this is one step. Compilation and routing are one wait, because nothing shared is read
between them; health, the size of the input and the router's answer are arbitrary.
`Expires` is the time to live of a scratch, which `inspect`, `size` and `acquire` apply.

`Overlap` is an assumption on the host that this code does not decide: whether a Run gets
another hook, or its `agent_end`, while one of its calls has lost its registration. The
runs and theorems take it as FALSE; see the observations.

In `SyncBarrier` a Run is what the barrier can tell apart of all this (`RunEnds` there
assumes, like `Overlap = FALSE` here, that a Run does not end while a hook is routing).

Left out: `after_tool_call` and `before_agent_finalize` (they only touch a scratch that is
there), provenance, and the trim of remembered refusals at four times the limit
(`LimitAssumption` keeps the instance below it).

### StateStore and the code

A step is one SQLite statement outside a transaction, or one transaction; `BEGIN
IMMEDIATE` makes the rest atomic. `phase` is how far the constructor has come for a new
file (`CreateFile`, `Migrate`, `InsertHead`, `InsertInitialHistory`); `events`, `history`,
`imports`, `served`, `outbox` are the tables. The head is the number of events because
every transaction that appends moves it by as much. A view's checksum covers its revision
and values, so a checksum is a view (`ViewAt` is `#reduceView`). `preview` and `client`
are what the caller of `planCorrection` and `applyCorrection` holds; `ApplyLook` is
`store.get`, `ApplyCompare` the comparison with the base view, `CommitCorrection`,
`RefuseCorrection`, `RepeatCorrection` the three ways through the transaction of
`correct`. `claims` has every claim ever handed out, because nothing stops its holder from
completing or releasing it late or twice. `held`, `done` and `shown` are history, and so
is the head `served` keeps with the first recorded Run: the code asks only whether there
is a row, the property where the Run stood.

### InstanceRecovery and the code

The variables are the files of one instance (section 1); `pc` and `job` the local
variables of each restore or hook, `txn` the holder of SQLite's write lock. A file is
created and then written (`Torn` in between); a rename is one step; `copyFile` over the
target, or over an earlier rollback file, tears it first (`SaveRollback` and `SaveCopy` are
one `copyFile`). Snapshots may be there in the initial state, so that the first restore may
find no database at all. `Recover*` is `recoverInterruptedRuntimeRestore`, `Acquire*`
`acquireRestoreLock`, `RunGuard` to `ValidateRestored` the body of `restore`, `Abort`,
`Undo`, `UndoCopy`, `ClearFailed`, `ReleaseLock` its catch and finally; `ServeBegin` and
`ServeCommit` are `markRuntimeInstanceRunServed`. `Stop` ends any of them anywhere;
`LockFree` is what `isProcessAlive` says of the lock it leaves. `before` is history.
`Correct`, `Reanswer` and `Initialize` stand for all of `StateStore`, one action per
outcome that a snapshot can tell apart, and only while no restore is under way (`Quiet`):
OPERATIONS.md:140 has the operator stop the instance first, the code does not check it
(see the observations).

`Overlap` names three interleavings the code does not exclude: that somebody takes the
lock (`"restore"`) or begins its own recovery (`"recovery"`) while another is between
looking at the lock or journal and acting on it, and that a restore which has already looked
for a journal takes the lock over what another left that began and stopped, or failed to
roll back, since (`"takeover"`). The passing run
assumes none of them; finding 3 and an observation are what happens with them.

### ProjectionExchange and the code

`lock`, `temp`, `revs`, `active`, `bindings`, `retained` are the files under the projection
root. A revision directory is known by the publisher whose manifest is in it (`generated_at`
makes manifests of one revision differ). `pc` and `mine` belong to the calls that hold the
lock: `Record` to `MarkActive` follow `publishIdentityProjection`, `CollectRecorded` to
`Collected` follow `collectOrphanRevisions`; `rpc` and `rec` to calls of
`recoverPublication`. A recursive removal is several steps and may take the manifest first
or last (`Remainders`). A call that throws keeps the lock, as in the code; `Die` lets its
process end too. The readers are the loop of `#consume` over `runProjectionConsumerConformance`.
Left out: leases, which delay a recovery and decide nothing, since the owner has to be dead
too; unsafe paths and invalid documents; the producer's policy checks in `projection.ts`.

### GenerationArtifacts, GenerationBuild and the code

A checksum is modelled by the value it is taken of, canonical JSON by the value itself and
sorted arrays by sets: a Generation's identity is its seed. `Built` is the directory
`buildGeneration` writes, artifact by artifact; `Verifies` is `verifyGeneration`, one
operator per part. `TamperingShows` applies losses, mixtures, grafts and exchanged
texts to every pair of Generations, with the manifest's checksums brought to agree or not.

`GenerationBuild` takes `verifyAuthorityCheckout` apart into the questions it asks git:
`Start` (HEAD and the tree of that revision), `CheckClean` (status), `ReadAuthority` (the
listing of the worktree against the tree, the blobs by object id), because `Edit`, `Commit`
and `Checkout` may come between. Staging is private to a build until `RenameStaging`.
A bootstrap file is written in place, so a stop leaves it torn.
Left out: contracts and lint; document layout; symbolic links and nested repositories;
domain projections in the concurrent part (they are arguments, and `GenerationArtifacts`
has them); `activateGeneration` of a staged directory, which nothing in `src/` calls.

## 3. Runs

| run | instance | what it shows |
|---|---|---|
| `barrier_safety` | 3 Generations, 2 domain revisions, additive; 1 Run, 2 crashes, 1 fault, 2 domain changes; 1.1 M states | type correctness, the four safety invariants, the two action properties, refinement of `ActivationBarrier` |
| `barrier_retry` | the same, destructive; 1 crash, 1 fault, 1 change; fairness; 259 k states | every call returns; once the domain has settled, moved or not, repeating `sync` serves it as it now is, except in three named dead ends |
| `publication_safety` | 2 authorizations, 1 candidate, 2 requests, 1 operation list, 1 edit, foreign commits; crashes unbounded; 375 k states | type correctness, only the latest revision under the present owner is live, commit on the reviewed base, refinement of `ApprovalLedger` |
| `publication_retry` | 1 request, 2 operation lists, 2 foreign commits; fairness; 62 k states | one commit per approval, settled means committed, what is committed ends up consumed and completed |
| `run_admission` | 2 Runs, 2 concurrent hooks, limit 2; expiry, resets, ends and syncs unbounded; fairness; 66 k states | drained stays drained, the limit holds across a build's awaits, a refusal is final, the drain completes, every hook returns |
| `recovery` | 2 restores, 1 hook, 1 snapshot, 2 versions, 2 stops; fairness; 267 k states | the prior state is recoverable, reports are true, a served target is kept, an interrupted restore is undone |
| `state_store` | 2 corrections of one session, 2 baselines, 3 Runs, 2 attempts; fairness; 295 k states | applied to the previewed view, one claimant, every revision answers, baseline first, an applied correction is acknowledged |
| `exchange` | 3 publishers of 2 revisions of one source, 1 earlier one, 1 collector, 1 recoverer, 1 reader; fairness; 254 k states | the active revision is whole, owners keep the lock, one revision per source, consumed is active, a crash is recovered |
| `generation` | 2 builders of 2 package versions, 3 commits, 2 moves, 1 damage or stop; fairness; 189 k states | built is its revision, tampering shows, visible is kept, rebuilding converges |
| `barrier_mixed_state`, `run_unbound`, `recovery_takeover` | as the run of the same module; `recovery_takeover` with `Overlap = {"takeover"}` | the findings below |

Bounds of publication. Two requests are needed for two approvals of one revision or
of successive ones, and two operation lists for two change sets that compete for one
approval; approvals of different candidates share nothing but the lease. Two
authorizations give the take-over of a candidate. The two do not meet in one instance:
`publication_safety` has two requests and authorizations, `publication_retry` two
operation lists. Two values of `rest` are what lets a
tree drift and come back. Crashes and retries are not bounded: a publication may be
started, stopped and recovered any number of times. The theorems of section 4 remove
the bounds for everything but liveness.

Bounds of the barrier. Three Generations are what the interesting histories need: a
prior, a target of the same domain revision, a target of another. Two domain
revisions give drift and its repair. One Run suffices because Runs do not interact
with each other except through the gate and `admissionClosed`, which the one Run also
sees in every state it leaves behind; the drain quantifies over all of them. Two
crashes allow a crash during the recovery from a crash. One fault lets each host call
fail once, and a crash or a drain time-out can follow it.

Bounds of the hook controller. Two hooks are a build and one that joins it, or builds of
two Runs; two Runs against a limit of two make the limit bite. The three safety properties
are proved for every number of Runs and hooks and every limit (section 4).

Bounds of the state store. Two corrections of one session make it busy and move the head
under each other; they are of different states, so that both remain in the view. Two
baselines share an event, so that one could be taken for the other. Three Runs are the one
corrected and two successors; two attempts give a late claim of an earlier one. Previews,
lost answers and late calls are not bounded.

Bounds of recovery. Two restores and a hook are the three roles that meet over lock and
journal; both restores use one snapshot and so one stage and rollback file, the worst case
for telling them apart. Two stops are one in a restore and one in what recovers it. Two versions
suffice to tell snapshot and target apart.

Bounds of the exchange. Two publishers of one revision give reuse, the third another
projection of the same source, the earlier one an active revision to protect or collect.
One recoverer: two of them break the lock (see the observations). Each publisher is one
attempt, and stops anywhere.

Bounds of the build. Two builders race for one name; their package versions differ, which
the identity does not cover. Two of the commits differ in one body and the third is
inadmissible; two moves are a commit or checkout between any two of a build's questions,
and one back. `VerifiesOnlyBuilt` has no variables and is written `Init =>
TamperingShows`, so TLC evaluates it in initial states only.

The type invariants `TypeOK` (`StTypeOK`) of these four modules and of `RunAdmission` hold
on these instances too. They are not among the runs' properties, which are kept to what
could be wrong about the code.

Deadlock is checked in the runs of the barrier, the hook controller, recovery and the build.
In those of publication and the exchange it is not: with every request and attempt of the
instance used up the system may really stop. Nor in that of the state store, where an
interrupted `initialize` leaves a database that nothing can be done with (see the observations).

### Fairness

`FairSpec`: weak fairness of start (the host restarts its plugin), of the steps of a
call in progress (`Recovery`, `Activation`: an async function goes on), of a Run's steps
(hooks go on; a scratch expires) and of the pending quarantine write. Requests,
crashes, faults, domain changes and drift detection have none.
`RetrySpec` adds that the operator repeats `sync` whenever the process is idle, that
an unreadable projection becomes readable again, and strong fairness of the end of a Run: its
hooks may fail revalidation on and on, but `agent_end` comes or its scratch expires.
OPERATIONS.md prescribes the repetition, the code does not do it. `ServiceReturns` and
`BlockedReplacementCompletes` need `RetrySpec`; `SyncReturns` does not use it.

`ServiceReturns` keeps nothing of the environment still: the projection may move or be
unreadable under any step, and only the bound on its changes makes it settle. The run is
destructive, so every sync of the second revision over the first forbids roll-back. The
property excepts what repeating `sync` does not get out of, each as a state the instance
comes to rest in: `PriorUnrestorable`, `TargetOutdated` (both in the observations) and
`PathOrphaned` (`SyncBarrierWedge.cfg`). Without any one of the three TLC finds a
counterexample; with them the property also holds for three revisions that each destroy
the one before, and for two changes.

`RetrySpec` of `Publication`: weak fairness of the call in progress (`Step \/ Throws`, an
async function goes on); strong fairness of `Recover` for every change set, because the
lease is contended, i.e. whoever published recovers what a journal says is under way
(the code offers `recover`, the caller has to call it); and an end to crashes and errors
(`<>[][Fails => Complete]_vars`), without which nothing need ever finish. Admission,
expiry and others' commits have no fairness.

`FairSpec` of `RunAdmission`: weak fairness of each call (`Proceeds`: file reads return
and the router has a timeout), of expiry and of the drain's poll. New hooks, resets, the
end of a Run and the sync have none, nor has the drain's timeout. `DrainCompletes`
abstracts from time: it says that what a drain waits for comes to an end and nothing takes
its place, not that it does so within `drain_timeout_ms`. The time to live of a scratch is
that same value (`runtime.ts:370`), so a Run bound, or last observed, after the drain
began outlives the deadline unless it ends by itself, and the drain times out
(`DrainTimesOut`).

`FairSpec` of `InstanceRecovery`: weak fairness of each process' steps and of the hook,
i.e. Runs keep coming; nobody has to restore. `StFairSpec`: strong fairness of a client's
look for its correction and of the repeated transaction, i.e. it asks until one call is
not cut off. `FairSpec` of `ProjectionExchange`: weak fairness of the recoverer, i.e.
somebody calls `recoverPublication` until it succeeds, which the code leaves to its
caller. `FairSpec` of `GenerationBuild`: weak fairness of each builder, whose first step
asks for another build, i.e. builds are asked for again. Stops, damage, edits and
publications have none.

### Findings

Each is a run expected to fail, and TLC's trace is the scenario.

1. **Mixed state after a crash in a replacement sync** (`barrier_mixed_state`,
   `sync/index.ts:593`). A destructive sync fails while the host is being changed, so
   it is blocked. The next sync replaces it, writes `prepared`, and crashes. Recovery
   takes `prepared` to mean that the host is untouched, records `prior_restored` and
   opens the gate; host and pointer disagree.
2. **A Run goes on without a binding in enforce** (`run_unbound`,
   `openclaw/runtime.ts:475`). A hook that finds its Run bound awaits `revalidate` and then
   reads the packet without looking again. If the scratch has expired or was reset
   meanwhile, the hook passes as if the Run were bound, with nothing injected.
3. **A half-done restore is forgotten** (`recovery_takeover`, `recovery/index.ts:1240`). One
   restore has passed its recovery of interrupted restores. Another begins, replaces the
   target and dies. The first takes over the dead one's lock, fails before its own
   replacement, and its catch removes the journal, which is the dead one's; it reports that
   no rollback was required.

Further disagreements with the documents. Each has a configuration in this directory that
makes TLC show it, run by hand (`tlc -config X.cfg MCSyncBarrier`, `MCPublication` or
`InstanceRecovery`):

* `SyncBarrierLeak.cfg` (`DestroyedPriorStaysOut`, `sync/index.ts:945`): a blocked
  replacement is rolled back. The sync that replaces it times out draining, or a domain
  fails validation, before `host_applying`; the catch block's list does not name these
  phases and `recoverPrior` puts the prior paths back.
* `SyncBarrierQuarantine.cfg` (`QuarantineLiftedBySync`, `sync/index.ts:593-603`): over a
  `prepared` or `prior_restored` journal, start-up recovery opens the gate whatever its
  reason code, and so lifts a drift quarantine without a sync.
* `SyncBarrierWedge.cfg` (`BlockedReplacementCompletes`, `openclaw/consumption.ts:582`):
  `applyTarget` overwrites the ownership file before the configuration write. If that
  fails in a destructive sync, no later sync knows the prior path as its own, so it is
  never removed and verification fails every time.
* `PublicationSpent.cfg` (`SpentApprovalStaysSpent`, `admission/persistence.ts:139`):
  `consumeApprovalReceipt` uses an approval up without a publication;
  `preparePublication` looks at `invalidated` but not at `consumed`, so the same receipt
  can still be claimed, published and consumed once more.
* `InstanceRecoveryRace.cfg` (`ServedTargetKept`, `recovery/index.ts:609`): a recovery that
  began while no lock was there removes, at its end, the lock a restore has taken since. A Run
  is then served between that restore's guard and its replacement, and the record is lost
  (V1.md:128 "requires a target that has not served a new Run").

Observations without a promise in the documents to compare with, seen while exploring
variants of the model:

* A first sync that fails behind the gate has no prior pointer; `recoverPrior` throws
  `SYNC_PRIOR_POINTER_MISSING` then and at every later recovery (`PriorUnrestorable`).
* A non-destructive roll-back needs the *prior's* domain revision to be current
  (`activeTarget` compiles the binding), so after a drift it cannot finish, and no sync
  gets past it (`PriorUnrestorable`). A replacement of a destructive sync whose target the
  pointer already names counts as non-destructive and may come to the same end.
* A recovery that finds the pointer switched verifies the target before it does anything else
  (`sync/index.ts:608`). If the domain has moved by then, that throws at every start and in
  every sync, so the new revision can never be synced (`TargetOutdated`).
* A completed activation behind a still closed gate whose verification fails is
  recorded `recovery_failed` and the next recovery rolls it back.
* In the persistent store `consumeApprovalReceipt` sets `invalidated` before it throws,
  and the roll-back of the transaction undoes that.
* Two confirmation requests for one revision give two approvals of the same change;
  only the consumer's base check stops the second publication.
* A claimed approval whose base or tree moves before the commit can be neither
  published nor revoked any more.
* `presentTelegramConfirmation` sends the message before it binds it, and the
  withdrawal in its error path may replace the original error.
* `max_active_runs` bindings are never reached: a build counts its own registration, so
  the last place is never given (`Full`, `runtime.ts:511`). With a limit of 1, which the
  schema allows, `enforce` admits nobody. `tests/integration/runtime-pipeline.test.mjs:493`
  fixes the refusal of a second Run under a limit of 2.
* With `Overlap = TRUE`, `DrainedStaysDrained` fails: an `agent_end` during a build, or a
  reset followed by a second hook of the Run, leaves a build in flight that the drain does
  not count and that binds afterwards.
* In `observe` a hook that joined a build that was refused builds without a registration,
  so `DrainedStaysDrained` is stated for `enforce`.
* A drift that health detected before a corrective sync may be acted on after it, and
  close the gate again.
* State and recovery. An `initialize` that stops after it created the file leaves a
  database without a head or without its first view record: `initialize` only views a file
  that exists, so nothing repairs it. `markRuntimeInstanceRunServed`
  (`state/index.ts:306`) creates a missing database; the instance then has a Run and no
  head, and neither `initialize` nor `restore` accepts it. A correction that commits while
  a restore is between its copy and its rename is lost. A lock or journal that a stop left
  half written makes every restore and every Run fail until it is removed by hand
  (`recovery/index.ts:337`). A row whose claimant died stays `in_flight`; only the restore
  of a backup frees it.
* Exchange. Two recoverers at once break `OwnerKeepsLock` (both pass the second look, one
  removes the lock of a publisher that came after) and with it `ActiveIsWhole`. A lock
  directory without its record reads as "clean" to `recoverPublication` and as
  `PROJECTION_PUBLISH_LOCKED` to everybody else. A removal of a temporary directory or
  revision that was cut short leaves `PROJECTION_RECOVERY_UNCERTAIN`, and a torn revision
  refuses every new source (`#claimSourceBinding` verifies them all).
  `recordLastVerifiedRevision` takes no lock and may vouch for a revision that is being
  collected.
* Build. A bootstrap file torn by a stop is `BOOTSTRAP_TARGET_TAMPERED` at every later
  build, and for a moment also to a build beside the one that writes it
  (`RebuildConverges` excepts the first). A damaged directory is
  `GENERATION_TARGET_INVALID` for good; nothing removes it. `verifyGeneration` checks
  neither that the files a manifest lists are only those a build writes nor their
  dependencies, so `VerifiesOnlyBuilt` speaks of the files a build writes.

## 4. Proofs

### The barrier

`SyncBarrierProofs` proves, for arbitrary sets of Generations, user paths and Runs,
arbitrary domains and bounds, and from the named assumptions of the modules
(`HostAssumption`, which says that no user path is a Generation's, `BoundsAssumption`,
`JournalAssumption`), for every `Destroys`:

* `TypeCorrect`: `Spec => []TypeOK`;
* `GateSafety`: `Spec => []GateClosedWhileUnfinished`;
* `ReceiptSafety`: `Spec => []PointerHasReceipt`;
* `PointerMovesBehindGate`: the action property that the pointer changes only
  behind a closed gate, and only to a Generation with a receipt;
* `UserPathsStay`: `Spec => UserPathsKept`;

and under the hypothesis `Additive` (`Destroys = {}`: no domain revision removes or changes a
document of another, so no roll-back is ever forbidden), which is the instance of
`barrier_safety`:

* `HostMatchesPointer`: `Spec => []OpenGateHostMatchesPointer`;
* `RunSeesItsGeneration`: `Spec => []BoundRunSeesItsGeneration`;
* `PointerSwitchedLast`: `Spec => PointerSwitchIsLast`;
* `BarrierRefinement`: `Spec => ImplementsBarrier`, i.e. the detailed system implements
  `ActivationBarrier`.

Argument. None of the two invariants is inductive: that `RecordPhase` may write
`host_applying` without opening anything is a fact about the program counter. `IInv`
adds it: `Local` says at which program counters a journal exists, the request is a
Generation and the task is a sync proper; `GateSafe` says that the gate is closed not
only for unfinished journals but at every program counter between `WriteGate` and
`OpenGate` (`GateHeld`), and that `OpenGate` is reached only with a finished journal;
`ReceiptSafe` that the requested Generation from `WriteReceipt` to `WritePointer`
(`ReceiptHeld`) and the prior pointer that the journal may restore
have receipts. `RecordedPhase` and `RecordTargets` state what the table
`JournalSteps` contains, so that `StepInv` treats `RecordPhase` like any other action.
`StepInv` has one step per action.

That the host agrees with the pointer whenever the gate is open is a statement about the
three pieces of the host at *every* moment before, because recovery decides from the
journal's phase alone what the host looks like. `HInv` says it: `PhaseAt`, which phase is
recorded at which step; `PointerAt`, that the pointer is the prior one until the commit point
and the target's from then on; `HostAt`, which of configuration, ownership file and index
already belong to which Generation, at each step while a sync or recovery runs and by phase
alone while the process is down; `JournalMatches`, that what a roll-back would restore is the
prior pointer's; and `RunsAt`, that while a Run relies on the host nothing is moving
(`Moving`). `Additive` is needed and not only convenient: with a forbidden roll-back the
phase `prepared` no longer says that the host is untouched, and finding 1 is a counterexample to
`OpenGateHostMatchesPointer`. The refinement maps a Run to the Generation it is bound to and
the exposure to what the host serves; `BarrierRefinement` splits a step by what it does to
these, and the steps that move host or pointer are steps of the barrier because `RunsAt`
shows that no Run is bound there. `IInv` and `HInv` were checked by TLC on the instance of
`barrier_safety` before they were proved.

### Publication and admission

`PublicationProofs` proves, for arbitrary sets of authorizations, candidates,
requests, operation lists and contents and any number of crashes and foreign commits,
from `AdmissionAssumption`, `ReceiptAssumption`, `EditsAssumption`, `JournalAssumption`
and `ChangeSetAssumption` (sentinels differ from values, bounds are naturals):

* `PublicationTypes`, `LiveApprovals`, `SinglePublication`, `Settlement`: the four
  state invariants of the runs;
* `ReviewedBase`: `Spec => PublishedOnReviewedBase`.

Argument. One commit per approval is not inductive: a second commit is prevented by
`Resume` looking for the first, three steps before `Commit`. `IInv` says what each
program counter has established (`AtWork`: before a commit there is none for this
change set, afterwards `found` is its place), what a journal says (`Journalled`: the
approval is claimed for this change set, the tree it was validated against has the
target at the reviewed base, a recorded commit is there) and that every commit was
made for a claimed approval (`Commits`); a claim is for one change set, so two commits
of one approval would be one change set's. `ReviewedBase` follows because the tree
that `Commit` compares is the journal's. The admission half is in
`CandidateAdmissionProofs` (`AdmissionKeeps`): no admission step touches a claimed
receipt (`Untouched`), revisions are only appended (`Grown`), a receipt is issued only for
a pending request (`Fresh`), and revisions that requests and receipts name exist
(`Reviewed`), so publication needs to know nothing else about it.

The refinement, in the same module, is `LedgerImplemented`: `Spec => ImplementsLedger`. Besides
`IInv` it needs `ClaimedIsValid` (what is claimed was approved and is not revoked).
`ReceiptMoves` reduces the ten admission operations to the four things they do to
receipts; of the publication steps three map to steps of the ledger
(`PreparePublication`, `Commit`, `FinalizePublication`, when they are not repeated), the
others stutter. `IInv` was checked by TLC on the instance of `publication_safety` first.

### The hook controller

`RunAdmissionProofs` proves, for arbitrary Runs, pending hooks and limits, from
`CallAssumption` and `LimitAssumption` and for `Overlap = FALSE`:

* `AdmissionTypes`: `Spec => []TypeOK`;
* `Drained`: `Spec => []DrainedStaysDrained`;
* `Refusals`: `Spec => RefusedIsFinal`;
* `Capacity`: `Spec => []CapacityKept`.

Argument. Both properties say that whoever binds is registered and was not refused, long
after the guards that saw to it. `Strong` carries that along: a registration belongs to
the only owner of its Run (`RegisteredOwner`); an owner on its way to a binding is
registered unless a reset made it stale, and its Run is neither bound nor refused
(`FreshIsRegistered`); a call without a registration found its Run bound, so that the Run
is still bound or has been invalidated for good (`UnownedWasBound`). The two parts lean on
each other: an expiry removes a registration, but only that of a bound Run; a refusal by a
joined call concerns a Run that no fresh owner can have. `Capacity` adds that only
`PassesChecks` makes more Runs bound or under way, and that all of these were registered
when it counted. TLC checked `Strong` first, with three hooks.

### User state

`StateStoreProofs` proves, for arbitrary events, sessions, Runs, baselines and numbers of
attempts: `TypeCorrect`; `Applied`, `BaselineBelow`, `Answers` and `Claimant`, the four
state invariants of the run; and `OnlyGrows`, which no run checks: no step takes an event back
or changes the view of a revision the head has reached.

Argument. A baseline is below a served Run because an import asks for a table without one
and the head never goes back. A correction is compared with its preview's *revision* only,
and committed several steps later; that the view is the same needs `LogOnlyGrows`, stated
for the tables as `Viewed`: a preview is the view of a revision the log still has, and the
activation records are none or all up to the head. `Log` keeps the log without repetitions
and its outbox in step, without which a view would not determine a prefix (`ViewKept`,
`PrefixAt`). `ClaimedOnce` says of *every* claim ever handed out, not only of the current
one, that its attempt is no later than its row's and belongs to no other claim; so a late
completion or release can disturb nobody.

### Instance recovery

`InstanceRecoveryProofs` proves, for arbitrary restores, hooks, snapshots, versions and stops,
from `BoundAssumption`, `ProcessAssumption`, `SentinelAssumption` and under the hypothesis
`Separate` (`Overlap = {}`, the instance of the run `recovery`): `TypeCorrect`,
`PriorRecoverable`, `ReportTrue` and `ServedKept`, which are all safety properties of the
run. Without `Separate` they are false (finding 3, `InstanceRecoveryRace.cfg`).

Argument. A restore looks at a file once and relies on it for ten more steps. `RestoreIs`
says for each of its places what is established by then: no journal before it writes its
own, the stage holds the normalised snapshot, the rollback file holds the target of before
the journal, the journal is its own as long as there is something to undo, and what the
result says of the target. That nobody else disturbs this is `Exclusive` (the lock belongs
to the one restore at work; who looks at lock or journal, or records a Run, does so alone
and found no live holder) and `Remembers` (what a process has read is still so when it
acts). `ServedKept` needs the other half: `Committing` (a Run is recorded only while no
restore is past its guard), `ServesLater` (a hook about to record one finds the lock, or a
torn file, while a journal is there) and `Unserved` (nothing that is, or may be, replaced
or brought back has recorded a Run, snapshots included). The conjuncts are inductive only
together. A first version of the model started without snapshots, so that a restore onto
an absent database could not happen; the attempt to prove `ReportTrue` showed it.

### The exchange

`ProjectionExchangeProofs` proves, for arbitrary publishers, collectors, readers,
revisions and sources, and under the hypothesis `Alone` (at most one recoverer at a time):
`TypeCorrect`, `LockKept`, `ActiveWhole`, `OneRevision` and `ConsumedActive`, which are
all safety properties of the run.

Argument. Mutual exclusion by a directory that its owner may leave behind is inductive
only when the recoverer counts as a holder too: it holds the lock by the record of a dead
owner, still the one it read (`Held`). Two recoverers break exactly that (see the
observations), hence `Alone`. One revision per source follows from the binding, which
nothing takes back (`Bound`), and from what a record past its first phase says
(`Claimed`); that the active revision stays whole from what a collector protects at its
sweep (`Sweeping`) and what a publisher has verified before it activates (`Verified`);
what a reader is handed, from `Reading`.

### Generations

`GenerationBuildProofs` proves, for arbitrary commits, contents, builders, package versions and
bounds: `TypeCorrect`, `BuiltFromItsCommit` (`BuiltIsItsRevision`), `VisibleImmutable`
(`VisibleKept`) and `AcceptedOnlyBuilt` (`VerifiesOnlyBuilt`); and of `verifyGeneration` itself,
as a function:

* `VerifiedIsBuilt`: of every directory whose files parse, whatever else is in it and
  however it came about, if it verifies under the name of a Generation then the files that a
  build writes are there and are those that the build of that name writes;
* `BuiltVerifies`: what a build writes verifies, in its staging directory and under its name.

Argument. The builds' invariant is short because the code asks git by object id: a build
carries the commit it was asked for (`BuildsAt`), whatever the checkout does meanwhile,
and every visible directory is what a build of some commit writes (`StorageAt`).
`VerifiedIsBuilt` follows the checks of `verifyGeneration` in order: the lock's seed fixes
the identity, the identity the manifest's fields, the manifest the checksum of every other
file. `AcceptedOnlyBuilt` adds that every loss, exchange, graft and recomputed checksum of
the run leaves a directory whose files parse.

### What is only model-checked

All liveness, which is out of the prover's reach: `SyncReturns`, `ServiceReturns`,
`PublishedGetsSettled`, `DrainCompletes`, `HooksReturn`, `InterruptedIsUndone`,
`AppliedIsAcknowledged`, `CrashIsRecovered`, `RebuildConverges`. Every state invariant and
every action property of the passing runs is a theorem; those of the hook controller, of
recovery and of the exchange, and those of the barrier that need `Additive`, under the
hypotheses above. The runs that expect a violation, and the configurations run by hand, are
about properties the code does not have.

## 5. Plan

In order; done: 1 to 7, except what is named as left.

1. `ActivationBarrier`, `HostConsumption`, `SyncBarrier`, `SyncBarrierProofs`.
2. `RunAdmission` and `RunAdmissionProofs`. Left for later: observations and the
   remediation claim, and the trim of remembered refusals.
3. `CandidateAdmission` and `Publication` under `ApprovalLedger`, with
   `PublicationProofs`. Left for later: the Telegram
   presentation of a confirmation (send, then bind, then withdraw on failure).
4. `StateStore`, with `StateStoreProofs`.
5. `InstanceRecovery`, with `InstanceRecoveryProofs`. Left for later: storage migrations,
   and its composition with `StateStore` in place of `Correct` and `Reanswer`.
6. `ProjectionExchange`, `GenerationArtifacts`, `GenerationBuild`, with
   `ProjectionExchangeProofs` and `GenerationBuildProofs`. Left for later: composition of the
   exchange with `SyncBarrier` in place of `domain` and `readable`.
7. Proofs of every safety property the runs check. Left for later: what holds of the host
   when roll-backs may be forbidden, i.e. `HInv` for every `Destroys` with the window of
   finding 1 excluded.
8. Pure operators against reference definitions: router validation, canonical order,
   retraction closure.

Not modelled, and why: cutover plans (one-time checks by external ports around a sync),
provenance (append-only traces no other component reads), contracts and canonical JSON
(validation and formatting; the models take an atomic file write as one step), the
compatibility matrix, conformance and test drivers (no state of their own), router, packet
and authority parsing (stateless text processing).
