---------------------------- MODULE SyncBarrier ----------------------------
(***************************************************************************)
(* The Activation Barrier (src/src/sync/index.ts) with the host it moves   *)
(* (HostConsumption) and the eligible Runs it keeps out (admission as in   *)
(* src/src/openclaw/runtime.ts).                                           *)
(*                                                                         *)
(* One Runtime process executes recoverInterruptedSync at start-up and     *)
(* syncGeneration on request; the sync lease admits one of the two at a    *)
(* time, so a single program counter pc follows it. Every durable write is *)
(* a step of its own and the process may crash between any two steps.      *)
(* Concurrently Runs are admitted, compiled, bound and end, and the health *)
(* monitor and rejected Runs write a drift quarantine into the gate file,  *)
(* which they do without taking the lease.                                 *)
(*                                                                         *)
(* Abstractions: Generations are model values with their domain revision;  *)
(* timestamps, checksums and receipts' contents are left out, so a receipt *)
(* is the fact that it was written; a failed write of a local file is not  *)
(* told apart from a crash; cutover plans are not modelled.                *)
(***************************************************************************)
EXTENDS HostConsumption, FiniteSets

CONSTANTS
    Runs,         \* eligible Runs
    NoJournal,    \* no sync-journal.json yet
    MaxCrashes,   \* bound on crashes of the process
    MaxFaults,    \* bound on failures of the host and of the build
    MaxChanges    \* bound on publications and outages of the domain projection

ASSUME BoundsAssumption ==
    MaxCrashes \in Nat /\ MaxFaults \in Nat /\ MaxChanges \in Nat

VARIABLES
    \* durable files
    journal,    \* sync-journal.json
    gate,       \* maintenance-gate.json: open (no file), barrier or drift
    pointer,    \* the active Generation pointer
    receipts,   \* Generations with an Activation Receipt
    \* the host, durable too
    cfg, owned, index,
    \* the personal-data exchange
    domain,     \* current domain revision
    readable,   \* the projection can be read and verified
    \* the Runtime process
    pc,
    task,       \* startup: recovery alone; sync: recovery before a sync;
                \* activate: the sync proper
    req,        \* Generation the running sync is to activate
    replacing,  \* interruptedReplacement # null
    hold,       \* priorManaged of the running applyTarget
    admissionClosed,
    runs,       \* what the process knows of each Run
    detecting,  \* the health monitor saw drift and is about to close the gate
    \* bounds
    crashes, faults, changes

durable == <<journal, gate, pointer, receipts>>
host    == <<cfg, owned, index>>
input   == <<domain, readable>>
local   == <<task, req, replacing, hold>>
bounds  == <<crashes, faults, changes>>
vars == <<durable, host, input, pc, local, admissionClosed, runs, detecting, bounds>>

-----------------------------------------------------------------------------
\* Phases of the Sync Journal.
Early_HostApplying == {"prepared", "gate_closed", "runs_drained", "host_applying"}
Early == {"prepared", "gate_closed", "runs_drained"}
HostTouched == {"host_applying", "host_applied", "host_verified",
                "receipt_written", "pointer_written"}
Phases == Early \union HostTouched \union
          {"completed", "prior_restored", "recovery_failed"}

Journal == [phase: Phases, target: Gens, prior: Snapshot,
            priorPointer: Gens \union {NoGen}, restoreForbidden: BOOLEAN]

ASSUME JournalAssumption == NoJournal \notin Journal

\* The steps that only record a phase: where they stand, and what comes next.
JournalSteps_NoReceipt ==
    [recordGateClosed  |-> [phase |-> "gate_closed",     next |-> "drain"],
     recordApplying    |-> [phase |-> "host_applying",   next |-> "applyOwned"],
     recordApplied     |-> [phase |-> "host_applied",    next |-> "verify"],
     recordVerified    |-> [phase |-> "host_verified",   next |-> "recordReceipt"],
     recordReceipt     |-> [phase |-> "receipt_written", next |-> "revalidate"],
     recordPointer     |-> [phase |-> "pointer_written", next |-> "recordCompleted"],
     recordCompleted   |-> [phase |-> "completed",       next |-> "open"],
     recordRestored    |-> [phase |-> "prior_restored",  next |-> "open"]]
JournalSteps ==
    [recordGateClosed  |-> [phase |-> "gate_closed",     next |-> "drain"],
     recordApplying    |-> [phase |-> "host_applying",   next |-> "applyOwned"],
     recordApplied     |-> [phase |-> "host_applied",    next |-> "verify"],
     recordVerified    |-> [phase |-> "host_verified",   next |-> "receipt"],
     recordReceipt     |-> [phase |-> "receipt_written", next |-> "revalidate"],
     recordPointer     |-> [phase |-> "pointer_written", next |-> "recordCompleted"],
     recordCompleted   |-> [phase |-> "completed",       next |-> "open"],
     recordRestored    |-> [phase |-> "prior_restored",  next |-> "open"]]

Applying  == {"applyOwned", "applyConfig", "applyIndex", "verify"}
Restoring == {"restoreConfig", "restoreOwned", "restoreIndex",
              "restorePointer", "restoreVerify"}
PCs == {"down", "idle", "recover", "recoverVerify", "block", "open", "prepare",
        "writeGate", "drain", "validate", "receipt", "revalidate", "pointer"}
       \union Applying \union Restoring \union DOMAIN JournalSteps

RunStates == {"none", "checking", "admitted", "compiled", "bound", "rejecting"}
NoRun == [state |-> "none", gen |-> NoGen]
Live(r) == runs[r].state # "none"
Bound(r) == runs[r].gen # NoGen /\ runs[r].state \in {"bound", "rejecting"}

Up == pc # "down"
At(phase) == journal # NoJournal /\ journal.phase = phase
AtAny(phases) == journal # NoJournal /\ journal.phase \in phases
CanFail == faults < MaxFaults

\* validateGenerationDomainsCurrent
DomainsCurrent(g) == readable /\ DomainOf[g] = domain

\* activeTarget: pointer, receipt and binding compile.
ActiveTargetValid == pointer \in receipts /\ DomainsCurrent(pointer)

SetRun(r, state, g) == runs' = [runs EXCEPT ![r] = [state |-> state, gen |-> g]]
SetPhase(phase) == journal' = [journal EXCEPT !.phase = phase]
Goto(label) == pc' = label
Fault == CanFail /\ faults' = faults + 1
SaveFaults == faults' = faults

\* What follows when recovery, or the sync, has left the gate as it should be.
AfterRecovery == IF task = "sync" THEN "prepare" ELSE "idle"

\* Where recoverPrior begins: without a prior pointer it throws.
RecoverPriorFrom_PointerOnly(j) ==
    IF j.priorPointer = NoGen THEN "block" ELSE "restorePointer"
RecoverPriorFrom(j) == IF j.priorPointer = NoGen THEN "block" ELSE "restoreConfig"

\* The catch block of syncGenerationLocked.
Catch_OpensGate == Goto("open")
Catch ==
    Goto(IF journal.restoreForbidden /\ journal.phase \in HostTouched
         THEN "block" ELSE RecoverPriorFrom(journal))

-----------------------------------------------------------------------------
\* The process.

Init ==
    /\ journal = NoJournal /\ gate = "open"
    /\ pointer \in Gens \union {NoGen}
    /\ receipts = {pointer} \ {NoGen}
    /\ owned = {pointer} \ {NoGen}
    /\ cfg = owned \union UserPaths
    /\ index = cfg
    /\ domain \in Domains /\ readable = TRUE
    /\ pointer # NoGen => domain = DomainOf[pointer]
    /\ pc = "down" /\ task = "startup" /\ req = NoGen
    /\ replacing = FALSE /\ hold = {}
    /\ admissionClosed = FALSE
    /\ runs = [r \in Runs |-> NoRun] /\ detecting = FALSE
    /\ crashes = 0 /\ faults = 0 /\ changes = 0

\* The plugin registers: hooks are live at once, recovery starts beside them.
Start ==
    /\ pc = "down" /\ Goto("recover") /\ task' = "startup"
    /\ admissionClosed' = FALSE
    /\ UNCHANGED <<durable, host, input, req, replacing, hold, runs, detecting, bounds>>

\* An interrupted index command leaves the index anywhere on its way.
Crash ==
    /\ Up /\ crashes < MaxCrashes /\ crashes' = crashes + 1
    /\ Goto("down") /\ task' = "startup" /\ req' = NoGen
    /\ replacing' = FALSE /\ hold' = {}
    /\ admissionClosed' = FALSE
    /\ runs' = [r \in Runs |-> NoRun] /\ detecting' = FALSE
    /\ IF pc \in {"applyIndex", "restoreIndex"}
       THEN index' \in InterruptedIndex(index, cfg)
       ELSE index' = index
    /\ UNCHANGED <<durable, cfg, owned, input, faults, changes>>

\* The domain projection is published anew, or cannot be read for a while.
DomainChanges ==
    /\ changes < MaxChanges /\ changes' = changes + 1
    /\ \/ /\ domain' \in {d \in Domains : d > domain} /\ readable' = readable
       \/ readable' = FALSE /\ readable /\ domain' = domain
    /\ UNCHANGED <<durable, host, pc, local, admissionClosed, runs, detecting,
                   crashes, faults>>

DomainReturns ==
    /\ ~readable /\ readable' = TRUE
    /\ UNCHANGED <<durable, host, domain, pc, local, admissionClosed, runs,
                   detecting, bounds>>

-----------------------------------------------------------------------------
\* recoverInterruptedSyncLocked: one action per way through it.

Recovering == pc = "recover"

\* No journal, or a finished one behind an open gate: nothing to do.
RecoverNothing ==
    /\ Recovering
    /\ journal = NoJournal \/ (At("completed") /\ gate = "open")
    /\ Goto(AfterRecovery)
    /\ UNCHANGED <<durable, host, input, local, admissionClosed, runs, detecting, bounds>>

\* Before the host was touched, the prior state is taken to be in place.
RecoverEarly ==
    /\ Recovering /\ AtAny(Early)
    /\ SetPhase("prior_restored") /\ Goto("open")
    /\ UNCHANGED <<gate, pointer, receipts, host, input, local, admissionClosed, runs,
                   detecting, bounds>>

RecoverRestored ==
    /\ Recovering /\ At("prior_restored") /\ Goto("open")
    /\ UNCHANGED <<durable, host, input, local, admissionClosed, runs, detecting, bounds>>

\* A drift quarantine over a finished sync stays.
RecoverQuarantined ==
    /\ Recovering /\ At("completed") /\ gate = "drift"
    /\ admissionClosed' = TRUE /\ Goto(AfterRecovery)
    /\ UNCHANGED <<durable, host, input, local, runs, detecting, bounds>>

\* The commit point was passed: verify the target and finish.
PointerSwitched ==
    AtAny({"receipt_written", "pointer_written"}) /\ pointer = journal.target

RecoverForward ==
    /\ Recovering
    /\ PointerSwitched \/ (At("completed") /\ gate = "barrier")
    /\ admissionClosed' = TRUE /\ Goto("recoverVerify")
    /\ UNCHANGED <<durable, host, input, local, runs, detecting, bounds>>

Unfinished == AtAny(HostTouched \union {"recovery_failed"}) /\ ~PointerSwitched

\* The prior must not come back: only a new sync may go on from here.
RecoverDestructive_Blocks ==
    /\ Recovering /\ Unfinished /\ journal.restoreForbidden
    /\ admissionClosed' = TRUE /\ replacing' = FALSE /\ Goto("block")
    /\ UNCHANGED <<durable, host, input, task, req, hold, runs, detecting, bounds>>
RecoverDestructive ==
    /\ Recovering /\ Unfinished /\ journal.restoreForbidden
    /\ admissionClosed' = TRUE
    /\ IF task = "sync"
       THEN replacing' = TRUE /\ Goto("prepare")
       ELSE replacing' = FALSE /\ Goto("block")
    /\ UNCHANGED <<durable, host, input, task, req, hold, runs, detecting, bounds>>

RecoverBackward ==
    /\ Recovering /\ Unfinished /\ ~journal.restoreForbidden
    /\ admissionClosed' = TRUE /\ Goto(RecoverPriorFrom(journal))
    /\ UNCHANGED <<durable, host, input, local, runs, detecting, bounds>>

\* activeTarget and host.verifyTarget of an activated or completed target.
RecoverVerify ==
    /\ pc = "recoverVerify" /\ ActiveTargetValid
    /\ HostVerified(cfg, index, pointer, NoGen)
    /\ Goto(IF At("completed") THEN "open" ELSE "recordCompleted")
    /\ UNCHANGED <<durable, host, input, local, admissionClosed, runs, detecting, bounds>>

\* Only the completed journal is verified inside the try block.
RecoverVerifyFails ==
    /\ pc = "recoverVerify"
    /\ IF ActiveTargetValid /\ HostVerified(cfg, index, pointer, NoGen)
       THEN Fault ELSE SaveFaults
    /\ IF At("completed")
       THEN Goto("block") /\ UNCHANGED <<task, req>>
       ELSE Goto("idle") /\ task' = "startup" /\ req' = NoGen
    /\ UNCHANGED <<durable, host, input, replacing, hold, admissionClosed, runs, detecting,
                   crashes, changes>>

-----------------------------------------------------------------------------
\* recoverPrior, from recovery and from the catch block of a sync.

RestoreConfig ==
    /\ pc = "restoreConfig" /\ Goto("restoreOwned")
    /\ cfg' = RestoredPaths(cfg, owned, journal.prior)
    /\ UNCHANGED <<durable, owned, index, input, local, admissionClosed, runs, detecting,
                   bounds>>

RestoreOwned ==
    /\ pc = "restoreOwned" /\ Goto("restoreIndex")
    /\ owned' = journal.prior.managed
    /\ UNCHANGED <<durable, cfg, index, input, local, admissionClosed, runs, detecting,
                   bounds>>

RestoreIndex ==
    /\ pc = "restoreIndex" /\ Goto("restorePointer") /\ index' = cfg
    /\ UNCHANGED <<durable, cfg, owned, input, local, admissionClosed, runs, detecting,
                   bounds>>

RestorePointer ==
    /\ pc = "restorePointer" /\ Goto("restoreVerify")
    /\ pointer' = journal.priorPointer
    /\ UNCHANGED <<journal, gate, receipts, host, input, local, admissionClosed, runs,
                   detecting, bounds>>

RestoreVerify ==
    /\ pc = "restoreVerify" /\ ActiveTargetValid
    /\ HostVerified(cfg, index, pointer, NoGen)
    /\ Goto("recordRestored")
    /\ UNCHANGED <<durable, host, input, local, admissionClosed, runs, detecting, bounds>>

\* A host call fails, or the prior state cannot be proven.
RestoreFails_Retries ==
    /\ pc = "restoreVerify" /\ Goto("restoreConfig")
    /\ ~(ActiveTargetValid /\ HostVerified(cfg, index, pointer, NoGen))
    /\ UNCHANGED <<durable, host, input, local, admissionClosed, runs, detecting, bounds>>
RestoreFails ==
    /\ Goto("block")
    /\ \/ pc = "restoreConfig" /\ Fault /\ index' = index
       \/ pc = "restoreIndex" /\ Fault /\ index' \in InterruptedIndex(index, cfg)
       \/ /\ pc = "restoreVerify" /\ index' = index
          /\ IF ActiveTargetValid /\ HostVerified(cfg, index, pointer, NoGen)
             THEN Fault ELSE SaveFaults
    /\ UNCHANGED <<durable, cfg, owned, input, local, admissionClosed, runs, detecting,
                   crashes, changes>>

\* recovery_failed is recorded and the call throws; the gate stays as it is.
Block ==
    /\ pc = "block" /\ Goto("idle") /\ task' = "startup" /\ req' = NoGen
    /\ SetPhase("recovery_failed")
    /\ admissionClosed' = (admissionClosed \/ task = "startup")
    /\ UNCHANGED <<gate, pointer, receipts, host, input, replacing, hold, runs, detecting,
                   bounds>>

\* openGate and openAdmission.
OpenGate ==
    /\ pc = "open" /\ gate' = "open" /\ admissionClosed' = FALSE
    /\ Goto(AfterRecovery)
    /\ IF task = "sync" THEN UNCHANGED <<task, req>>
       ELSE task' = "startup" /\ req' = NoGen
    /\ UNCHANGED <<journal, pointer, receipts, host, input, replacing, hold, runs,
                   detecting, bounds>>

-----------------------------------------------------------------------------
\* syncGenerationLocked.

\* performSync reads the domain projection, then waits for the lease.
BeginSync(g) ==
    /\ pc = "idle" /\ DomainsCurrent(g)
    /\ Goto("recover") /\ task' = "sync" /\ req' = g
    /\ UNCHANGED <<durable, host, input, replacing, hold, admissionClosed, runs, detecting,
                   bounds>>

\* The Generation is built, the host captured and the journal begun. A
\* replacement keeps what the interrupted sync had captured.
Prepare ==
    /\ pc = "prepare" /\ Goto("writeGate") /\ task' = "activate"
    /\ journal' =
         [phase |-> "prepared",
          target |-> req,
          prior |-> IF replacing THEN journal.prior ELSE Capture(cfg, owned),
          priorPointer |-> IF replacing THEN journal.priorPointer ELSE pointer,
          restoreForbidden |-> ForbidsPriorRestore(req, pointer)]
    /\ replacing' = FALSE
    /\ UNCHANGED <<gate, pointer, receipts, host, input, req, hold, admissionClosed, runs,
                   detecting, bounds>>

\* Building, verifying or capturing throws before anything was written.
PrepareFails ==
    /\ pc = "prepare" /\ Fault
    /\ Goto("idle") /\ task' = "startup" /\ req' = NoGen /\ replacing' = FALSE
    /\ UNCHANGED <<durable, host, input, hold, admissionClosed, runs, detecting, crashes,
                   changes>>

WriteGate_InMemory ==
    /\ pc = "writeGate" /\ Goto("recordGateClosed")
    /\ admissionClosed' = TRUE
    /\ UNCHANGED <<durable, host, input, local, runs, detecting, bounds>>
WriteGate ==
    /\ pc = "writeGate" /\ Goto("recordGateClosed")
    /\ gate' = "barrier" /\ admissionClosed' = TRUE
    /\ UNCHANGED <<journal, pointer, receipts, host, input, local, runs, detecting, bounds>>

\* writeJournal(journalAt(journal, phase)), wherever that is all a step does.
RecordPhase ==
    /\ pc \in DOMAIN JournalSteps
    /\ SetPhase(JournalSteps[pc].phase) /\ Goto(JournalSteps[pc].next)
    /\ UNCHANGED <<gate, pointer, receipts, host, input, local, admissionClosed, runs,
                   detecting, bounds>>

\* drain: no Run is being built or bound.
Drain_ScratchOnly ==
    /\ pc = "drain" /\ \A r \in Runs : runs[r].state # "bound"
    /\ SetPhase("runs_drained") /\ Goto("validate")
    /\ UNCHANGED <<gate, pointer, receipts, host, input, local, admissionClosed, runs,
                   detecting, bounds>>
Drain ==
    /\ pc = "drain" /\ \A r \in Runs : ~Live(r)
    /\ SetPhase("runs_drained") /\ Goto("validate")
    /\ UNCHANGED <<gate, pointer, receipts, host, input, local, admissionClosed, runs,
                   detecting, bounds>>

DrainTimeout ==
    /\ pc = "drain" /\ \E r \in Runs : Live(r)
    /\ Catch
    /\ UNCHANGED <<durable, host, input, local, admissionClosed, runs, detecting, bounds>>

\* validateGenerationDomainsCurrent, before the host is touched and again
\* before the pointer is written.
Validate ==
    /\ \/ pc = "validate" /\ DomainsCurrent(req) /\ Goto("recordApplying")
       \/ pc = "revalidate" /\ DomainsCurrent(req) /\ Goto("pointer")
       \/ pc \in {"validate", "revalidate"} /\ ~DomainsCurrent(req) /\ Catch
    /\ UNCHANGED <<durable, host, input, local, admissionClosed, runs, detecting, bounds>>

\* applyTarget: ownership first, then the configuration, then the index.
ApplyOwned ==
    /\ pc = "applyOwned" /\ Goto("applyConfig")
    /\ owned' = {req} /\ hold' = owned
    /\ UNCHANGED <<durable, cfg, index, input, task, req, replacing, admissionClosed, runs,
                   detecting, bounds>>

ApplyConfig ==
    /\ pc = "applyConfig" /\ Goto("applyIndex")
    /\ cfg' = TargetPaths(cfg, hold, req) /\ hold' = {}
    /\ UNCHANGED <<durable, owned, index, input, task, req, replacing, admissionClosed,
                   runs, detecting, bounds>>

ApplyIndex ==
    /\ pc = "applyIndex" /\ Goto("recordApplied") /\ index' = cfg
    /\ UNCHANGED <<durable, cfg, owned, input, local, admissionClosed, runs, detecting,
                   bounds>>

\* verifyTarget against the Generation it replaces, then the domains again.
Verify ==
    /\ pc = "verify" /\ HostVerified(cfg, index, req, pointer) /\ DomainsCurrent(req)
    /\ Goto("recordVerified")
    /\ UNCHANGED <<durable, host, input, local, admissionClosed, runs, detecting, bounds>>

\* A host call fails, or the target cannot be proven.
ApplyFails ==
    /\ \/ pc = "applyConfig" /\ Fault /\ index' = index
       \/ pc = "applyIndex" /\ Fault /\ index' \in InterruptedIndex(index, cfg)
       \/ /\ pc = "verify" /\ index' = index
          /\ IF HostVerified(cfg, index, req, pointer) /\ DomainsCurrent(req)
             THEN Fault ELSE SaveFaults
    /\ Catch /\ hold' = {}
    /\ UNCHANGED <<durable, cfg, owned, input, task, req, replacing, admissionClosed,
                   runs, detecting, crashes, changes>>

WriteReceipt ==
    /\ pc = "receipt" /\ Goto("recordReceipt")
    /\ receipts' = receipts \union {req}
    /\ UNCHANGED <<journal, gate, pointer, host, input, local, admissionClosed, runs,
                   detecting, bounds>>

WritePointer ==
    /\ pc = "pointer" /\ Goto("recordPointer") /\ pointer' = req
    /\ UNCHANGED <<journal, gate, receipts, host, input, local, admissionClosed, runs,
                   detecting, bounds>>

-----------------------------------------------------------------------------
\* Eligible Runs. A Run that is being built counts for the drain from the
\* moment it passed the admissionClosed check.

SaveForRuns == UNCHANGED <<journal, pointer, receipts, host, input, pc, local, bounds>>

RunStart(r) ==
    /\ Up /\ runs[r] = NoRun /\ ~admissionClosed
    /\ SetRun(r, "checking", NoGen)
    /\ UNCHANGED <<gate, admissionClosed, detecting>> /\ SaveForRuns

RunLoadsGate(r) ==
    /\ runs[r].state = "checking"
    /\ SetRun(r, IF gate = "open" THEN "admitted" ELSE "none", NoGen)
    /\ UNCHANGED <<gate, admissionClosed, detecting>> /\ SaveForRuns

\* compile binds the Run to the active Generation. A domain that is not the
\* pointer's closes admission and quarantines; a missing pointer only rejects.
RunCompiles(r) ==
    /\ runs[r].state = "admitted"
    /\ \/ ActiveTargetValid /\ SetRun(r, "compiled", pointer) /\ UNCHANGED admissionClosed
       \/ /\ pointer \in receipts /\ ~DomainsCurrent(pointer)
          /\ SetRun(r, "rejecting", NoGen) /\ admissionClosed' = TRUE
       \/ pointer \notin receipts /\ SetRun(r, "none", NoGen) /\ UNCHANGED admissionClosed
    /\ UNCHANGED <<gate, detecting>> /\ SaveForRuns

\* Routing done, the Run's scratch is acquired.
RunBinds(r) ==
    /\ runs[r].state = "compiled" /\ SetRun(r, "bound", runs[r].gen)
    /\ UNCHANGED <<gate, admissionClosed, detecting>> /\ SaveForRuns

\* A bound Run is revalidated by a later hook and its domain has moved.
RunRevalidationFails(r) ==
    /\ runs[r].state = "bound" /\ ~DomainsCurrent(runs[r].gen)
    /\ SetRun(r, "rejecting", runs[r].gen) /\ admissionClosed' = TRUE
    /\ UNCHANGED <<gate, detecting>> /\ SaveForRuns

\* closeMaintenanceGate on behalf of a rejected Run; a bound one keeps its
\* scratch until it ends.
RunQuarantines(r) ==
    /\ runs[r].state = "rejecting" /\ gate' = "drift"
    /\ SetRun(r, IF runs[r].gen = NoGen THEN "none" ELSE "bound", runs[r].gen)
    /\ UNCHANGED <<admissionClosed, detecting>> /\ SaveForRuns

\* agent_end, expiry of the scratch, or a degraded build.
RunEnds(r) ==
    /\ runs[r].state \in {"compiled", "bound"} /\ SetRun(r, "none", NoGen)
    /\ UNCHANGED <<gate, admissionClosed, detecting>> /\ SaveForRuns

\* The health monitor finds the active Generation's domain drifted ...
HealthDetects ==
    /\ Up /\ ~detecting /\ pointer \in receipts /\ ~DomainsCurrent(pointer)
    /\ detecting' = TRUE
    /\ UNCHANGED <<gate, admissionClosed, runs>> /\ SaveForRuns

\* ... and later, without the lease, closes the gate.
HealthQuarantines ==
    /\ detecting /\ detecting' = FALSE /\ gate' = "drift"
    /\ UNCHANGED <<admissionClosed, runs>> /\ SaveForRuns

-----------------------------------------------------------------------------
Recovery ==
    \/ RecoverNothing \/ RecoverEarly \/ RecoverRestored \/ RecoverQuarantined
    \/ RecoverForward \/ RecoverDestructive \/ RecoverBackward
    \/ RecoverVerify \/ RecoverVerifyFails
    \/ RestoreConfig \/ RestoreOwned \/ RestoreIndex \/ RestorePointer
    \/ RestoreVerify \/ RestoreFails \/ Block \/ OpenGate

Activation ==
    \/ Prepare \/ PrepareFails \/ WriteGate \/ RecordPhase
    \/ Drain \/ DrainTimeout \/ Validate
    \/ ApplyOwned \/ ApplyConfig \/ ApplyIndex \/ Verify \/ ApplyFails
    \/ WriteReceipt \/ WritePointer

RunStep(r) ==
    \/ RunLoadsGate(r) \/ RunCompiles(r) \/ RunBinds(r)
    \/ RunRevalidationFails(r) \/ RunQuarantines(r) \/ RunEnds(r)

Environment == Crash \/ DomainChanges \/ DomainReturns

Next ==
    \/ Start \/ (\E g \in Gens : BeginSync(g)) \/ Recovery \/ Activation
    \/ (\E r \in Runs : RunStart(r) \/ RunStep(r))
    \/ HealthDetects \/ HealthQuarantines
    \/ Environment

Spec == Init /\ [][Next]_vars

(***************************************************************************)
(* Fairness. The process goes on with what it has begun and is restarted   *)
(* when it is down; a Run's hooks go on and its scratch expires. Requests, *)
(* crashes, faults and the projection's publications have none.            *)
(***************************************************************************)
FairSpec ==
    /\ Spec
    /\ WF_vars(Start) /\ WF_vars(Recovery) /\ WF_vars(Activation)
    /\ \A r \in Runs : WF_vars(RunStep(r))
    /\ WF_vars(HealthQuarantines)

\* The operator, too, runs sync again whenever the process is idle, an
\* unreadable projection becomes readable, and no Run lives for ever: its
\* hooks may fail on and on, but agent_end comes or its scratch expires.
RetrySpec ==
    /\ FairSpec
    /\ WF_vars(\E g \in Gens : BeginSync(g)) /\ WF_vars(DomainReturns)
    /\ \A r \in Runs : SF_vars(RunEnds(r))

-----------------------------------------------------------------------------
TypeOK ==
    /\ journal \in Journal \union {NoJournal}
    /\ gate \in {"open", "barrier", "drift"}
    /\ pointer \in Gens \union {NoGen}
    /\ receipts \subseteq Gens
    /\ cfg \subseteq Paths /\ owned \subseteq Gens /\ index \subseteq Paths
    /\ domain \in Domains /\ readable \in BOOLEAN
    /\ pc \in PCs /\ task \in {"startup", "sync", "activate"}
    /\ req \in Gens \union {NoGen}
    /\ replacing \in BOOLEAN /\ hold \subseteq Gens
    /\ admissionClosed \in BOOLEAN
    /\ runs \in [Runs -> [state: RunStates, gen: Gens \union {NoGen}]]
    /\ detecting \in BOOLEAN
    /\ crashes \in 0..MaxCrashes /\ faults \in 0..MaxFaults
    /\ changes \in 0..MaxChanges

(* The Maintenance Gate is closed whenever the journal records an           *)
(* unfinished or failed transition, whatever crashed in between (ADR 0007;  *)
(* the order of writeJournal, writeGate and openGate).                      *)
GateClosedWhileUnfinished ==
    AtAny({"gate_closed", "runs_drained", "recovery_failed"} \union HostTouched)
        => gate # "open"

(* Behind an open gate the host is configured for, and serves, exactly the  *)
(* active Generation (ADR 0007: host, index and pointer move together).     *)
OpenGateHostMatchesPointer ==
    gate = "open" =>
        /\ index \intersect Gens = {pointer} \ {NoGen}
        /\ cfg \intersect Gens = {pointer} \ {NoGen}

(* A Run is bound to one Generation, and while it lives the host serves     *)
(* that Generation and no other (the purpose of admission and drain).       *)
BoundRunSeesItsGeneration ==
    \A r \in Runs : Bound(r) =>
        index \intersect Gens = {runs[r].gen}

(* The active pointer never names a Generation without Activation Receipt,  *)
(* across crashes and roll-backs (ADR 0017).                                *)
PointerHasReceipt == pointer \in receipts \union {NoGen}

(* The pointer is switched, forward or back, only behind a closed gate, to  *)
(* a Generation the host already serves alone, and with no Run bound.       *)
PointerSwitchIsLast ==
    [][pointer' # pointer =>
         /\ gate # "open"
         /\ pointer' \in receipts
         /\ index \intersect Gens = {pointer'}
         /\ \A r \in Runs : ~Bound(r)]_vars

(* Retrieval paths the user configured are never dropped by an activation,  *)
(* a roll-back or a retry of either (consumption.ts: preserved, unrelated). *)
UserPathsKept == [][cfg \intersect UserPaths \subseteq cfg']_vars

(* A sync or recovery that has begun comes back: it never waits forever for *)
(* Runs, and every failure path ends in a throw or a crash.                 *)
SyncReturns == pc \notin {"idle", "down"} ~> pc \in {"idle", "down"}

\* The three ways in which repeating sync gets nowhere: the roll-back every
\* sync begins with needs a prior that no longer compiles, or that never was;
\* the same for a target whose commit point was passed; and the host holds a
\* path that the ownership file has lost.
PriorUnrestorable ==
    /\ At("recovery_failed") /\ ~journal.restoreForbidden
    /\ journal.priorPointer = NoGen \/ DomainOf[journal.priorPointer] # domain
TargetOutdated == PointerSwitched /\ DomainOf[pointer] # domain
PathOrphaned == gate # "open" /\ ~(cfg \intersect Gens \subseteq owned)

ServesCurrent ==
    gate = "open" /\ ~admissionClosed /\ pointer # NoGen /\ DomainsCurrent(pointer)

(* However the domain projection moved, under a build, an activation or a   *)
(* roll-back, and whether or not that forbids the prior: once it, faults    *)
(* and crashes have settled, an operator who repeats sync gets a Runtime    *)
(* that admits Runs and serves the projection as it is now, unless the      *)
(* instance has come to rest in one of the three dead ends above.           *)
ServiceReturns ==
    \/ []<>ServesCurrent
    \/ <>[]PriorUnrestorable \/ <>[]TargetOutdated \/ <>[]PathOrphaned

-----------------------------------------------------------------------------
(* The barrier implements its promise: as long as no publication destroys   *)
(* documents of an earlier one, the gate file, the pointer and the index    *)
(* behave as ActivationBarrier's serving, active and exposed.               *)
Barrier == INSTANCE ActivationBarrier WITH
    active <- pointer,
    exposed <- index \intersect Gens,
    serving <- (gate = "open"),
    binding <- [r \in Runs |-> runs[r].gen]

ImplementsBarrier == Barrier!Spec

-----------------------------------------------------------------------------
(* What the documents say and the code does not keep; see README.           *)

(* OPERATIONS.md: when a replacement removed or changed documents and its   *)
(* indexing became uncertain, the leaking prior set is not restored: no     *)
(* roll-back puts back a path whose documents the target had destroyed.     *)
DestroyedPriorStaysOut ==
    [][pc = "restoreConfig" =>
         \A g \in (cfg' \ cfg) \intersect Gens :
             <<DomainOf[g], DomainOf[journal.target]>> \notin Destroys]_vars

(* CONTEXT.md: verified domain drift is quarantined pending a corrective    *)
(* sync: only a completed sync lifts a drift quarantine.                    *)
QuarantineLiftedBySync ==
    [][gate = "drift" /\ gate' = "open" => At("completed")]_vars

(* OPERATIONS.md: after a blocked destructive replacement a later sync may  *)
(* complete a verified target; with finitely many faults and a settled      *)
(* projection, retrying does complete it.                                   *)
BlockedReplacementCompletes ==
    (At("recovery_failed") /\ journal.restoreForbidden) ~> At("completed")
=============================================================================
