------------------------- MODULE SyncBarrierProofs -------------------------
(***************************************************************************)
(* Safety of the Activation Barrier for every set of Generations, Runs and *)
(* paths, every domain history and every bound.                            *)
(*                                                                         *)
(* The first part holds with destructive replacements included: types, the *)
(* gate, the receipts. The second is about the host: where its             *)
(* configuration, ownership file and index stand at each step of a sync, a *)
(* recovery or a crash in either (HInv). It assumes Additive: without it   *)
(* the host does leave the pointer (finding MixedState in the README). The *)
(* third shows that the barrier implements ActivationBarrier.              *)
(***************************************************************************)
EXTENDS SyncBarrier, TLAPS

\* A journal exists at every step that rewrites or reads it.
NeedsJournal == PCs \ {"down", "idle", "recover", "prepare"}

\* The gate is closed from the moment it is written until openGate.
GateHeld == PCs \ {"down", "idle", "recover", "prepare", "writeGate", "open"}

\* From Prepare to the pointer a sync is under way; its receipt is written last.
Syncing == {"writeGate", "recordGateClosed", "drain", "validate",
            "recordApplying", "recordApplied", "recordVerified", "receipt",
            "recordReceipt", "revalidate", "pointer", "recordPointer"} \union Applying
ReceiptHeld == {"recordReceipt", "revalidate", "pointer", "recordPointer"}

UnfinishedPhases ==
    {"gate_closed", "runs_drained", "recovery_failed"} \union HostTouched

(* The inductive invariant: which pc needs what, and that the pointers that *)
(* a journal or the active file may be set to have their receipts.          *)
Local ==
    /\ pc \in NeedsJournal => journal # NoJournal
    /\ replacing => journal # NoJournal
    /\ task # "startup" => req \in Gens
    /\ pc = "prepare" => task = "sync"
    /\ pc \in Syncing => task = "activate"

GateSafe ==
    /\ pc \in GateHeld => gate # "open"
    /\ AtAny(UnfinishedPhases) => gate # "open"
    /\ pc = "open" => AtAny({"completed", "prior_restored"})

ReceiptSafe ==
    /\ pc \in ReceiptHeld => req \in receipts
    /\ pointer \in receipts \union {NoGen}
    /\ journal # NoJournal => journal.priorPointer \in receipts \union {NoGen}

IInv == TypeOK /\ Local /\ GateSafe /\ ReceiptSafe

-----------------------------------------------------------------------------
(* Recording a phase keeps a journal a journal and changes nothing else.    *)
LEMMA RecordedPhase ==
    ASSUME NEW j \in Journal, NEW p \in Phases
    PROVE  /\ [j EXCEPT !.phase = p] \in Journal
           /\ [j EXCEPT !.phase = p].phase = p
           /\ [j EXCEPT !.phase = p].priorPointer = j.priorPointer
    BY DEF Journal

(* The table of recording steps: where each one leads and what it records.  *)
LEMMA RecordTargets ==
    ASSUME NEW l \in DOMAIN JournalSteps
    PROVE  /\ l \in NeedsJournal \intersect GateHeld
           /\ JournalSteps[l].phase \in Phases
           /\ JournalSteps[l].next \in GateHeld \union {"open"}
           /\ JournalSteps[l].next = "open" =>
                  JournalSteps[l].phase \in {"completed", "prior_restored"}
           /\ JournalSteps[l].next \in Syncing => l \in Syncing
           /\ JournalSteps[l].next \in ReceiptHeld => l \in ReceiptHeld
    BY DEF JournalSteps, NeedsJournal, GateHeld, PCs, Applying, Restoring,
       Phases, Early, HostTouched, Syncing, ReceiptHeld

(* What recovery or a sync adds to the retrieval paths are paths, and an    *)
(* interrupted index serves paths.                                          *)
LEMMA HostTypes ==
    ASSUME NEW c \in SUBSET Paths, NEW o \in SUBSET Gens, NEW i \in SUBSET Paths
    PROVE  /\ Capture(c, o) \in Snapshot
           /\ \A g \in Gens : TargetPaths(c, o, g) \in SUBSET Paths
           /\ \A s \in Snapshot : RestoredPaths(c, o, s) \in SUBSET Paths
           /\ InterruptedIndex(i, c) \subseteq SUBSET Paths
    BY DEF Capture, Snapshot, TargetPaths, RestoredPaths, InterruptedIndex,
       Paths

(* The initial states satisfy the invariant.                                *)
LEMMA InitInv == Init => IInv
<1> SUFFICES ASSUME Init PROVE IInv
    OBVIOUS
<1>1. TypeOK
  <2>1. /\ receipts \subseteq Gens /\ owned \subseteq Gens
        /\ cfg \subseteq Paths /\ index \subseteq Paths
    BY DEF Init, Paths
  <2>2. runs \in [Runs -> [state: RunStates, gen: Gens \union {NoGen}]]
    BY DEF Init, NoRun, RunStates
  <2>3. crashes \in 0..MaxCrashes /\ faults \in 0..MaxFaults /\ changes \in 0..MaxChanges
    BY BoundsAssumption DEF Init
  <2>4. pc \in PCs
    BY DEF Init, PCs
  <2> QED BY <2>1, <2>2, <2>3, <2>4 DEF Init, TypeOK
<1>2. Local /\ GateSafe /\ ReceiptSafe
    BY DEF Init, Local, GateSafe, ReceiptSafe, NeedsJournal, Syncing, Applying,
       GateHeld, ReceiptHeld, AtAny
<1> QED BY <1>1, <1>2 DEF IInv
(* Every step keeps it.                                                     *)
LEMMA StepInv == IInv /\ [Next]_vars => IInv'
<1> SUFFICES ASSUME IInv, [Next]_vars PROVE IInv'
    OBVIOUS
<1> USE DEF IInv, Local, GateSafe, ReceiptSafe, AtAny, At, Goto, NeedsJournal,
       GateHeld, Syncing, ReceiptHeld, Applying, UnfinishedPhases, HostTouched,
       durable, host, input, local, bounds, Recovering, AfterRecovery, SetPhase,
       SaveFaults, Fault, SaveForRuns
<1>1. CASE Start
  <2>1. TypeOK'
    BY <1>1 DEF Start, TypeOK, PCs, Restoring
  <2>2. Local' /\ GateSafe' /\ ReceiptSafe'
    BY <1>1 DEF Start, TypeOK
  <2> QED BY <2>1, <2>2
<1>2. CASE Crash
  <2>1. TypeOK'
    <3>1. runs' \in [Runs -> [state: RunStates, gen: Gens \union {NoGen}]]
      BY <1>2 DEF Crash, NoRun, RunStates
    <3>2. index' \in SUBSET Paths
      BY <1>2, HostTypes DEF Crash, TypeOK
    <3>3. crashes' \in 0..MaxCrashes
      BY <1>2, BoundsAssumption DEF Crash, TypeOK
    <3> QED BY <1>2, <3>1, <3>2, <3>3 DEF Crash, TypeOK, PCs
  <2>2. Local' /\ GateSafe' /\ ReceiptSafe'
    BY <1>2 DEF Crash, TypeOK
  <2> QED BY <2>1, <2>2
<1>3. CASE DomainChanges
  <2>1. TypeOK'
    <3>1. changes' \in 0..MaxChanges
      BY <1>3, BoundsAssumption DEF DomainChanges, TypeOK
    <3> QED BY <1>3, <3>1 DEF DomainChanges, TypeOK
  <2>2. Local' /\ GateSafe' /\ ReceiptSafe'
    BY <1>3 DEF DomainChanges, TypeOK
  <2> QED BY <2>1, <2>2
<1>4. CASE DomainReturns
  <2>1. TypeOK'
    BY <1>4 DEF DomainReturns, TypeOK, PCs, Restoring
  <2>2. Local' /\ GateSafe' /\ ReceiptSafe'
    BY <1>4 DEF DomainReturns, TypeOK
  <2> QED BY <2>1, <2>2
<1>5. CASE RecoverNothing
  <2>1. TypeOK'
    BY <1>5 DEF RecoverNothing, TypeOK, PCs, Restoring
  <2>2. Local' /\ GateSafe' /\ ReceiptSafe'
    BY <1>5 DEF RecoverNothing, TypeOK
  <2> QED BY <2>1, <2>2
<1>6. CASE RecoverEarly
  <2>1. /\ journal' \in Journal
        /\ journal'.phase = "prior_restored"
        /\ journal'.priorPointer = journal.priorPointer
    <3>1. journal \in Journal /\ "prior_restored" \in Phases
      BY <1>6 DEF RecoverEarly, TypeOK, Phases, Early
    <3> QED BY <1>6, <3>1, RecordedPhase DEF RecoverEarly
  <2>2. journal # NoJournal /\ journal' # NoJournal
    BY <1>6, <2>1, JournalAssumption DEF RecoverEarly, PCs
  <2>3. TypeOK'
    BY <1>6, <2>1 DEF RecoverEarly, TypeOK, PCs, Restoring
  <2>4. Local' /\ GateSafe' /\ ReceiptSafe'
    BY <1>6, <2>1, <2>2 DEF RecoverEarly, TypeOK, Early
  <2> QED BY <2>3, <2>4
<1>7. CASE RecoverRestored
  <2>1. TypeOK'
    BY <1>7 DEF RecoverRestored, TypeOK, PCs, Restoring
  <2>2. Local' /\ GateSafe' /\ ReceiptSafe'
    BY <1>7 DEF RecoverRestored, TypeOK
  <2> QED BY <2>1, <2>2
<1>8. CASE RecoverQuarantined
  <2>1. TypeOK'
    BY <1>8 DEF RecoverQuarantined, TypeOK, PCs, Restoring
  <2>2. Local' /\ GateSafe' /\ ReceiptSafe'
    BY <1>8 DEF RecoverQuarantined, TypeOK
  <2> QED BY <2>1, <2>2
<1>9. CASE RecoverForward
  <2>1. TypeOK'
    BY <1>9 DEF RecoverForward, TypeOK, PCs, Restoring
  <2>2. Local' /\ GateSafe' /\ ReceiptSafe'
    BY <1>9 DEF RecoverForward, TypeOK, PointerSwitched
  <2> QED BY <2>1, <2>2
<1>10. CASE RecoverDestructive
  <2>1. TypeOK'
    BY <1>10 DEF RecoverDestructive, TypeOK, PCs, Restoring
  <2>2. Local' /\ GateSafe' /\ ReceiptSafe'
    BY <1>10 DEF RecoverDestructive, TypeOK, Unfinished, PointerSwitched
  <2> QED BY <2>1, <2>2
<1>11. CASE RecoverBackward
  <2>1. TypeOK'
    BY <1>11 DEF RecoverBackward, TypeOK, PCs, Restoring, RecoverPriorFrom
  <2>2. Local' /\ GateSafe' /\ ReceiptSafe'
    BY <1>11 DEF RecoverBackward, TypeOK, Unfinished, PointerSwitched,
       RecoverPriorFrom, Restoring
  <2> QED BY <2>1, <2>2
<1>12. CASE RecoverVerify
  <2>1. TypeOK'
    BY <1>12 DEF RecoverVerify, TypeOK, PCs, Restoring, JournalSteps
  <2>2. Local' /\ GateSafe' /\ ReceiptSafe'
    BY <1>12 DEF RecoverVerify, TypeOK
  <2> QED BY <2>1, <2>2
<1>13. CASE RecoverVerifyFails
  <2>1. TypeOK'
    BY <1>13, BoundsAssumption DEF RecoverVerifyFails, TypeOK, PCs, Restoring,
       CanFail
  <2>2. Local' /\ GateSafe' /\ ReceiptSafe'
    BY <1>13 DEF RecoverVerifyFails, TypeOK
  <2> QED BY <2>1, <2>2
<1>14. CASE RestoreConfig
  <2>1. TypeOK'
    <3>1. journal.prior \in Snapshot
      BY <1>14 DEF RestoreConfig, TypeOK, Journal
    <3>2. cfg' \in SUBSET Paths
      BY <1>14, <3>1, HostTypes DEF RestoreConfig, TypeOK
    <3> QED BY <1>14, <3>2 DEF RestoreConfig, TypeOK, PCs, Restoring
  <2>2. Local' /\ GateSafe' /\ ReceiptSafe'
    BY <1>14 DEF RestoreConfig, TypeOK, Restoring
  <2> QED BY <2>1, <2>2
<1>15. CASE RestoreOwned
  <2>1. TypeOK'
    BY <1>15 DEF RestoreOwned, TypeOK, PCs, Restoring, Journal, Snapshot
  <2>2. Local' /\ GateSafe' /\ ReceiptSafe'
    BY <1>15 DEF RestoreOwned, TypeOK, Restoring
  <2> QED BY <2>1, <2>2
<1>16. CASE RestoreIndex
  <2>1. TypeOK'
    BY <1>16 DEF RestoreIndex, TypeOK, PCs, Restoring
  <2>2. Local' /\ GateSafe' /\ ReceiptSafe'
    BY <1>16 DEF RestoreIndex, TypeOK, Restoring
  <2> QED BY <2>1, <2>2
<1>17. CASE RestorePointer
  <2>1. TypeOK'
    BY <1>17 DEF RestorePointer, TypeOK, PCs, Restoring, Journal
  <2>2. Local' /\ GateSafe' /\ ReceiptSafe'
    BY <1>17 DEF RestorePointer, TypeOK, Restoring
  <2> QED BY <2>1, <2>2
<1>18. CASE RestoreVerify
  <2>1. TypeOK'
    BY <1>18 DEF RestoreVerify, TypeOK, PCs, Restoring, JournalSteps
  <2>2. Local' /\ GateSafe' /\ ReceiptSafe'
    BY <1>18 DEF RestoreVerify, TypeOK, Restoring
  <2> QED BY <2>1, <2>2
<1>19. CASE RestoreFails
  <2>1. TypeOK'
    <3>1. index' \in SUBSET Paths
      BY <1>19, HostTypes DEF RestoreFails, TypeOK
    <3>2. faults' \in 0..MaxFaults
      BY <1>19, BoundsAssumption DEF RestoreFails, TypeOK, CanFail
    <3> QED BY <1>19, <3>1, <3>2 DEF RestoreFails, TypeOK, PCs
  <2>2. Local' /\ GateSafe' /\ ReceiptSafe'
    BY <1>19 DEF RestoreFails, TypeOK, Restoring
  <2> QED BY <2>1, <2>2
<1>20. CASE Block
  <2>1. /\ journal' \in Journal
        /\ journal'.phase = "recovery_failed"
        /\ journal'.priorPointer = journal.priorPointer
    <3>1. journal \in Journal /\ "recovery_failed" \in Phases
      BY <1>20 DEF Block, TypeOK, Phases, Early
    <3> QED BY <1>20, <3>1, RecordedPhase DEF Block
  <2>2. journal # NoJournal /\ journal' # NoJournal
    BY <1>20, <2>1, JournalAssumption DEF Block, PCs
  <2>3. TypeOK'
    BY <1>20, <2>1 DEF Block, TypeOK, PCs, Restoring
  <2>4. Local' /\ GateSafe' /\ ReceiptSafe'
    BY <1>20, <2>1, <2>2 DEF Block, TypeOK, Early
  <2> QED BY <2>3, <2>4
<1>21. CASE OpenGate
  <2>1. TypeOK'
    BY <1>21 DEF OpenGate, TypeOK, PCs, Restoring
  <2>2. Local' /\ GateSafe' /\ ReceiptSafe'
    BY <1>21 DEF OpenGate, TypeOK
  <2> QED BY <2>1, <2>2
<1>22. CASE Prepare
  <2>1. journal' \in Journal
    <3>1. req \in Gens /\ ForbidsPriorRestore(req, pointer) \in BOOLEAN
      BY <1>22 DEF Prepare, ForbidsPriorRestore
    <3>2. Capture(cfg, owned) \in Snapshot /\ pointer \in Gens \union {NoGen}
      BY HostTypes DEF TypeOK
    <3>3. CASE replacing
      <4>1. journal.prior \in Snapshot /\ journal.priorPointer \in Gens \union {NoGen}
        BY <3>3 DEF TypeOK, Journal
      <4> QED BY <1>22, <3>1, <3>3, <4>1 DEF Prepare, Journal, Phases, Early
    <3>4. CASE ~replacing
      BY <1>22, <3>1, <3>2, <3>4 DEF Prepare, Journal, Phases, Early
    <3> QED BY <3>3, <3>4 DEF TypeOK
  <2>2. /\ journal'.phase = "prepared" /\ journal' # NoJournal
        /\ journal'.priorPointer \in receipts \union {NoGen}
    BY <1>22, <2>1, JournalAssumption DEF Prepare, TypeOK
  <2>3. TypeOK'
    BY <1>22, <2>1 DEF Prepare, TypeOK, PCs
  <2>4. Local' /\ GateSafe' /\ ReceiptSafe'
    BY <1>22, <2>2 DEF Prepare, TypeOK
  <2> QED BY <2>3, <2>4
<1>23. CASE PrepareFails
  <2>1. TypeOK'
    <3>1. faults' \in 0..MaxFaults
      BY <1>23, BoundsAssumption DEF PrepareFails, TypeOK, CanFail
    <3> QED BY <1>23, <3>1 DEF PrepareFails, TypeOK, PCs
  <2>2. Local' /\ GateSafe' /\ ReceiptSafe'
    BY <1>23 DEF PrepareFails, TypeOK
  <2> QED BY <2>1, <2>2
<1>24. CASE WriteGate
  <2>1. TypeOK'
    BY <1>24 DEF WriteGate, TypeOK, PCs, Restoring, JournalSteps
  <2>2. Local' /\ GateSafe' /\ ReceiptSafe'
    BY <1>24 DEF WriteGate, TypeOK
  <2> QED BY <2>1, <2>2
<1>25. CASE RecordPhase
  <2>1. /\ journal' \in Journal
        /\ journal'.phase = JournalSteps[pc].phase
        /\ journal'.priorPointer = journal.priorPointer
    <3>1. journal \in Journal /\ JournalSteps[pc].phase \in Phases
      BY <1>25, RecordTargets DEF RecordPhase, TypeOK, Phases, Early
    <3> QED BY <1>25, <3>1, RecordedPhase DEF RecordPhase
  <2>2. journal # NoJournal /\ journal' # NoJournal
    BY <1>25, RecordTargets, <2>1, JournalAssumption DEF RecordPhase, PCs
  <2>3. TypeOK'
    BY <1>25, <2>1, RecordTargets DEF RecordPhase, TypeOK, PCs, Restoring
  <2>4. Local' /\ GateSafe' /\ ReceiptSafe'
    BY <1>25, <2>1, <2>2, RecordTargets DEF RecordPhase, TypeOK, Early
  <2> QED BY <2>3, <2>4
<1>26. CASE Drain
  <2>1. /\ journal' \in Journal
        /\ journal'.phase = "runs_drained"
        /\ journal'.priorPointer = journal.priorPointer
    <3>1. journal \in Journal /\ "runs_drained" \in Phases
      BY <1>26 DEF Drain, TypeOK, Phases, Early
    <3> QED BY <1>26, <3>1, RecordedPhase DEF Drain
  <2>2. journal # NoJournal /\ journal' # NoJournal
    BY <1>26, <2>1, JournalAssumption DEF Drain, PCs
  <2>3. TypeOK'
    BY <1>26, <2>1 DEF Drain, TypeOK, PCs, Restoring
  <2>4. Local' /\ GateSafe' /\ ReceiptSafe'
    BY <1>26, <2>1, <2>2 DEF Drain, TypeOK, Early
  <2> QED BY <2>3, <2>4
<1>27. CASE DrainTimeout
  <2>1. TypeOK'
    BY <1>27 DEF DrainTimeout, TypeOK, PCs, Restoring, Catch, RecoverPriorFrom
  <2>2. Local' /\ GateSafe' /\ ReceiptSafe'
    BY <1>27 DEF DrainTimeout, TypeOK, Catch, RecoverPriorFrom, Restoring
  <2> QED BY <2>1, <2>2
<1>28. CASE Validate
  <2>1. TypeOK'
    BY <1>28 DEF Validate, TypeOK, PCs, Restoring, JournalSteps, Catch,
       RecoverPriorFrom
  <2>2. Local' /\ GateSafe' /\ ReceiptSafe'
    BY <1>28 DEF Validate, TypeOK, Catch, RecoverPriorFrom, Restoring
  <2> QED BY <2>1, <2>2
<1>29. CASE ApplyOwned
  <2>1. TypeOK'
    BY <1>29 DEF ApplyOwned, TypeOK, PCs, Restoring
  <2>2. Local' /\ GateSafe' /\ ReceiptSafe'
    BY <1>29 DEF ApplyOwned, TypeOK
  <2> QED BY <2>1, <2>2
<1>30. CASE ApplyConfig
  <2>1. TypeOK'
    BY <1>30, HostTypes DEF ApplyConfig, TypeOK, PCs, Restoring
  <2>2. Local' /\ GateSafe' /\ ReceiptSafe'
    BY <1>30 DEF ApplyConfig, TypeOK
  <2> QED BY <2>1, <2>2
<1>31. CASE ApplyIndex
  <2>1. TypeOK'
    BY <1>31 DEF ApplyIndex, TypeOK, PCs, Restoring, JournalSteps
  <2>2. Local' /\ GateSafe' /\ ReceiptSafe'
    BY <1>31 DEF ApplyIndex, TypeOK
  <2> QED BY <2>1, <2>2
<1>32. CASE Verify
  <2>1. TypeOK'
    BY <1>32 DEF Verify, TypeOK, PCs, Restoring, JournalSteps
  <2>2. Local' /\ GateSafe' /\ ReceiptSafe'
    BY <1>32 DEF Verify, TypeOK
  <2> QED BY <2>1, <2>2
<1>33. CASE ApplyFails
  <2>1. TypeOK'
    <3>1. index' \in SUBSET Paths
      BY <1>33, HostTypes DEF ApplyFails, TypeOK
    <3>2. faults' \in 0..MaxFaults
      BY <1>33, BoundsAssumption DEF ApplyFails, TypeOK, CanFail
    <3> QED BY <1>33, <3>1, <3>2 DEF ApplyFails, TypeOK, PCs, Restoring, Catch,
           RecoverPriorFrom
  <2>2. Local' /\ GateSafe' /\ ReceiptSafe'
    BY <1>33 DEF ApplyFails, TypeOK, Catch, RecoverPriorFrom, Restoring
  <2> QED BY <2>1, <2>2
<1>34. CASE WriteReceipt
  <2>1. TypeOK'
    BY <1>34 DEF WriteReceipt, TypeOK, PCs, Restoring, JournalSteps
  <2>2. Local' /\ GateSafe' /\ ReceiptSafe'
    BY <1>34 DEF WriteReceipt, TypeOK
  <2> QED BY <2>1, <2>2
<1>35. CASE WritePointer
  <2>1. TypeOK'
    BY <1>35 DEF WritePointer, TypeOK, PCs, Restoring, JournalSteps
  <2>2. Local' /\ GateSafe' /\ ReceiptSafe'
    BY <1>35 DEF WritePointer, TypeOK
  <2> QED BY <2>1, <2>2
<1>36. CASE HealthDetects
  <2>1. TypeOK'
    BY <1>36 DEF HealthDetects, TypeOK, PCs, Restoring
  <2>2. Local' /\ GateSafe' /\ ReceiptSafe'
    BY <1>36 DEF HealthDetects, TypeOK
  <2> QED BY <2>1, <2>2
<1>37. CASE HealthQuarantines
  <2>1. TypeOK'
    BY <1>37 DEF HealthQuarantines, TypeOK, PCs, Restoring
  <2>2. Local' /\ GateSafe' /\ ReceiptSafe'
    BY <1>37 DEF HealthQuarantines, TypeOK
  <2> QED BY <2>1, <2>2
<1>38. ASSUME NEW r \in Runs, RunStart(r) PROVE IInv'
  <2>1. runs' \in [Runs -> [state: RunStates, gen: Gens \union {NoGen}]]
    BY <1>38 DEF RunStart, TypeOK, RunStates, SetRun
  <2>2. TypeOK'
    BY <1>38, <2>1 DEF RunStart, TypeOK
  <2>3. Local' /\ GateSafe' /\ ReceiptSafe'
    BY <1>38 DEF RunStart, TypeOK
  <2> QED BY <2>2, <2>3
<1>39. ASSUME NEW r \in Runs, RunLoadsGate(r) PROVE IInv'
  <2>1. runs' \in [Runs -> [state: RunStates, gen: Gens \union {NoGen}]]
    BY <1>39 DEF RunLoadsGate, TypeOK, RunStates, SetRun
  <2>2. TypeOK'
    BY <1>39, <2>1 DEF RunLoadsGate, TypeOK
  <2>3. Local' /\ GateSafe' /\ ReceiptSafe'
    BY <1>39 DEF RunLoadsGate, TypeOK
  <2> QED BY <2>2, <2>3
<1>40. ASSUME NEW r \in Runs, RunCompiles(r) PROVE IInv'
  <2>1. runs' \in [Runs -> [state: RunStates, gen: Gens \union {NoGen}]]
    BY <1>40 DEF RunCompiles, TypeOK, RunStates, SetRun
  <2>2. TypeOK'
    BY <1>40, <2>1 DEF RunCompiles, TypeOK
  <2>3. Local' /\ GateSafe' /\ ReceiptSafe'
    BY <1>40 DEF RunCompiles, TypeOK
  <2> QED BY <2>2, <2>3
<1>41. ASSUME NEW r \in Runs, RunBinds(r) PROVE IInv'
  <2>1. runs' \in [Runs -> [state: RunStates, gen: Gens \union {NoGen}]]
    BY <1>41 DEF RunBinds, TypeOK, RunStates, SetRun
  <2>2. TypeOK'
    BY <1>41, <2>1 DEF RunBinds, TypeOK
  <2>3. Local' /\ GateSafe' /\ ReceiptSafe'
    BY <1>41 DEF RunBinds, TypeOK
  <2> QED BY <2>2, <2>3
<1>42. ASSUME NEW r \in Runs, RunRevalidationFails(r) PROVE IInv'
  <2>1. runs' \in [Runs -> [state: RunStates, gen: Gens \union {NoGen}]]
    BY <1>42 DEF RunRevalidationFails, TypeOK, RunStates, SetRun
  <2>2. TypeOK'
    BY <1>42, <2>1 DEF RunRevalidationFails, TypeOK
  <2>3. Local' /\ GateSafe' /\ ReceiptSafe'
    BY <1>42 DEF RunRevalidationFails, TypeOK
  <2> QED BY <2>2, <2>3
<1>43. ASSUME NEW r \in Runs, RunQuarantines(r) PROVE IInv'
  <2>1. runs' \in [Runs -> [state: RunStates, gen: Gens \union {NoGen}]]
    BY <1>43 DEF RunQuarantines, TypeOK, RunStates, SetRun
  <2>2. TypeOK'
    BY <1>43, <2>1 DEF RunQuarantines, TypeOK
  <2>3. Local' /\ GateSafe' /\ ReceiptSafe'
    BY <1>43 DEF RunQuarantines, TypeOK
  <2> QED BY <2>2, <2>3
<1>44. ASSUME NEW r \in Runs, RunEnds(r) PROVE IInv'
  <2>1. runs' \in [Runs -> [state: RunStates, gen: Gens \union {NoGen}]]
    BY <1>44 DEF RunEnds, TypeOK, RunStates, SetRun
  <2>2. TypeOK'
    BY <1>44, <2>1 DEF RunEnds, TypeOK
  <2>3. Local' /\ GateSafe' /\ ReceiptSafe'
    BY <1>44 DEF RunEnds, TypeOK
  <2> QED BY <2>2, <2>3
<1>45. ASSUME NEW g \in Gens, BeginSync(g) PROVE IInv'
  <2>1. TypeOK'
    BY <1>45 DEF BeginSync, TypeOK, PCs
  <2>2. Local' /\ GateSafe' /\ ReceiptSafe'
    BY <1>45 DEF BeginSync, TypeOK
  <2> QED BY <2>1, <2>2
<1>46. CASE UNCHANGED vars
  <2>1. TypeOK'
    BY <1>46 DEF vars, TypeOK
  <2>2. Local' /\ GateSafe' /\ ReceiptSafe'
    BY <1>46 DEF vars, TypeOK
  <2> QED BY <2>1, <2>2
<1> QED
    BY <1>1, <1>2, <1>3, <1>4, <1>5, <1>6, <1>7, <1>8, <1>9, <1>10, <1>11,
       <1>12, <1>13, <1>14, <1>15, <1>16, <1>17, <1>18, <1>19, <1>20, <1>21,
       <1>22, <1>23, <1>24, <1>25, <1>26, <1>27, <1>28, <1>29, <1>30, <1>31,
       <1>32, <1>33, <1>34, <1>35, <1>36, <1>37, <1>38, <1>39, <1>40, <1>41,
       <1>42, <1>43, <1>44, <1>45, <1>46 DEF Next, Recovery, Activation,
       RunStep, Environment

-----------------------------------------------------------------------------
(* Every reachable state satisfies the inductive invariant.                 *)
THEOREM Invariant == Spec => []IInv
<1>1. Init => IInv
    BY InitInv
<1>2. IInv /\ [Next]_vars => IInv'
    BY StepInv
<1> QED BY <1>1, <1>2, PTL DEF Spec

(* The type invariant, for every value of the constants.                    *)
THEOREM TypeCorrect == Spec => []TypeOK
<1>1. IInv => TypeOK
    BY DEF IInv
<1> QED BY <1>1, Invariant, PTL

(* Whatever crashes, fails or drifts, and whichever step of a sync, a       *)
(* recovery or a replacement it interrupts, the Maintenance Gate is closed  *)
(* as long as the journal records an unfinished or failed transition.       *)
THEOREM GateSafety == Spec => []GateClosedWhileUnfinished
<1>1. IInv => GateClosedWhileUnfinished
    BY DEF IInv, GateSafe, GateClosedWhileUnfinished, AtAny, UnfinishedPhases
<1> QED BY <1>1, Invariant, PTL

(* The active pointer always names a Generation with an Activation Receipt, *)
(* also when recovery sets it back.                                         *)
THEOREM ReceiptSafety == Spec => []PointerHasReceipt
<1>1. IInv => PointerHasReceipt
    BY DEF IInv, ReceiptSafe, PointerHasReceipt
<1> QED BY <1>1, Invariant, PTL

(* No step moves the pointer while the gate is open, and none moves it to a *)
(* Generation without receipt (the pointer part of PointerSwitchIsLast).    *)
THEOREM PointerMovesBehindGate ==
    Spec => [][pointer' # pointer => gate # "open" /\ pointer' \in receipts \union {NoGen}]_vars
<1>1. IInv /\ [Next]_vars =>
        [pointer' # pointer => gate # "open" /\ pointer' \in receipts \union {NoGen}]_vars
  <2> SUFFICES ASSUME IInv, Next, pointer' # pointer
               PROVE  gate # "open" /\ pointer' \in receipts \union {NoGen}
    OBVIOUS
  <2>1. RestorePointer \/ WritePointer
    BY DEF Next, Recovery, Activation, RunStep, Environment, durable,
       SaveForRuns, Start, Crash, DomainChanges, DomainReturns, BeginSync,
       RecoverNothing, RecoverEarly, RecoverRestored, RecoverQuarantined,
       RecoverForward, RecoverDestructive, RecoverBackward, RecoverVerify,
       RecoverVerifyFails, RestoreConfig, RestoreOwned, RestoreIndex,
       RestoreVerify, RestoreFails, Block, OpenGate, Prepare, PrepareFails,
       WriteGate, RecordPhase, Drain, DrainTimeout, Validate, ApplyOwned,
       ApplyConfig, ApplyIndex, Verify, ApplyFails, WriteReceipt, HealthDetects,
       HealthQuarantines, RunStart, RunLoadsGate, RunCompiles, RunBinds,
       RunRevalidationFails, RunQuarantines, RunEnds
  <2>2. CASE RestorePointer
    BY <2>2 DEF RestorePointer, IInv, Local, GateSafe, ReceiptSafe,
       NeedsJournal, GateHeld, PCs, Restoring
  <2>3. CASE WritePointer
    BY <2>3 DEF WritePointer, IInv, GateSafe, ReceiptSafe, ReceiptHeld,
       GateHeld, PCs
  <2> QED BY <2>1, <2>2, <2>3
<1> QED BY <1>1, Invariant, PTL DEF Spec

-----------------------------------------------------------------------------
\* No publication destroys documents of an earlier one, so the prior state may
\* always be restored.
Additive == Destroys = {}

\* The one Generation, or none.
One(g) == {g} \ {NoGen}

\* The host is configured for, owns and serves one Generation, or none.
Settled(g) ==
    /\ owned = One(g)
    /\ cfg \intersect Gens = One(g)
    /\ index \intersect Gens = One(g)

\* From its admission to its end a Run relies on the host.
Relies(r) == runs[r].state \in {"admitted", "compiled", "bound"} \/ runs[r].gen # NoGen

\* Phases in which the host is the pointer's.
Untouched == Early \union {"prior_restored", "completed"}

\* Phases in which it is on its way to the target.
BeforeReceipt == {"host_applying", "host_applied", "host_verified"}

\* Steps after the target, or the prior Generation, is all there.
Applied == {"recordApplied", "verify", "recordVerified", "receipt", "recordReceipt",
            "revalidate", "pointer", "recordPointer"}
Restored == {"restoreVerify", "recordRestored"}

\* What the journal would restore is what its prior pointer names.
JournalMatches ==
    /\ ~replacing
    /\ journal # NoJournal =>
        /\ ~journal.restoreForbidden
        /\ journal.prior.managed = One(journal.priorPointer)
        /\ journal.prior.paths \intersect Gens = One(journal.priorPointer)

\* The pointer is the prior one until the commit point, then the target.
PointerAt ==
    /\ AtAny(Early \union BeforeReceipt \union {"prior_restored"}) =>
        pointer = journal.priorPointer
    /\ AtAny({"receipt_written", "recovery_failed"}) =>
        pointer \in {journal.priorPointer, journal.target}
    /\ At("receipt_written") /\ pc \in Restoring \union {"revalidate", "pointer"} =>
        pointer = journal.priorPointer
    /\ AtAny({"pointer_written", "completed"}) => pointer = journal.target

\* Which phase the journal has at each step.
PhaseAt ==
    /\ pc \in {"writeGate", "recordGateClosed"} => At("prepared")
    /\ pc = "drain" => At("gate_closed")
    /\ pc \in {"validate", "recordApplying"} => At("runs_drained")
    /\ pc \in {"applyOwned", "applyConfig", "applyIndex", "recordApplied"} =>
        At("host_applying")
    /\ pc \in {"verify", "recordVerified"} => At("host_applied")
    /\ pc \in {"receipt", "recordReceipt"} => At("host_verified")
    /\ pc \in {"revalidate", "pointer", "recordPointer"} => At("receipt_written")
    /\ pc \in Syncing => req = journal.target
    /\ pc = "recordPointer" => pointer = req
    /\ pc = "recordCompleted" => PointerSwitched
    /\ pc = "recoverVerify" => PointerSwitched \/ At("completed")
    /\ pc \in Restoring \union {"recordRestored"} =>
        /\ AtAny(Early \union BeforeReceipt \union {"receipt_written", "recovery_failed"})
        /\ journal.priorPointer # NoGen
    /\ pc = "prepare" => journal = NoJournal \/ AtAny({"prior_restored", "completed"})

\* Where the host stands, by phase while the process is down and by step
\* while a sync or a recovery runs.
HostAt ==
    /\ journal = NoJournal \/ AtAny(Untouched) \/ PointerSwitched => Settled(pointer)
    /\ AtAny(HostTouched \union {"recovery_failed"}) =>
        cfg \intersect Gens \subseteq journal.prior.managed \union owned
    /\ pc = "applyOwned" => Settled(pointer)
    /\ pc = "applyConfig" =>
        owned = {req} /\ hold = One(pointer) /\ cfg \intersect Gens = hold
    /\ pc = "applyIndex" => owned = {req} /\ cfg \intersect Gens = {req}
    /\ pc \in Applied => Settled(req)
    /\ pc \in {"restoreOwned", "restoreIndex"} =>
        cfg \intersect Gens = One(journal.priorPointer)
    /\ pc = "restoreIndex" => owned = One(journal.priorPointer)
    /\ pc \in Restored \union {"restorePointer"} => Settled(journal.priorPointer)
    /\ pc \in Restored => pointer = journal.priorPointer

\* Where the host may be moved away from the pointer, or the pointer from the host.
Moving ==
    \/ AtAny({"runs_drained"} \union HostTouched)
    \/ pc = "recoverVerify"
    \/ At("completed") /\ (pc = "block" \/ gate = "barrier")
    \/ At("recovery_failed") /\ pointer # journal.priorPointer

\* A Run relies on the pointer's Generation, and nothing is moved under it.
RunsAt ==
    \A r \in Runs :
        /\ runs[r].state \in {"none", "checking", "admitted"} => runs[r].gen = NoGen
        /\ Relies(r) =>
            /\ Settled(pointer)
            /\ runs[r].gen \in {NoGen, pointer}
            /\ ~Moving

(* The inductive invariant of the host.                                     *)
HInv == JournalMatches /\ PointerAt /\ PhaseAt /\ HostAt /\ RunsAt

-----------------------------------------------------------------------------
(* applyTarget leaves the target's path as the only managed one, provided   *)
(* the paths it took for its own were all of them.                          *)
LEMMA AppliedHost ==
    ASSUME NEW c \in SUBSET Paths, NEW o \in SUBSET Gens, NEW g \in Gens,
           c \intersect Gens = o
    PROVE  TargetPaths(c, o, g) \intersect Gens = {g}
    BY DEF TargetPaths

(* restore leaves the captured managed paths and no other, provided every   *)
(* other managed path is one the ownership file claims.                     *)
LEMMA RestoredHost ==
    ASSUME NEW c \in SUBSET Paths, NEW o \in SUBSET Gens, NEW s \in Snapshot,
           c \intersect Gens \subseteq s.managed \union o,
           s.paths \intersect Gens = s.managed
    PROVE  RestoredPaths(c, o, s) \intersect Gens = s.managed
    BY DEF RestoredPaths, Snapshot

(* Recording a phase keeps what a restore would need.                       *)
LEMMA Rephased ==
    ASSUME NEW j \in Journal, NEW p \in Phases
    PROVE  LET k == [j EXCEPT !.phase = p]
           IN  /\ k # NoJournal /\ k.phase = p
               /\ k.target = j.target /\ k.prior = j.prior
               /\ k.priorPointer = j.priorPointer
               /\ k.restoreForbidden = j.restoreForbidden
    BY JournalAssumption DEF Journal

(* The host's invariant holds at first: it was left by a finished sync.     *)
LEMMA HostInit == Init => HInv
<1> SUFFICES ASSUME Init PROVE HInv
    OBVIOUS
<1>1. Settled(pointer)
    BY HostAssumption DEF Init, Settled, One
<1> QED BY <1>1 DEF Init, HInv, JournalMatches, PointerAt, PhaseAt, HostAt,
       RunsAt, Relies, NoRun, AtAny, At, Moving, Syncing, Applying, Applied,
       Restored, Restoring, PointerSwitched

(* Every step keeps the host's invariant: one step per action, and under it *)
(* one per part of HInv where the action disturbs several.                  *)
LEMMA HostStep == ASSUME Additive, IInv, HInv, IInv', [Next]_vars PROVE HInv'
<1> USE DEF Additive, JournalMatches, PointerAt, PhaseAt, HostAt, RunsAt, AtAny,
       At, Goto, Syncing, Applying, Applied, Restored, Restoring, Untouched,
       BeforeReceipt, HostTouched, Early, Moving, Relies, Settled, durable,
       host, input, local, bounds, Recovering, AfterRecovery, SetPhase,
       SaveFaults, Fault, SaveForRuns, PointerSwitched, SetRun, IInv, HInv,
       TypeOK, NeedsJournal, Local, GateSafe, GateHeld
<1>1. CASE Start
    BY <1>1, SMTT(20) DEF Start
<1>2. CASE Crash
  <2>5. JournalMatches'
    BY <1>2, SMTT(30) DEF Crash, InterruptedIndex, NoRun
  <2>6. PointerAt'
    BY <1>2, SMTT(30) DEF Crash, InterruptedIndex, NoRun
  <2>7. PhaseAt'
    BY <1>2, SMTT(30) DEF Crash, InterruptedIndex, NoRun
  <2>8. HostAt'
    BY <1>2, SMTT(30) DEF Crash, InterruptedIndex, NoRun
  <2>9. RunsAt'
    BY <1>2, SMTT(30) DEF Crash, InterruptedIndex, NoRun
  <2> QED BY <2>5, <2>6, <2>7, <2>8, <2>9
<1>3. CASE DomainChanges
    BY <1>3, SMTT(20) DEF DomainChanges
<1>4. CASE DomainReturns
    BY <1>4, SMTT(20) DEF DomainReturns
<1>5. CASE RecoverNothing
    BY <1>5, SMTT(20) DEF RecoverNothing
<1>6. CASE RecoverEarly
    BY <1>6, SMTT(20) DEF RecoverEarly
<1>7. CASE RecoverRestored
    BY <1>7, SMTT(20) DEF RecoverRestored
<1>8. CASE RecoverQuarantined
    BY <1>8, SMTT(20) DEF RecoverQuarantined
<1>9. CASE RecoverForward
    BY <1>9, SMTT(20) DEF RecoverForward
<1>10. CASE RecoverDestructive
    BY <1>10, SMTT(20) DEF RecoverDestructive
<1>11. CASE RecoverBackward
  <2>5. JournalMatches'
    BY <1>11, SMTT(30) DEF RecoverBackward, RecoverPriorFrom, Unfinished
  <2>6. PointerAt'
    BY <1>11, SMTT(30) DEF RecoverBackward, RecoverPriorFrom, Unfinished
  <2>7. PhaseAt'
    BY <1>11, SMTT(30) DEF RecoverBackward, RecoverPriorFrom, Unfinished
  <2>8. HostAt'
    BY <1>11, SMTT(30) DEF RecoverBackward, RecoverPriorFrom, Unfinished
  <2>9. RunsAt'
    BY <1>11, SMTT(30) DEF RecoverBackward, RecoverPriorFrom, Unfinished
  <2> QED BY <2>5, <2>6, <2>7, <2>8, <2>9
<1>12. CASE RecoverVerify
    BY <1>12, SMTT(20) DEF RecoverVerify
<1>13. CASE RecoverVerifyFails
    BY <1>13, SMTT(20) DEF RecoverVerifyFails
<1>14. CASE RestoreConfig
  <2>5. JournalMatches'
    BY <1>14, SMTT(30) DEF RestoreConfig
  <2>6. PointerAt'
    BY <1>14, SMTT(30) DEF RestoreConfig
  <2>7. PhaseAt'
    BY <1>14, SMTT(30) DEF RestoreConfig
  <2>2. cfg \intersect Gens \subseteq journal.prior.managed \union owned
    BY <1>14 DEF RestoreConfig
  <2>3. cfg' \intersect Gens = One(journal.priorPointer)
    <3>1. /\ cfg \in SUBSET Paths /\ owned \in SUBSET Gens /\ journal.prior \in Snapshot
          /\ journal.prior.paths \intersect Gens = journal.prior.managed
          /\ journal.prior.managed = One(journal.priorPointer)
          /\ cfg' = RestoredPaths(cfg, owned, journal.prior)
      BY <1>14 DEF RestoreConfig, Journal
    <3> QED BY <2>2, <3>1, RestoredHost
  <2>4. Settled(pointer) /\ pointer = journal.priorPointer => Settled(pointer)'
    BY <1>14, <2>3 DEF RestoreConfig
  <2>8. HostAt'
    BY <1>14, <2>2, <2>3, <2>4, SMTT(30) DEF RestoreConfig
  <2>9. RunsAt'
    BY <1>14, <2>4, SMTT(30) DEF RestoreConfig
  <2> QED BY <2>5, <2>6, <2>7, <2>8, <2>9
<1>15. CASE RestoreOwned
  <2>5. JournalMatches'
    BY <1>15, SMTT(30) DEF RestoreOwned
  <2>6. PointerAt'
    BY <1>15, SMTT(30) DEF RestoreOwned
  <2>7. PhaseAt'
    BY <1>15, SMTT(30) DEF RestoreOwned
  <2>8. HostAt'
    BY <1>15, SMTT(30) DEF RestoreOwned
  <2>9. RunsAt'
    BY <1>15, SMTT(30) DEF RestoreOwned
  <2> QED BY <2>5, <2>6, <2>7, <2>8, <2>9
<1>16. CASE RestoreIndex
    BY <1>16, SMTT(20) DEF RestoreIndex
<1>17. CASE RestorePointer
    BY <1>17, SMTT(20) DEF RestorePointer
<1>18. CASE RestoreVerify
    BY <1>18, SMTT(20) DEF RestoreVerify
<1>19. CASE RestoreFails
  <2>5. JournalMatches'
    BY <1>19, SMTT(30) DEF RestoreFails, InterruptedIndex
  <2>6. PointerAt'
    BY <1>19, SMTT(30) DEF RestoreFails, InterruptedIndex
  <2>7. PhaseAt'
    BY <1>19, SMTT(30) DEF RestoreFails, InterruptedIndex
  <2>8. HostAt'
    BY <1>19, SMTT(30) DEF RestoreFails, InterruptedIndex
  <2>9. RunsAt'
    BY <1>19, SMTT(30) DEF RestoreFails, InterruptedIndex
  <2> QED BY <2>5, <2>6, <2>7, <2>8, <2>9
<1>20. CASE Block
  <2>1. /\ journal \in Journal /\ "recovery_failed" \in Phases
        /\ journal' = [journal EXCEPT !.phase = "recovery_failed"]
    BY <1>20 DEF Block, PCs, Phases
  <2>2. /\ journal # NoJournal /\ journal' # NoJournal
        /\ journal'.phase = "recovery_failed"
        /\ journal'.target = journal.target /\ journal'.prior = journal.prior
        /\ journal'.priorPointer = journal.priorPointer
        /\ journal'.restoreForbidden = journal.restoreForbidden
    BY <2>1, Rephased, JournalAssumption
  <2>5. JournalMatches'
    BY <1>20, <2>2, SMTT(30) DEF Block
  <2>3. journal.phase \in Phases
    BY <2>1 DEF Journal
  <2>6. PointerAt'
    BY <1>20, <2>2, <2>3, SMTT(30) DEF Block, Phases
  <2>7. PhaseAt'
    BY <1>20, <2>2, SMTT(30) DEF Block
  <2>8. HostAt'
    <3>1. cfg \intersect Gens \subseteq journal.prior.managed \union owned
      BY <2>2, <2>3 DEF Phases
    <3> QED BY <1>20, <2>2, <3>1, SMTT(30) DEF Block
  <2>9. RunsAt'
    BY <1>20, <2>2, <2>3, SMTT(30) DEF Block, Phases
  <2> QED BY <2>5, <2>6, <2>7, <2>8, <2>9
<1>21. CASE OpenGate
    BY <1>21, SMTT(20) DEF OpenGate
<1>22. CASE Prepare
  <2>5. JournalMatches'
    BY <1>22, SMTT(30) DEF Prepare, Capture, ForbidsPriorRestore
  <2>6. PointerAt'
    BY <1>22, SMTT(30) DEF Prepare, Capture, ForbidsPriorRestore
  <2>7. PhaseAt'
    BY <1>22, SMTT(30) DEF Prepare, Capture, ForbidsPriorRestore
  <2>8. HostAt'
    BY <1>22, SMTT(30) DEF Prepare, Capture, ForbidsPriorRestore
  <2>9. RunsAt'
    BY <1>22, SMTT(30) DEF Prepare, Capture, ForbidsPriorRestore
  <2> QED BY <2>5, <2>6, <2>7, <2>8, <2>9
<1>23. CASE PrepareFails
    BY <1>23, SMTT(20) DEF PrepareFails
<1>24. CASE WriteGate
    BY <1>24, SMTT(20) DEF WriteGate
<1>25. CASE RecordPhase
  <2>1. /\ journal \in Journal /\ JournalSteps[pc].phase \in Phases
        /\ journal' = [journal EXCEPT !.phase = JournalSteps[pc].phase]
    BY <1>25 , RecordTargets DEF RecordPhase, PCs, Phases
  <2>2. /\ journal # NoJournal /\ journal' # NoJournal
        /\ journal'.phase = JournalSteps[pc].phase
        /\ journal'.target = journal.target /\ journal'.prior = journal.prior
        /\ journal'.priorPointer = journal.priorPointer
        /\ journal'.restoreForbidden = journal.restoreForbidden
    BY <2>1, Rephased, JournalAssumption
  <2>5. JournalMatches'
    BY <1>25, <2>2, SMTT(30) DEF RecordPhase, JournalSteps
  <2>6. PointerAt'
    BY <1>25, <2>2, SMTT(30) DEF RecordPhase, JournalSteps
  <2>7. PhaseAt'
    BY <1>25, <2>2, SMTT(30) DEF RecordPhase, JournalSteps
  <2>8. HostAt'
    BY <1>25, <2>2, SMTT(30) DEF RecordPhase, JournalSteps
  <2>9. RunsAt'
    BY <1>25, <2>2, SMTT(30) DEF RecordPhase, JournalSteps
  <2> QED BY <2>5, <2>6, <2>7, <2>8, <2>9
<1>26. CASE Drain
  <2>1. /\ journal \in Journal /\ "runs_drained" \in Phases
        /\ journal' = [journal EXCEPT !.phase = "runs_drained"]
    BY <1>26 DEF Drain, PCs, Phases
  <2>2. /\ journal # NoJournal /\ journal' # NoJournal
        /\ journal'.phase = "runs_drained"
        /\ journal'.target = journal.target /\ journal'.prior = journal.prior
        /\ journal'.priorPointer = journal.priorPointer
        /\ journal'.restoreForbidden = journal.restoreForbidden
    BY <2>1, Rephased, JournalAssumption
  <2>5. JournalMatches'
    BY <1>26, <2>2, SMTT(30) DEF Drain, Live
  <2>6. PointerAt'
    BY <1>26, <2>2, SMTT(30) DEF Drain, Live
  <2>7. PhaseAt'
    BY <1>26, <2>2, SMTT(30) DEF Drain, Live
  <2>8. HostAt'
    BY <1>26, <2>2, SMTT(30) DEF Drain, Live
  <2>9. RunsAt'
    BY <1>26, <2>2, SMTT(30) DEF Drain, Live
  <2> QED BY <2>5, <2>6, <2>7, <2>8, <2>9
<1>27. CASE DrainTimeout
  <2>5. JournalMatches'
    BY <1>27, SMTT(30) DEF DrainTimeout, Catch, RecoverPriorFrom
  <2>6. PointerAt'
    BY <1>27, SMTT(30) DEF DrainTimeout, Catch, RecoverPriorFrom
  <2>7. PhaseAt'
    BY <1>27, SMTT(30) DEF DrainTimeout, Catch, RecoverPriorFrom
  <2>8. HostAt'
    BY <1>27, SMTT(30) DEF DrainTimeout, Catch, RecoverPriorFrom
  <2>9. RunsAt'
    BY <1>27, SMTT(30) DEF DrainTimeout, Catch, RecoverPriorFrom
  <2> QED BY <2>5, <2>6, <2>7, <2>8, <2>9
<1>28. CASE Validate
  <2>5. JournalMatches'
    BY <1>28, SMTT(30) DEF Validate, Catch, RecoverPriorFrom
  <2>6. PointerAt'
    BY <1>28, SMTT(30) DEF Validate, Catch, RecoverPriorFrom
  <2>7. PhaseAt'
    BY <1>28, SMTT(30) DEF Validate, Catch, RecoverPriorFrom
  <2>8. HostAt'
    BY <1>28, SMTT(30) DEF Validate, Catch, RecoverPriorFrom
  <2>9. RunsAt'
    BY <1>28, SMTT(30) DEF Validate, Catch, RecoverPriorFrom
  <2> QED BY <2>5, <2>6, <2>7, <2>8, <2>9
<1>29. CASE ApplyOwned
    BY <1>29, SMTT(20) DEF ApplyOwned
<1>30. CASE ApplyConfig
  <2>5. JournalMatches'
    BY <1>30, SMTT(30) DEF ApplyConfig
  <2>6. PointerAt'
    BY <1>30, SMTT(30) DEF ApplyConfig
  <2>7. PhaseAt'
    BY <1>30, SMTT(30) DEF ApplyConfig
  <2>8. HostAt'
    <3>1. /\ cfg \in SUBSET Paths /\ hold \in SUBSET Gens /\ req \in Gens
          /\ cfg \intersect Gens = hold /\ cfg' = TargetPaths(cfg, hold, req)
      BY <1>30 DEF ApplyConfig
    <3>2. cfg' \intersect Gens = {req}
      BY <3>1, AppliedHost
    <3> QED BY <1>30, <3>2, SMTT(30) DEF ApplyConfig
  <2>9. RunsAt'
    BY <1>30, SMTT(30) DEF ApplyConfig
  <2> QED BY <2>5, <2>6, <2>7, <2>8, <2>9
<1>31. CASE ApplyIndex
  <2>5. JournalMatches'
    BY <1>31, SMTT(30) DEF ApplyIndex
  <2>6. PointerAt'
    BY <1>31, SMTT(30) DEF ApplyIndex
  <2>7. PhaseAt'
    BY <1>31, SMTT(30) DEF ApplyIndex
  <2>8. HostAt'
    <3>1. One(req) = {req}
      BY <1>31, HostAssumption DEF ApplyIndex, One
    <3>2. Settled(req)'
      BY <1>31, <3>1 DEF ApplyIndex
    <3> QED BY <1>31, <3>2, SMTT(30) DEF ApplyIndex
  <2>9. RunsAt'
    BY <1>31, SMTT(30) DEF ApplyIndex
  <2> QED BY <2>5, <2>6, <2>7, <2>8, <2>9
<1>32. CASE Verify
    BY <1>32, SMTT(20) DEF Verify
<1>33. CASE ApplyFails
  <2>5. JournalMatches'
    BY <1>33, SMTT(30) DEF ApplyFails, Catch, RecoverPriorFrom
  <2>6. PointerAt'
    BY <1>33, SMTT(30) DEF ApplyFails, Catch, RecoverPriorFrom
  <2>7. PhaseAt'
    BY <1>33, SMTT(30) DEF ApplyFails, Catch, RecoverPriorFrom
  <2>8. HostAt'
    BY <1>33, SMTT(30) DEF ApplyFails, Catch, RecoverPriorFrom
  <2>9. RunsAt'
    BY <1>33, SMTT(30) DEF ApplyFails, Catch, RecoverPriorFrom
  <2> QED BY <2>5, <2>6, <2>7, <2>8, <2>9
<1>34. CASE WriteReceipt
    BY <1>34, SMTT(20) DEF WriteReceipt
<1>35. CASE WritePointer
    BY <1>35, SMTT(20) DEF WritePointer
<1>36. CASE HealthDetects
    BY <1>36, SMTT(20) DEF HealthDetects
<1>37. CASE HealthQuarantines
    BY <1>37, SMTT(20) DEF HealthQuarantines
<1>38. ASSUME NEW r \in Runs, RunStart(r) PROVE HInv'
    BY <1>38, SMTT(20) DEF RunStart
<1>39. ASSUME NEW r \in Runs, RunLoadsGate(r) PROVE HInv'
  <2>1. JournalMatches'
    BY <1>39, SMTT(30) DEF RunLoadsGate
  <2>2. PointerAt'
    BY <1>39, SMTT(30) DEF RunLoadsGate
  <2>3. PhaseAt'
    BY <1>39, SMTT(30) DEF RunLoadsGate
  <2>4. HostAt'
    BY <1>39, SMTT(30) DEF RunLoadsGate
  <2>5. RunsAt'
    <3>1. gate = "open" => journal = NoJournal \/ AtAny({"prepared", "prior_restored", "completed"})
      BY DEF UnfinishedPhases, Phases, Journal
    <3>2. gate = "open" => ~Moving /\ Settled(pointer)
      BY <3>1 DEF PCs
    <3>3. ASSUME NEW q \in Runs, q # r PROVE runs'[q] = runs[q]
      BY <1>39, <3>3 DEF RunLoadsGate
    <3> QED BY <1>39, <3>2, <3>3, SMTT(30) DEF RunLoadsGate
  <2> QED BY <2>1, <2>2, <2>3, <2>4, <2>5
<1>40. ASSUME NEW r \in Runs, RunCompiles(r) PROVE HInv'
    BY <1>40, SMTT(20) DEF RunCompiles
<1>41. ASSUME NEW r \in Runs, RunBinds(r) PROVE HInv'
    BY <1>41, SMTT(20) DEF RunBinds
<1>42. ASSUME NEW r \in Runs, RunRevalidationFails(r) PROVE HInv'
    BY <1>42, SMTT(20) DEF RunRevalidationFails
<1>43. ASSUME NEW r \in Runs, RunQuarantines(r) PROVE HInv'
    BY <1>43, SMTT(20) DEF RunQuarantines
<1>44. ASSUME NEW r \in Runs, RunEnds(r) PROVE HInv'
    BY <1>44, SMTT(20) DEF RunEnds
<1>45. ASSUME NEW g \in Gens, BeginSync(g) PROVE HInv'
    BY <1>45, SMTT(20) DEF BeginSync
<1>46. CASE UNCHANGED vars
    BY <1>46, SMTT(20) DEF vars
<1> QED BY <1>1, <1>2, <1>3, <1>4, <1>5, <1>6, <1>7, <1>8, <1>9, <1>10, <1>11,
       <1>12, <1>13, <1>14, <1>15, <1>16, <1>17, <1>18, <1>19, <1>20, <1>21,
       <1>22, <1>23, <1>24, <1>25, <1>26, <1>27, <1>28, <1>29, <1>30, <1>31,
       <1>32, <1>33, <1>34, <1>35, <1>36, <1>37, <1>38, <1>39, <1>40, <1>41,
       <1>42, <1>43, <1>44, <1>45, <1>46 DEF Next, Recovery, Activation,
       RunStep, Environment

-----------------------------------------------------------------------------
(* Every reachable state satisfies both invariants, as long as no           *)
(* publication is destructive.                                              *)
THEOREM HostInvariant == ASSUME Additive PROVE Spec => [](IInv /\ HInv)
<1>1. Init => IInv /\ HInv
    BY InitInv, HostInit
<1>2. IInv /\ HInv /\ [Next]_vars => (IInv /\ HInv)'
    BY StepInv, HostStep
<1> QED BY <1>1, <1>2, PTL DEF Spec

(* Behind an open gate the host is settled and nothing moves it.            *)
LEMMA OpenGatePhases ==
    ASSUME IInv, HInv, gate = "open" PROVE Settled(pointer) /\ ~Moving
<1>1. journal = NoJournal \/ AtAny({"prepared", "prior_restored", "completed"})
    BY DEF IInv, GateSafe, AtAny, UnfinishedPhases, HostTouched, TypeOK, Phases,
       Early, Journal
<1> QED BY <1>1 DEF IInv, HInv, HostAt, GateSafe, GateHeld, PCs, Moving, AtAny,
       At, Untouched, Early, HostTouched

(* Behind an open gate the host is configured for, and its index serves,    *)
(* exactly the active Generation, whichever sync, roll-back, failed index   *)
(* command or crash came before (openGate comes last on every path).        *)
THEOREM HostMatchesPointer == ASSUME Additive PROVE Spec => []OpenGateHostMatchesPointer
<1>1. IInv /\ HInv => OpenGateHostMatchesPointer
    BY OpenGatePhases DEF OpenGateHostMatchesPointer, Settled, One
<1> QED BY <1>1, HostInvariant, PTL

(* As long as a Run is bound, the host serves the Generation it was bound   *)
(* to and no other: admission, drain and roll-back never move it under it.  *)
THEOREM RunSeesItsGeneration == ASSUME Additive PROVE Spec => []BoundRunSeesItsGeneration
<1>1. IInv /\ HInv => BoundRunSeesItsGeneration
    BY DEF IInv, TypeOK, HInv, RunsAt, Relies, Bound, Settled, One,
       BoundRunSeesItsGeneration
<1> QED BY <1>1, HostInvariant, PTL

(* The active pointer is switched, forward or back, only behind a closed    *)
(* gate, to a Generation with receipt that the host already serves alone,   *)
(* and with no Run bound (the order of applyTarget, receipt and pointer,    *)
(* and of restore and setActive in recoverPrior).                           *)
THEOREM PointerSwitchedLast == ASSUME Additive PROVE Spec => PointerSwitchIsLast
<1>1. IInv /\ HInv /\ [Next]_vars =>
        [pointer' # pointer =>
           /\ gate # "open" /\ pointer' \in receipts /\ index \intersect Gens = {pointer'}
           /\ \A r \in Runs : ~Bound(r)]_vars
  <2> SUFFICES ASSUME IInv, HInv, Next, pointer' # pointer
               PROVE  /\ gate # "open" /\ pointer' \in receipts
                      /\ index \intersect Gens = {pointer'}
                      /\ \A r \in Runs : ~Bound(r)
    OBVIOUS
  <2>1. RestorePointer \/ WritePointer
    BY DEF Next, Recovery, Activation, RunStep, Environment, durable,
       SaveForRuns, Start, Crash, DomainChanges, DomainReturns, BeginSync,
       RecoverNothing, RecoverEarly, RecoverRestored, RecoverQuarantined,
       RecoverForward, RecoverDestructive, RecoverBackward, RecoverVerify,
       RecoverVerifyFails, RestoreConfig, RestoreOwned, RestoreIndex,
       RestoreVerify, RestoreFails, Block, OpenGate, Prepare, PrepareFails,
       WriteGate, RecordPhase, Drain, DrainTimeout, Validate, ApplyOwned,
       ApplyConfig, ApplyIndex, Verify, ApplyFails, WriteReceipt, HealthDetects,
       HealthQuarantines, RunStart, RunLoadsGate, RunCompiles, RunBinds,
       RunRevalidationFails, RunQuarantines, RunEnds
  <2>2. CASE RestorePointer
    <3>1. pointer' = journal.priorPointer /\ pointer' # NoGen
      BY <2>2 DEF RestorePointer, HInv, PhaseAt, Restoring
    <3>2. pointer' \in receipts /\ gate # "open"
      BY <2>2, <3>1 DEF RestorePointer, IInv, Local, GateSafe, ReceiptSafe,
         NeedsJournal, GateHeld, PCs, Restoring
    <3>3. index \intersect Gens = {pointer'}
      BY <2>2, <3>1, HostAssumption DEF RestorePointer, HInv, HostAt, Settled,
         One
    <3>4. \A r \in Runs : ~Bound(r)
      BY <2>2, <3>1 DEF RestorePointer, HInv, PhaseAt, PointerAt, RunsAt,
         Relies, Bound, Moving, AtAny, At, Restoring, HostTouched
    <3> QED BY <3>1, <3>2, <3>3, <3>4
  <2>3. CASE WritePointer
    <3>1. pointer' = req /\ req \in Gens /\ req \in receipts /\ gate # "open"
      BY <2>3 DEF WritePointer, IInv, Local, GateSafe, ReceiptSafe, ReceiptHeld,
         GateHeld, PCs, Syncing
    <3>2. index \intersect Gens = {pointer'}
      BY <2>3, <3>1, HostAssumption DEF WritePointer, HInv, HostAt, Applied,
         Settled, One
    <3>3. \A r \in Runs : ~Bound(r)
      BY <2>3 DEF WritePointer, HInv, PhaseAt, RunsAt, Relies, Bound, Moving,
         AtAny, At, HostTouched
    <3> QED BY <3>1, <3>2, <3>3
  <2> QED BY <2>1, <2>2, <2>3
<1> QED BY <1>1, HostInvariant, PTL DEF PointerSwitchIsLast, Spec

(* No activation, roll-back or retry of either drops a retrieval path the   *)
(* user configured, destructive replacements included.                      *)
THEOREM UserPathsStay == Spec => UserPathsKept
<1>1. IInv /\ [Next]_vars => [cfg \intersect UserPaths \subseteq cfg']_vars
  <2> SUFFICES ASSUME IInv, Next PROVE cfg \intersect UserPaths \subseteq cfg'
    OBVIOUS
  <2>1. cfg' = cfg \/ RestoreConfig \/ ApplyConfig
    BY DEF Next, Recovery, Activation, RunStep, Environment, host, SaveForRuns,
       Start, Crash, DomainChanges, DomainReturns, BeginSync, RecoverNothing,
       RecoverEarly, RecoverRestored, RecoverQuarantined, RecoverForward,
       RecoverDestructive, RecoverBackward, RecoverVerify, RecoverVerifyFails,
       RestorePointer, RestoreOwned, RestoreIndex, RestoreVerify, RestoreFails,
       Block, OpenGate, Prepare, PrepareFails, WriteGate, RecordPhase, Drain,
       DrainTimeout, Validate, ApplyOwned, WritePointer, ApplyIndex, Verify,
       ApplyFails, WriteReceipt, HealthDetects, HealthQuarantines, RunStart,
       RunLoadsGate, RunCompiles, RunBinds, RunRevalidationFails,
       RunQuarantines, RunEnds
  <2>2. owned \subseteq Gens /\ hold \subseteq Gens
    BY DEF IInv, TypeOK
  <2>3. CASE RestoreConfig
    BY <2>2, <2>3, HostAssumption DEF RestoreConfig, RestoredPaths
  <2>4. CASE ApplyConfig
    BY <2>2, <2>4, HostAssumption DEF ApplyConfig, TargetPaths
  <2> QED BY <2>1, <2>3, <2>4
<1> QED BY <1>1, Invariant, PTL DEF UserPathsKept, Spec

-----------------------------------------------------------------------------
\* What ActivationBarrier calls binding.
Mapped == [r \in Runs |-> runs[r].gen]
NoneBound == \A r \in Runs : runs[r].gen = NoGen

(* An index command, finished or cut short, moves what the host serves only *)
(* behind a closed gate and with no Run bound.                              *)
LEMMA HostMovesFree ==
    ASSUME IInv, HInv, pc \in {"applyIndex", "restoreIndex"},
           NEW i \in InterruptedIndex(index, cfg)
    PROVE  gate # "open" /\ (i \intersect Gens = index \intersect Gens \/ NoneBound)
<1>1. gate # "open"
    BY DEF IInv, GateSafe, GateHeld, PCs, Applying, Restoring
<1>2. CASE pc = "applyIndex"
    BY <1>1, <1>2 DEF HInv, PhaseAt, RunsAt, Relies, Moving, AtAny, At,
       HostTouched, NoneBound
<1>3. CASE pc = "restoreIndex"
  <2>1. SUFFICES ASSUME ~NoneBound PROVE i \intersect Gens = index \intersect Gens
    BY <1>1
  <2>2. Settled(pointer) /\ ~Moving
    BY <2>1 DEF NoneBound, HInv, RunsAt, Relies
  <2>3. cfg \intersect Gens = index \intersect Gens
    BY <2>2 DEF Settled
  <2> QED BY <2>3 DEF InterruptedIndex
<1> QED BY <1>2, <1>3

(* The initial states are initial states of the abstract barrier.           *)
LEMMA BarrierInit == Init => Barrier!Init
<1> SUFFICES ASSUME Init PROVE Barrier!Init
    OBVIOUS
<1>1. index \intersect Gens = {pointer} \ {NoGen}
    BY HostAssumption DEF Init
<1> QED BY <1>1 DEF Init, Barrier!Init, Barrier!Matching, NoRun

(* Every step is a step of the abstract barrier, or leaves it as it is.     *)
LEMMA BarrierStep ==
    ASSUME IInv, HInv, [Next]_vars
    PROVE  [Barrier!Next]_(Barrier!vars)
<1> DEFINE exposed == index \intersect Gens
<1> USE DEF Barrier!Matching, Barrier!Free
<1>1. \/ UNCHANGED <<pointer, index, gate, runs>>
      \/ Crash \/ RestoreIndex \/ RestorePointer \/ RestoreFails \/ OpenGate \/ WriteGate
      \/ ApplyIndex \/ ApplyFails \/ WritePointer \/ HealthQuarantines
      \/ \E r \in Runs : RunStart(r) \/ RunStep(r)
    BY DEF Next, Recovery, Activation, Environment, vars, durable, host,
       SaveForRuns, Start, DomainChanges, DomainReturns, BeginSync,
       RecoverNothing, RecoverEarly, RecoverRestored, RecoverQuarantined,
       RecoverForward, RecoverDestructive, RecoverBackward, RecoverVerify,
       RecoverVerifyFails, RestoreConfig, RestoreOwned, RestoreVerify, Block,
       Prepare, PrepareFails, RecordPhase, Drain, DrainTimeout, Validate,
       ApplyOwned, ApplyConfig, Verify, WriteReceipt, HealthDetects
<1>2. CASE UNCHANGED <<pointer, index, gate, runs>>
    BY <1>2 DEF Barrier!vars
<1>3. ASSUME pointer' = pointer, gate' = gate, Mapped' = Mapped,
             index' \in SUBSET Paths,
             gate # "open" /\ (index' \intersect Gens = index \intersect Gens \/ NoneBound)
      PROVE  [Barrier!Next]_(Barrier!vars)
  <2>1. CASE index' \intersect Gens = index \intersect Gens
    BY <1>3, <2>1 DEF Barrier!vars, Mapped
  <2>2. CASE NoneBound
    BY <1>3, <2>2 DEF Barrier!Next, Barrier!MoveHost, Mapped, NoneBound
  <2> QED BY <1>3, <2>1, <2>2
<1>4. CASE Crash
  <2>1. pointer' = pointer /\ gate' = gate /\ Mapped' = [r \in Runs |-> NoGen]
    BY <1>4 DEF Crash, durable, Mapped, NoRun
  <2>2. CASE index' \intersect Gens = index \intersect Gens
    <3>1. Barrier!End(Runs)
      BY <2>1, <2>2 DEF Barrier!End, Mapped
    <3> QED BY <3>1 DEF Barrier!Next
  <2>3. CASE index' \intersect Gens # index \intersect Gens
    <3>1. pc \in {"applyIndex", "restoreIndex"} /\ index' \in InterruptedIndex(index, cfg)
      BY <1>4, <2>3 DEF Crash
    <3>2. gate # "open" /\ NoneBound
      BY <2>3, <3>1, HostMovesFree
    <3>3. Mapped' = Mapped
      BY <2>1, <3>2 DEF NoneBound, Mapped
    <3>4. index' \in SUBSET Paths
      BY <3>1, HostTypes DEF IInv, TypeOK
    <3> QED BY <1>3, <2>1, <3>2, <3>3, <3>4
  <2> QED BY <2>2, <2>3
<1>5. CASE RestoreIndex \/ RestoreFails \/ ApplyIndex \/ ApplyFails
  <2>1. pointer' = pointer /\ gate' = gate /\ Mapped' = Mapped
    BY <1>5 DEF RestoreIndex, RestoreFails, ApplyIndex, ApplyFails, durable,
       Mapped
  <2>2. \/ index' = index
        \/ pc \in {"applyIndex", "restoreIndex"} /\ index' \in InterruptedIndex(index, cfg)
    BY <1>5 DEF RestoreIndex, RestoreFails, ApplyIndex, ApplyFails,
       InterruptedIndex
  <2>3. CASE index' = index
    BY <2>1, <2>3 DEF Barrier!vars, Mapped
  <2>4. CASE pc \in {"applyIndex", "restoreIndex"} /\ index' \in InterruptedIndex(index, cfg)
    <3>1. index' \in SUBSET Paths
      BY <2>4, HostTypes DEF IInv, TypeOK
    <3> QED BY <1>3, <2>1, <2>4, <3>1, HostMovesFree
  <2> QED BY <2>2, <2>3, <2>4
<1>6. CASE RestorePointer
  <2>1. /\ pointer' = journal.priorPointer /\ pointer' \in Gens /\ gate # "open"
        /\ UNCHANGED <<index, gate, runs>>
    BY <1>6 DEF RestorePointer, HInv, PhaseAt, Restoring, IInv, Local, GateSafe,
       NeedsJournal, GateHeld, PCs, TypeOK, Journal, host
  <2>2. index \intersect Gens = {pointer'}
      BY <1>6, <2>1, HostAssumption DEF RestorePointer, HInv, HostAt, Settled,
         One
  <2>3. Barrier!Switch(pointer')
      BY <2>1, <2>2 DEF Barrier!Switch
  <2> QED BY <2>1, <2>3 DEF Barrier!Next
<1>7. CASE WritePointer
  <2>1. /\ pointer' = req /\ req \in Gens /\ gate # "open"
        /\ UNCHANGED <<index, gate, runs>>
      BY <1>7 DEF WritePointer, IInv, Local, GateSafe, GateHeld, PCs, Syncing,
         host
  <2>2. index \intersect Gens = {pointer'}
      BY <1>7, <2>1, HostAssumption DEF WritePointer, HInv, HostAt, Applied,
         Settled, One
  <2>3. Barrier!Switch(pointer')
      BY <2>1, <2>2 DEF Barrier!Switch
  <2> QED BY <2>1, <2>3 DEF Barrier!Next
<1>8. CASE OpenGate
  <2>1. gate' = "open" /\ UNCHANGED <<pointer, index, runs>>
    BY <1>8 DEF OpenGate, host
  <2>2. Settled(pointer)
    BY <1>8 DEF OpenGate, IInv, GateSafe, HInv, HostAt, Untouched, AtAny
  <2>3. Barrier!Open
    BY <2>1, <2>2 DEF Barrier!Open, Settled, One
  <2> QED BY <2>3 DEF Barrier!Next
<1>9. CASE WriteGate \/ HealthQuarantines
  <2>1. gate' # "open" /\ UNCHANGED <<pointer, index, runs>>
    BY <1>9 DEF WriteGate, HealthQuarantines, host, SaveForRuns
  <2>2. Barrier!Close
    BY <2>1 DEF Barrier!Close
  <2> QED BY <2>2 DEF Barrier!Next
<1>10. ASSUME NEW r \in Runs, RunStart(r) \/ RunStep(r)
       PROVE  [Barrier!Next]_(Barrier!vars)
  <2>1. UNCHANGED <<pointer, index>>
    BY <1>10 DEF RunStart, RunStep, RunLoadsGate, RunCompiles, RunBinds,
       RunRevalidationFails, RunQuarantines, RunEnds, SaveForRuns, host
  <2>2. runs \in [Runs -> [state: RunStates, gen: Gens \union {NoGen}]]
    BY DEF IInv, TypeOK
  <2>3. CASE RunStart(r) \/ RunLoadsGate(r) \/ RunBinds(r) \/ RunRevalidationFails(r)
    <3>1. runs[r].gen = runs'[r].gen /\ \A q \in Runs : q # r => runs'[q] = runs[q]
      BY <2>2, <2>3 DEF RunStart, RunLoadsGate, RunBinds, RunRevalidationFails,
         SetRun, NoRun, HInv, RunsAt
    <3>2. gate' = gate
      BY <2>3 DEF RunStart, RunLoadsGate, RunBinds, RunRevalidationFails
    <3> QED BY <2>1, <3>1, <3>2 DEF Barrier!vars
  <2>4. CASE RunQuarantines(r)
    <3>1. runs[r].gen = runs'[r].gen /\ \A q \in Runs : q # r => runs'[q] = runs[q]
      BY <2>2, <2>4 DEF RunQuarantines, SetRun
    <3>2. Barrier!Close
      BY <2>1, <2>4, <3>1 DEF RunQuarantines, Barrier!Close
    <3> QED BY <3>2 DEF Barrier!Next
  <2>5. CASE RunEnds(r)
    <3>1. Mapped' = [q \in Runs |-> IF q \in {r} THEN NoGen ELSE runs[q].gen] /\ gate' = gate
      BY <2>2, <2>5 DEF RunEnds, SetRun, Mapped
    <3>2. Barrier!End({r})
      BY <2>1, <3>1 DEF Mapped, Barrier!End
    <3> QED BY <3>2 DEF Barrier!Next
  <2>6. CASE RunCompiles(r)
    <3>1. gate' = gate /\ runs[r].gen = NoGen /\ Settled(pointer)
      BY <2>6 DEF RunCompiles, HInv, RunsAt, Relies
    <3>2. CASE runs'[r].gen = NoGen
      <4>1. \A q \in Runs : runs'[q].gen = runs[q].gen
        BY <2>2, <2>6, <3>1, <3>2 DEF RunCompiles, SetRun
      <4> QED BY <2>1, <3>1, <4>1 DEF Barrier!vars
    <3>3. CASE runs'[r].gen # NoGen
      <4>1. Mapped' = [Mapped EXCEPT ![r] = pointer] /\ pointer # NoGen
        <5>1. runs' = [runs EXCEPT ![r] = [state |-> "compiled", gen |-> pointer]]
          BY <2>2, <2>6, <3>3 DEF RunCompiles, SetRun
        <5>2. pointer # NoGen
          BY <2>2, <3>3, <5>1
        <5> QED BY <2>2, <5>1, <5>2 DEF Mapped
      <4>2. Barrier!Bind(r)
        BY <2>1, <3>1, <4>1 DEF Barrier!Bind, Mapped, Settled, One
      <4> QED BY <4>2 DEF Barrier!Next
    <3> QED BY <3>2, <3>3
  <2> QED BY <1>10, <2>3, <2>4, <2>5, <2>6 DEF RunStep
<1> QED BY <1>1, <1>2, <1>4, <1>5, <1>6, <1>7, <1>8, <1>9, <1>10

(* The journalled, crash-ridden barrier implements the abstract one: Runs   *)
(* are served only while the host exposes the active Generation alone, and  *)
(* host and pointer move only behind the gate with no Run bound.            *)
THEOREM BarrierRefinement == ASSUME Additive PROVE Spec => ImplementsBarrier
<1>1. Init => Barrier!Init
    BY BarrierInit
<1>2. IInv /\ HInv /\ [Next]_vars => [Barrier!Next]_(Barrier!vars)
    BY BarrierStep
<1> QED BY <1>1, <1>2, HostInvariant, PTL DEF Spec, ImplementsBarrier,
       Barrier!Spec
=============================================================================
