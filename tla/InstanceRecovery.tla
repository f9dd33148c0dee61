--------------------------- MODULE InstanceRecovery ---------------------------
(***************************************************************************)
(* Backup and restore of an instance's runtime database                    *)
(* (src/src/recovery/index.ts) against the two things that share its       *)
(* files: the before_prompt_build hook, which undoes an interrupted        *)
(* restore and then records that the instance served a Run                 *)
(* (src/src/openclaw/index.ts), and that record's transaction              *)
(* (recordServedRun, src/src/state/index.ts).                              *)
(*                                                                         *)
(* A step is one file operation or one database transaction. A process     *)
(* may stop between any two: its files stay as they are. A file written in *)
(* place (a copy, an exclusive create then a write) is Torn in between.    *)
(* A database is reduced to its version, the state of the instance's open  *)
(* re-answer, and whether a Run was recorded; version 0 is a database      *)
(* without a head, which the hook creates where there was none. Opening    *)
(* the database and its BEGIN IMMEDIATE are one step.                      *)
(***************************************************************************)
EXTENDS Naturals

CONSTANTS
    Restorers,   \* processes running restore
    Hooks,       \* Runs at before_prompt_build
    Snapshots,   \* snapshots; each is restored under a key of its own
    MaxRev,      \* bounds the versions the user state goes through
    MaxStops,    \* bounds the processes that stop in the middle
    None, Torn, Absent, Empty,  \* no file or owner; a file half written; no
                                \* database; a database file without tables
    Overlap      \* what may happen while a process is between looking at the
                 \* lock or the journal and acting on it: a "restore" takes the
                 \* lock, another process begins a "recovery"; and, between
                 \* its recovery and its lock, a "takeover" of what a restore
                 \* left that began and stopped, or failed, meanwhile

ASSUME BoundAssumption == MaxRev \in Nat \ {0} /\ MaxStops \in Nat
ASSUME OverlapAssumption == Overlap \subseteq {"restore", "recovery", "takeover"}
ASSUME ProcessAssumption == Restorers \intersect Hooks = {} /\ None \notin Restorers \union Hooks

VARIABLES
    target,    \* <stateRoot>/<instance>/runtime.sqlite
    snap,      \* the sealed snapshot directories
    stage,     \* .restore-<hash>.sqlite, by snapshot
    rollback,  \* .recovery-rollback/<instance>/<hash>.sqlite
    journal,   \* active.transaction.json
    lock,      \* runtime.sqlite.restore.lock
    txn,       \* the process holding the target's write transaction
    pc, job,   \* where each process is, and what it remembers
    revs, stops,
    before     \* the target at the creation of the last journal (history)

files == <<target, snap, stage, rollback, journal, lock>>
vars == <<files, txn, pc, job, revs, stops, before>>

Procs == Restorers \union Hooks

Db == [rev: 0 .. MaxRev, row: {"none", "pending", "in_flight", "completed"},
       served: BOOLEAN]
Fresh == [rev |-> 1, row |-> "none", served |-> FALSE]
Headless == [rev |-> 0, row |-> "none", served |-> FALSE]
Whole(f) == f \in Db
Served(f) == Whole(f) /\ f.served

Journal == [snap: Snapshots, existed: BOOLEAN]
Lock == [by: Procs, whole: BOOLEAN, alive: BOOLEAN]

\* No sentinel is a value.
ASSUME SentinelAssumption ==
    /\ None \notin {Torn, Absent, Empty} /\ Torn \notin {Absent, Empty} /\ Absent # Empty
    /\ {None, Torn, Absent, Empty} \intersect Db = {}
    /\ {None, Torn} \intersect Journal = {} /\ None \notin Lock /\ None \notin Snapshots

NoJob == [snap |-> None, existed |-> FALSE, replaced |-> FALSE,
          undo |-> None, result |-> None]
Results == {None, "restored", "already_applied", "not_required", "completed", "failed"}
Job == [snap: Snapshots \union {None}, existed: BOOLEAN, replaced: BOOLEAN,
        undo: Journal \union {None}, result: Results]
Places == {"idle", "recover", "recJournal", "recCopy", "recClear", "recUnlock",
           "verify", "acqLook", "acqSteal", "acqCreate", "acqWrite",
           "guard", "stage", "compare", "save", "saveCopy", "jrCreate", "jrWrite",
           "replace", "validate", "undo", "undoCopy", "clear", "unlock",
           "serve", "commit"}

At(p, place) == pc[p] = place

TypeOK ==
    /\ target \in Db \union {Absent, Empty, Torn}
    /\ snap \in [Snapshots -> Db \union {None}]
    /\ stage \in [Snapshots -> Db \union {None}]
    /\ rollback \in [Snapshots -> Db \union {None, Empty, Torn}]
    /\ journal \in Journal \union {None, Torn}
    /\ lock \in Lock \union {None}
    /\ txn \in Procs \union {None}
    /\ pc \in [Procs -> Places] /\ job \in [Procs -> Job]
    /\ revs \in 1 .. MaxRev /\ stops \in 0 .. MaxStops
    /\ before \in Db \union {Absent, Empty, Torn}

\* The rows a snapshot takes: head, events, and the open re-answer.
Exported(db) == [rev |-> db.rev, served |-> FALSE,
                 row |-> IF db.row \in {"pending", "in_flight"} THEN db.row ELSE "none"]

\* Snapshots may be there already, of this database or of one that is lost.
Init ==
    /\ target \in {Absent, Fresh}
    /\ snap \in [Snapshots -> {None, Exported(Fresh)}]
    /\ stage = [s \in Snapshots |-> None]
    /\ rollback = [s \in Snapshots |-> None]
    /\ journal = None /\ lock = None /\ txn = None
    /\ pc = [p \in Procs |-> "idle"] /\ job = [p \in Procs |-> NoJob]
    /\ revs = 1 /\ stops = 0 /\ before = target

Go(p, place) == pc' = [pc EXCEPT ![p] = place]
Return(p) == Go(p, "idle") /\ job' = [job EXCEPT ![p] = NoJob]

\* Places where a process has read the lock or the journal and not yet acted.
Looking == {"recJournal", "recCopy", "recClear", "recUnlock", "acqSteal"}
Recording == {"serve", "commit"}
Alone(p, kind, places) == kind \notin Overlap => \A q \in Procs \ {p} : pc[q] \notin places
\* No restore is running or left to be undone: the user state may change.
Quiet == /\ journal = None
         /\ \A p \in Procs : pc[p] \in {"idle", "recover"} \union Recording

-----------------------------------------------------------------------------
(* The user state between restores, and the backup.                        *)

\* state initialize, on an instance that has no database.
Initialize ==
    /\ target = Absent /\ Quiet
    /\ target' = Fresh
    /\ UNCHANGED <<snap, stage, rollback, journal, lock, txn, pc, job, revs, stops>>

\* A correction commits: a new version, and a re-answer to deliver.
Correct ==
    /\ Whole(target) /\ target.rev > 0 /\ txn = None /\ Quiet
    /\ target.row \notin {"pending", "in_flight"} /\ revs < MaxRev
    /\ target' = [target EXCEPT !.rev = revs + 1, !.row = "pending"]
    /\ revs' = revs + 1
    /\ UNCHANGED <<snap, stage, rollback, journal, lock, txn, pc, job, stops>>

\* A claim of the re-answer, its release, and its completion.
Reanswer ==
    /\ Whole(target) /\ txn = None /\ Quiet
    /\ \/ target.row = "pending" /\ target' = [target EXCEPT !.row = "in_flight"]
       \/ target.row = "in_flight" /\ target' = [target EXCEPT !.row = "pending"]
       \/ target.row = "in_flight" /\ target' = [target EXCEPT !.row = "completed"]
    /\ UNCHANGED <<snap, stage, rollback, journal, lock, txn, pc, job, revs, stops>>

\* One read transaction of the source; a directory that lacks its manifest or
\* its artifact id (the backup stopped) is not a snapshot.
Backup(s) ==
    /\ snap[s] = None
    /\ Whole(target) /\ target.rev > 0
    /\ snap' = [snap EXCEPT ![s] = Exported(target)]
    /\ UNCHANGED <<target, stage, rollback, journal, lock, txn, pc, job, revs, stops>>

-----------------------------------------------------------------------------
(* recoverInterruptedRuntimeRestore, called by the hook and by restore.    *)

RestoreStart(p, s) ==
    /\ At(p, "idle") /\ snap[s] # None
    /\ Go(p, "recover")
    /\ job' = [job EXCEPT ![p] = [NoJob EXCEPT !.snap = s]]
    /\ UNCHANGED <<files, txn, revs, stops>>

HookStart(h) ==
    /\ At(h, "idle")
    /\ Go(h, "recover")
    /\ UNCHANGED <<files, txn, job, revs, stops>>

\* Mutant: the lock of a dead process counts as held.
LockFree_NoLock == lock = None

LockFree == lock # None => lock.whole /\ ~lock.alive

\* A lock that cannot be parsed, and one of a live process, end the call.
RecoverLock(p) ==
    /\ At(p, "recover") /\ Alone(p, "recovery", Looking \union Recording)
    /\ \/ LockFree /\ Go(p, "recJournal") /\ UNCHANGED job
       \/ ~LockFree /\ Return(p)
    /\ UNCHANGED <<files, txn, revs, stops>>

RecoverJournal(p) ==
    /\ At(p, "recJournal")
    /\ \/ /\ journal = None
          /\ Go(p, "recUnlock") /\ UNCHANGED <<job, target>>
       \/ /\ journal = Torn
          /\ Return(p) /\ UNCHANGED target
       \/ /\ journal \in Journal /\ journal.existed
          /\ IF rollback[journal.snap] = None
               THEN Return(p) /\ UNCHANGED target
               ELSE /\ Go(p, "recCopy") /\ target' = Torn
                    /\ job' = [job EXCEPT ![p].undo = journal]
       \/ /\ journal \in Journal /\ ~journal.existed
          /\ Go(p, "recClear") /\ target' = Absent
          /\ job' = [job EXCEPT ![p].undo = journal]
    /\ UNCHANGED <<snap, stage, rollback, journal, lock, txn, revs, stops>>

RecoverCopy(p) ==
    /\ At(p, "recCopy")
    /\ target' = rollback[job[p].undo.snap]
    /\ Go(p, "recClear")
    /\ UNCHANGED <<snap, stage, rollback, journal, lock, txn, job, revs, stops>>

\* The stage of the interrupted restore goes, then the journal; a journal
\* that another process has removed ends the call with an error.
RecoverClear(p) ==
    /\ At(p, "recClear")
    /\ stage' = [stage EXCEPT ![job[p].undo.snap] = None]
    /\ journal' = None
    /\ IF journal = None THEN Return(p) ELSE Go(p, "recUnlock") /\ UNCHANGED job
    /\ UNCHANGED <<target, snap, rollback, lock, txn, revs, stops>>

\* The lock is removed whoever holds it by now. A call that undid something
\* ends here (RESTORE_INTERRUPTED, or the Run must be retried).
RecoverUnlock(p) ==
    /\ At(p, "recUnlock")
    /\ lock' = None
    /\ IF job[p].undo # None THEN Return(p)
       ELSE Go(p, IF p \in Hooks THEN "serve" ELSE "verify") /\ UNCHANGED job
    /\ UNCHANGED <<target, snap, stage, rollback, journal, txn, revs, stops>>

-----------------------------------------------------------------------------
(* restore: the lock and the Run guard.                                    *)

\* The snapshot's files, contents and versions are checked (verify); one that
\* fails ends the restore before it touches anything.
Verify(p) ==
    /\ At(p, "verify")
    /\ \/ Go(p, "acqLook") /\ UNCHANGED job
       \/ Return(p)
    /\ UNCHANGED <<files, txn, revs, stops>>

AcquireLook(p) ==
    /\ At(p, "acqLook")
    /\ \/ lock = None /\ Go(p, "acqCreate") /\ UNCHANGED job
       \/ lock # None /\ LockFree /\ Alone(p, "recovery", Looking \union Recording)
          /\ ("takeover" \in Overlap \/ journal = None)
          /\ Go(p, "acqSteal") /\ UNCHANGED job
       \/ ~LockFree /\ Return(p)
    /\ UNCHANGED <<files, txn, revs, stops>>

\* The lock of a dead process goes, or whichever is there by now.
AcquireSteal(p) ==
    /\ At(p, "acqSteal")
    /\ IF lock = None THEN Return(p) ELSE Go(p, "acqCreate") /\ UNCHANGED job
    /\ lock' = None
    /\ UNCHANGED <<target, snap, stage, rollback, journal, txn, revs, stops>>

\* The exclusive create, and then the pid is written.
AcquireCreate(p) ==
    /\ At(p, "acqCreate") /\ Alone(p, "restore", Looking)
    /\ ("takeover" \in Overlap \/ lock # None \/ journal = None)
    /\ IF lock # None THEN Return(p) /\ UNCHANGED lock
       ELSE /\ lock' = [by |-> p, whole |-> FALSE, alive |-> TRUE]
            /\ Go(p, "acqWrite") /\ UNCHANGED job
    /\ UNCHANGED <<target, snap, stage, rollback, journal, txn, revs, stops>>

Mine(p) == lock # None /\ lock.by = p

AcquireWrite(p) ==
    /\ At(p, "acqWrite")
    /\ lock' = IF Mine(p) THEN [lock EXCEPT !.whole = TRUE] ELSE lock
    /\ Go(p, "guard")
    /\ UNCHANGED <<target, snap, stage, rollback, journal, txn, job, revs, stops>>

\* targetRunGuardReason: a write transaction of another process, a file that
\* is no runtime database, and a served Run refuse the restore.
\* Mutant: the Run records are not asked for.
Replaceable_Whole == target = Absent \/ (txn = None /\ Whole(target))

Replaceable == target = Absent \/ (txn = None /\ Whole(target) /\ ~target.served)

RunGuard(p) ==
    /\ At(p, "guard")
    /\ IF Replaceable THEN Go(p, "stage") /\ UNCHANGED <<job, lock>>
       ELSE Return(p) /\ lock' = None
    /\ UNCHANGED <<target, snap, stage, rollback, journal, txn, revs, stops>>

-----------------------------------------------------------------------------
(* restore: stage, save, journal, replace, validate.                       *)

\* An attempt in flight when the snapshot was taken was interrupted.
Normal(db) == [db EXCEPT !.row = IF @ = "in_flight" THEN "pending" ELSE @]

\* Copy, migration and normalisation of the stage, which nobody else opens.
StageArtifact(p) ==
    /\ At(p, "stage")
    /\ stage' = [stage EXCEPT ![job[p].snap] = Normal(snap[job[p].snap])]
    /\ Go(p, "compare")
    /\ UNCHANGED <<target, snap, rollback, journal, lock, txn, job, revs, stops>>

\* authorityDigest: equal heads, events and open re-answers; it does not read
\* the Run records, and a database with a completed re-answer has no digest.
SameAuthority(f, db) ==
    /\ Whole(f) /\ f.rev = db.rev
    /\ f.row # "completed" /\ Normal(f).row = db.row

Finish(p, result) == job' = [job EXCEPT ![p].result = result]

CompareDigest(p) ==
    LET s == job[p].snap IN
    /\ At(p, "compare")
    /\ IF stage[s] = None THEN Go(p, "clear") /\ Finish(p, "not_required") /\ UNCHANGED stage
       ELSE IF SameAuthority(target, stage[s])
         THEN /\ Go(p, "unlock") /\ Finish(p, "already_applied")
              /\ stage' = [stage EXCEPT ![s] = None]
         ELSE /\ Go(p, "save") /\ UNCHANGED stage
              /\ job' = [job EXCEPT ![p].existed = target # Absent]
    /\ UNCHANGED <<target, snap, rollback, journal, lock, txn, revs, stops>>

\* Mutant: a rollback file that is there is not written again.
SaveRollback_Once(p) ==
    LET s == job[p].snap IN
    /\ At(p, "save")
    /\ IF job[p].existed /\ rollback[s] = None
         THEN rollback' = [rollback EXCEPT ![s] = Torn] /\ Go(p, "saveCopy")
         ELSE Go(p, "jrCreate") /\ UNCHANGED rollback
    /\ UNCHANGED <<target, snap, stage, journal, lock, txn, job, revs, stops>>

\* The copy of the target that an undo will bring back; of a target that was
\* absent only the fact is kept.
SaveRollback(p) ==
    /\ At(p, "save")
    /\ IF ~job[p].existed THEN Go(p, "jrCreate") /\ UNCHANGED <<rollback, job>>
       ELSE IF target = Absent
         THEN Go(p, "clear") /\ Finish(p, "not_required") /\ UNCHANGED rollback
       ELSE /\ rollback' = [rollback EXCEPT ![job[p].snap] = Torn]
            /\ Go(p, "saveCopy") /\ UNCHANGED job
    /\ UNCHANGED <<target, snap, stage, journal, lock, txn, revs, stops>>

SaveCopy(p) ==
    /\ At(p, "saveCopy")
    /\ rollback' = [rollback EXCEPT ![job[p].snap] = target]
    /\ Go(p, "jrCreate")
    /\ UNCHANGED <<target, snap, stage, journal, lock, txn, job, revs, stops>>

\* The exclusive create, and then the record is written.
CreateJournal(p) ==
    /\ At(p, "jrCreate")
    /\ IF journal # None THEN Go(p, "clear") /\ Finish(p, "not_required") /\ UNCHANGED journal
       ELSE journal' = Torn /\ Go(p, "jrWrite") /\ UNCHANGED job
    /\ UNCHANGED <<target, snap, stage, rollback, lock, txn, revs, stops>>

WriteJournal(p) ==
    /\ At(p, "jrWrite")
    /\ journal' = IF journal # Torn THEN journal
                  ELSE [snap |-> job[p].snap, existed |-> job[p].existed]
    /\ Go(p, "replace")
    /\ UNCHANGED <<target, snap, stage, rollback, lock, txn, job, revs, stops>>

ReplaceTarget(p) ==
    LET s == job[p].snap IN
    /\ At(p, "replace")
    /\ IF stage[s] = None
         THEN Go(p, "clear") /\ Finish(p, "not_required") /\ UNCHANGED <<target, stage>>
         ELSE /\ target' = stage[s] /\ stage' = [stage EXCEPT ![s] = None]
              /\ Go(p, "validate") /\ job' = [job EXCEPT ![p].replaced = TRUE]
    /\ UNCHANGED <<snap, rollback, journal, lock, txn, revs, stops>>

\* The replaced target is read again, and the journal's removal commits it.
ValidateRestored(p) ==
    /\ At(p, "validate")
    /\ IF Whole(target) /\ journal # None
         THEN journal' = None /\ Go(p, "unlock") /\ Finish(p, "restored")
         ELSE Go(p, "undo") /\ UNCHANGED <<journal, job>>
    /\ UNCHANGED <<target, snap, stage, rollback, lock, txn, revs, stops>>

-----------------------------------------------------------------------------
(* restore: its catch and finally.                                         *)

\* Mutant: an abort never undoes the replacement.
Abort_Keeps(p) ==
    /\ pc[p] \in {"stage", "save", "saveCopy", "jrCreate", "replace", "validate"}
    /\ Go(p, "clear") /\ Finish(p, "not_required")
    /\ UNCHANGED <<files, txn, revs, stops>>

\* The signal is looked at before the stage, the save and the validation;
\* any operation up to the validation may also fail.
Abort(p) ==
    /\ pc[p] \in {"stage", "save", "saveCopy", "jrCreate", "replace", "validate"}
    /\ IF job[p].replaced THEN Go(p, "undo") /\ UNCHANGED job
       ELSE Go(p, "clear") /\ Finish(p, "not_required")
    /\ UNCHANGED <<files, txn, revs, stops>>

\* The copy back may fail half way; the journal then stays.
Undo(p) ==
    /\ At(p, "undo")
    /\ target' = IF job[p].existed THEN Torn ELSE Absent
    /\ \/ Go(p, IF job[p].existed THEN "undoCopy" ELSE "clear") /\ Finish(p, "completed")
       \/ job[p].existed /\ Go(p, "clear") /\ Finish(p, "failed")
    /\ UNCHANGED <<snap, stage, rollback, journal, lock, txn, revs, stops>>

UndoCopy(p) ==
    /\ At(p, "undoCopy")
    /\ target' = rollback[job[p].snap]
    /\ Go(p, "clear")
    /\ UNCHANGED <<snap, stage, rollback, journal, lock, txn, job, revs, stops>>

ClearFailed(p) ==
    /\ At(p, "clear")
    /\ journal' = IF job[p].result = "failed" THEN journal ELSE None
    /\ stage' = [stage EXCEPT ![job[p].snap] = None]
    /\ Go(p, "unlock")
    /\ UNCHANGED <<target, snap, rollback, lock, txn, job, revs, stops>>

ReleaseLock(p) ==
    /\ At(p, "unlock")
    /\ lock' = None /\ Return(p)
    /\ UNCHANGED <<target, snap, stage, rollback, journal, txn, revs, stops>>

-----------------------------------------------------------------------------
(* recordServedRun, and a process that stops.                              *)

\* The database is opened, created if absent, and its run table made unless
\* the lock is there; the lock is looked at again inside the transaction.
ServeBegin(h) ==
    /\ At(h, "serve")
    /\ IF lock # None
         THEN /\ target' = (IF target = Absent THEN Empty ELSE target)
              /\ Return(h) /\ UNCHANGED txn
         ELSE IF target = Torn \/ txn # None
         THEN Return(h) /\ UNCHANGED <<target, txn>>
         ELSE /\ target' = (IF target \in {Absent, Empty} THEN Headless ELSE target)
              /\ txn' = h /\ Go(h, "commit") /\ UNCHANGED job
    /\ UNCHANGED <<snap, stage, rollback, journal, lock, revs, stops>>

ServeCommit(h) ==
    /\ At(h, "commit")
    /\ target' = IF Whole(target) /\ txn = h THEN [target EXCEPT !.served = TRUE] ELSE target
    /\ txn' = IF txn = h THEN None ELSE txn
    /\ Return(h)
    /\ UNCHANGED <<snap, stage, rollback, journal, lock, revs, stops>>

Stop(p) ==
    /\ ~At(p, "idle") /\ stops < MaxStops
    /\ Return(p)
    /\ lock' = IF Mine(p) THEN [lock EXCEPT !.alive = FALSE] ELSE lock
    /\ txn' = IF txn = p THEN None ELSE txn
    /\ stops' = stops + 1
    /\ UNCHANGED <<target, snap, stage, rollback, journal, revs>>

-----------------------------------------------------------------------------

Step(p) ==
    \/ RecoverLock(p) \/ RecoverJournal(p) \/ RecoverCopy(p)
    \/ RecoverClear(p) \/ RecoverUnlock(p)
    \/ Verify(p) \/ AcquireLook(p) \/ AcquireSteal(p) \/ AcquireCreate(p)
    \/ AcquireWrite(p) \/ RunGuard(p)
    \/ StageArtifact(p) \/ CompareDigest(p) \/ SaveRollback(p) \/ SaveCopy(p)
    \/ CreateJournal(p) \/ WriteJournal(p) \/ ReplaceTarget(p)
    \/ ValidateRestored(p) \/ Undo(p) \/ UndoCopy(p) \/ ClearFailed(p)
    \/ ReleaseLock(p)
    \/ ServeBegin(p) \/ ServeCommit(p)

Remember == before' = IF journal = None THEN target' ELSE before

Next ==
    /\ \/ Initialize \/ Correct \/ Reanswer
       \/ \E s \in Snapshots : Backup(s) \/ \E p \in Restorers : RestoreStart(p, s)
       \/ \E h \in Hooks : HookStart(h)
       \/ \E p \in Procs : Step(p) \/ Stop(p)
       \/ \E p \in Restorers : Abort(p)
    /\ Remember

Spec == Init /\ [][Next]_vars

\* A process that has begun goes on, and Runs keep coming; nothing makes an
\* operator restore, and no process need stop.
FairSpec ==
    /\ Spec
    /\ \A p \in Procs : WF_vars(Step(p) /\ Remember)
    /\ \A h \in Hooks : WF_vars(HookStart(h) /\ Remember)

-----------------------------------------------------------------------------
(* Properties.                                                             *)

\* While a journal is there, what it and the rollback file say brings back
\* the target as it was before the restore began, whatever process stopped
\* and whatever the restored file holds by then (restore, the order of its
\* copies; recoverInterruptedRestore). An empty file the hook created is no
\* prior state.
NoDatabase == {Absent, Empty}
PriorIsRecoverable ==
    journal \in Journal =>
        IF journal.existed THEN rollback[journal.snap] = before
                           ELSE before \in NoDatabase

\* No step of restore, of its rollback, or of the recovery of an interrupted
\* one replaces a database on which a Run was recorded (targetRunGuardReason
\* after the lock, recordServedRun's check inside its transaction).
ServedTargetKept == [][Served(target) => Served(target')]_vars

\* A restore reports what the target holds: the snapshot without attempts in
\* flight when restored or already applied, its prior state when its rollback
\* completed or nothing was replaced.
ReportIsTrue ==
    \A p \in Restorers :
        At(p, "unlock") =>
            CASE job[p].result = "restored" -> target = Normal(snap[job[p].snap])
              [] job[p].result = "already_applied" ->
                    SameAuthority(target, Normal(snap[job[p].snap]))
              [] job[p].result = "failed" -> journal # None
              [] OTHER -> /\ target = before \/ {target, before} \subseteq NoDatabase
                          /\ journal = None

\* An interrupted restore does not stay so: its journal is undone by the next
\* Run or restore, unless the lock was left unreadable.
InterruptedIsUndone ==
    journal \in Journal ~> (journal = None \/ (lock # None /\ ~lock.whole))
===============================================================================
