------------------------ MODULE InstanceRecoveryProofs ------------------------
(***************************************************************************)
(* Restores of an instance's runtime database never lose it: for any       *)
(* number of restores, Runs, snapshots, versions and stops, in every       *)
(* history that is free of the interleavings Overlap names (Separate).     *)
(***************************************************************************)
EXTENDS InstanceRecovery, TLAPS

\* None of the interleavings that Overlap names.
Separate == Overlap = {}

\* Where a restore holds the lock, and where it has passed the Run guard.
Guarded == {"stage", "compare", "save", "saveCopy", "jrCreate", "jrWrite",
            "replace", "validate", "undo", "undoCopy", "clear", "unlock"}
Holding == {"acqWrite", "guard"} \union Guarded
Restoring == {"verify", "acqLook", "acqSteal", "acqCreate"} \union Holding

\* Up to here the holder has no journal, and from here on it is its own.
Unrecorded == {"acqWrite", "guard", "stage", "compare", "save", "saveCopy", "jrCreate"}
Recorded == {"replace", "validate", "undo", "undoCopy"}
Staged == {"compare", "save", "saveCopy", "jrCreate", "jrWrite", "replace"}
Replacing == {"validate", "undo", "undoCopy", "clear", "unlock"}

\* The lock belongs to the restore at work; who looks at the lock or the journal, or
\* records a Run, does so alone, and who looks found no live holder.
Exclusive ==
    /\ \A p \in Procs : pc[p] \in Holding => lock \in Lock /\ lock.by = p /\ lock.alive
    /\ \A p, q \in Procs :
          {pc[p], pc[q]} \subseteq Looking \union Recording => p = q
    /\ \A p \in Procs : pc[p] \in Looking => LockFree

\* What a process remembers is what it found.
Remembers ==
    /\ \A p \in Restorers : ~At(p, "idle") =>
          job[p].snap \in Snapshots /\ snap[job[p].snap] # None
    /\ \A p \in Procs :
          /\ pc[p] \in Restoring => p \in Restorers
          /\ job[p].replaced => pc[p] \in Replacing
          /\ At(p, "validate") => job[p].replaced
          /\ At(p, "recCopy") => job[p].undo.existed
          /\ pc[p] \in {"recCopy", "recClear"} =>
                journal \in Journal /\ job[p].undo = journal
          /\ pc[p] \in {"recUnlock", "acqSteal"} => journal = None

\* A Run being recorded is recorded in a whole database that nobody restores.
Committing ==
    /\ \A p \in Procs : At(p, "commit") =>
          /\ txn = p /\ Whole(target) /\ journal = None
          /\ \A q \in Procs : pc[q] \notin Guarded
    /\ txn # None => At(txn, "commit")

\* A hook about to record a Run finds the lock, or nothing it could write to, while
\* a restore is not over.
ServesLater ==
    \A p \in Procs : At(p, "serve") /\ journal # None => lock # None \/ target = Torn

\* No Run was recorded in anything that is, or may be, replaced or brought back.
Unserved ==
    /\ \A s \in Snapshots : snap[s] # None => ~snap[s].served
    /\ journal # None => ~Served(target) /\ ~Served(before)
    /\ \A p \in Procs : pc[p] \in Guarded => ~Served(target)

\* The target is the prior one again, and the journal is the restore's own.
Same == target = before \/ {target, before} \subseteq NoDatabase
Own(p) == [snap |-> job[p].snap, existed |-> job[p].existed]

\* The owner of the transaction, and the counters, are within their bounds.
InRange ==
    txn \in Procs \union {None} /\ revs \in 1 .. MaxRev /\ stops \in 0 .. MaxStops

\* What a restore has established, step by step.
RestoreIs(p) ==
    /\ pc[p] \in Unrecorded => journal = None
    /\ pc[p] \in Staged => stage[job[p].snap] = Normal(snap[job[p].snap])
    /\ At(p, "save") =>
          IF job[p].existed THEN target # Absent ELSE target \in NoDatabase
    /\ At(p, "saveCopy") => job[p].existed /\ target # Absent
    /\ At(p, "jrCreate") =>
          IF job[p].existed THEN rollback[job[p].snap] = target
                            ELSE target \in NoDatabase
    /\ At(p, "jrWrite") =>
          /\ journal = Torn /\ Same
          /\ IF job[p].existed THEN rollback[job[p].snap] = before
                               ELSE before \in NoDatabase
    /\ pc[p] \in Recorded => journal = Own(p)
    /\ At(p, "replace") => Same
    /\ At(p, "validate") => target = Normal(snap[job[p].snap])
    /\ At(p, "undoCopy") => job[p].existed /\ job[p].result = "completed"
    /\ At(p, "clear") => job[p].result \in {"not_required", "completed", "failed"}
    /\ At(p, "clear") /\ job[p].result = "failed" => journal = Own(p) /\ target = Torn
    /\ At(p, "clear") /\ job[p].result # "failed" /\ journal # None => Same
    /\ At(p, "unlock") =>
        CASE job[p].result = "restored" ->
                target = Normal(snap[job[p].snap]) /\ journal = None
          [] job[p].result = "already_applied" ->
                SameAuthority(target, Normal(snap[job[p].snap])) /\ journal = None
          [] job[p].result = "failed" -> journal # None /\ target = Torn
          [] OTHER -> Same /\ journal = None

RestoreAt == \A p \in Procs : RestoreIs(p)

\* The inductive invariant.
RInv ==
    /\ TypeOK /\ Exclusive /\ Remembers /\ Committing /\ ServesLater /\ Unserved
    /\ RestoreAt /\ PriorIsRecoverable

\* What a lock says, and what is left of it when its owner dies.
LEMMA LockFields ==
    /\ \A p \in Procs : [by |-> p, whole |-> FALSE, alive |-> TRUE] \in Lock
    /\ \A l \in Lock :
          /\ l.by \in Procs
          /\ [l EXCEPT !.whole = TRUE] \in Lock
          /\ [l EXCEPT !.whole = TRUE].by = l.by
          /\ [l EXCEPT !.whole = TRUE].alive = l.alive
          /\ [l EXCEPT !.alive = FALSE] \in Lock
          /\ [l EXCEPT !.alive = FALSE].by = l.by
          /\ [l EXCEPT !.alive = FALSE].whole = l.whole
          /\ ~[l EXCEPT !.alive = FALSE].alive
    BY DEF Lock

\* A process that has not begun remembers nothing.
LEMMA NoJobTyped == NoJob \in Job /\ ~NoJob.replaced /\ NoJob.undo = None
    BY DEF NoJob, Job, Results

\* A new database has recorded no Run.
LEMMA FreshTyped ==
    Fresh \in Db /\ Headless \in Db /\ ~Fresh.served /\ ~Headless.served
    BY BoundAssumption DEF Db, Fresh, Headless

\* Taking the attempts in flight back leaves a database with its Runs.
LEMMA NormalTyped ==
    \A d \in Db : Normal(d) \in Db /\ Normal(d).served = d.served
    BY DEF Db, Normal

\* A snapshot takes no Run along.
LEMMA ExportedTyped == \A d \in Db : Exported(d) \in Db /\ ~Exported(d).served
    BY DEF Db, Exported

\* Writing the lock, and dying with it.
LEMMA LockWritten ==
    ASSUME TypeOK, NEW p \in Procs, AcquireWrite(p)
    PROVE  /\ lock' \in Lock \union {None} /\ (lock' = None <=> lock = None)
           /\ lock'.by = lock.by /\ lock'.alive = lock.alive
<1>1. CASE Mine(p)
  <2> DEFINE l == [lock EXCEPT !.whole = TRUE]
  <2>1. lock \in Lock /\ lock' = l
    BY <1>1 DEF TypeOK, AcquireWrite, Mine
  <2>2. l \in Lock /\ l.by = lock.by /\ l.alive = lock.alive
    BY <2>1 DEF Lock
  <2> HIDE DEF l
  <2> QED BY <2>1, <2>2, SentinelAssumption
<1>2. CASE ~Mine(p)
  BY <1>2 DEF TypeOK, AcquireWrite
<1> QED BY <1>1, <1>2

LEMMA LockLeft ==
    ASSUME TypeOK, NEW p \in Procs, Stop(p)
    PROVE  /\ lock' \in Lock \union {None} /\ (lock' = None <=> lock = None)
           /\ lock'.by = lock.by /\ lock'.whole = lock.whole
           /\ lock'.alive => lock.alive /\ ~Mine(p)
           /\ ~Mine(p) => lock' = lock
<1>1. CASE Mine(p)
  <2> DEFINE l == [lock EXCEPT !.alive = FALSE]
  <2>1. lock \in Lock /\ lock' = l
    BY <1>1 DEF TypeOK, Stop, Mine
  <2>2. l \in Lock /\ l.by = lock.by /\ l.whole = lock.whole /\ ~l.alive
    BY <2>1 DEF Lock
  <2> HIDE DEF l
  <2> QED BY <1>1, <2>1, <2>2, SentinelAssumption
<1>2. CASE ~Mine(p)
  BY <1>2 DEF TypeOK, Stop
<1> QED BY <1>1, <1>2

\* A result is all that Finish changes of what a restore remembers.
LEMMA Finished ==
    ASSUME job \in [Procs -> Job], NEW p \in Procs, NEW r \in Results, Finish(p, r)
    PROVE  /\ job' \in [Procs -> Job] /\ job'[p].result = r
           /\ job'[p].snap = job[p].snap /\ job'[p].existed = job[p].existed
           /\ job'[p].replaced = job[p].replaced /\ job'[p].undo = job[p].undo
           /\ \A q \in Procs \ {p} : job'[q] = job[q]
<1> DEFINE j == [job[p] EXCEPT !.result = r]
<1>1. job' = [job EXCEPT ![p] = j]
  BY DEF Finish
<1>2. /\ j \in Job /\ j.result = r /\ j.snap = job[p].snap
      /\ j.existed = job[p].existed
      /\ j.replaced = job[p].replaced /\ j.undo = job[p].undo
  BY DEF Job
<1> HIDE DEF j
<1> QED BY <1>1, <1>2

\* What the comparison leaves a restore with.
LEMMA Compared ==
    ASSUME TypeOK, NEW p \in Procs, CompareDigest(p)
    PROVE  /\ job' \in [Procs -> Job] /\ job'[p].snap = job[p].snap
           /\ job'[p].replaced = job[p].replaced /\ job'[p].undo = job[p].undo
           /\ \A q \in Procs \ {p} : job'[q] = job[q]
           /\ \/ /\ pc' = [pc EXCEPT ![p] = "clear"] /\ UNCHANGED stage
                 /\ job'[p].result = "not_required"
              \/ /\ pc' = [pc EXCEPT ![p] = "unlock"]
                 /\ stage' = [stage EXCEPT ![job[p].snap] = None]
                 /\ SameAuthority(target, stage[job[p].snap])
                 /\ job'[p].result = "already_applied"
              \/ /\ pc' = [pc EXCEPT ![p] = "save"] /\ UNCHANGED stage
                 /\ job'[p].existed <=> target # Absent
<1>1. CASE Finish(p, "not_required") /\ Go(p, "clear") /\ UNCHANGED stage
  BY <1>1, Finished DEF TypeOK, Results, Go
<1>2. CASE /\ Finish(p, "already_applied") /\ Go(p, "unlock")
           /\ SameAuthority(target, stage[job[p].snap])
           /\ stage' = [stage EXCEPT ![job[p].snap] = None]
  BY <1>2, Finished DEF TypeOK, Results, Go
<1>3. CASE /\ Go(p, "save") /\ UNCHANGED stage
           /\ job' = [job EXCEPT ![p].existed = target # Absent]
  <2> DEFINE b == target # Absent
             j == [job[p] EXCEPT !.existed = b]
  <2>1. job' = [job EXCEPT ![p] = j]
    BY <1>3
  <2>2. b \in BOOLEAN /\ (b <=> target # Absent)
    OBVIOUS
  <2> HIDE DEF b
  <2>3. /\ j \in Job /\ (j.existed <=> b) /\ j.snap = job[p].snap
        /\ j.replaced = job[p].replaced /\ j.undo = job[p].undo
    BY <2>2 DEF TypeOK, Job
  <2> HIDE DEF j
  <2>4. job'[p] = j
    BY <2>1 DEF TypeOK
  <2> QED BY <1>3, <2>1, <2>2, <2>3, <2>4 DEF TypeOK, Go
<1> QED BY <1>1, <1>2, <1>3 DEF CompareDigest

\* What replacing the target leaves a restore with.
LEMMA Replaced ==
    ASSUME TypeOK, NEW p \in Procs, ReplaceTarget(p)
    PROVE  /\ job' \in [Procs -> Job] /\ job'[p].snap = job[p].snap
           /\ job'[p].existed = job[p].existed /\ job'[p].undo = job[p].undo
           /\ \A q \in Procs \ {p} : job'[q] = job[q]
<1>1. CASE Finish(p, "not_required")
  BY <1>1, Finished DEF TypeOK, Results
<1>2. CASE job' = [job EXCEPT ![p].replaced = TRUE]
  <2> DEFINE j == [job[p] EXCEPT !.replaced = TRUE]
  <2>1. job' = [job EXCEPT ![p] = j]
    BY <1>2
  <2>2. /\ j \in Job /\ j.existed = job[p].existed /\ j.snap = job[p].snap
        /\ j.undo = job[p].undo
    BY DEF TypeOK, Job
  <2> HIDE DEF j
  <2> QED BY <2>1, <2>2 DEF TypeOK
<1> QED BY <1>1, <1>2 DEF ReplaceTarget

\* Replacing the target puts a database where the target was, or leaves it.
LEMMA ReplacedTarget ==
    ASSUME RInv, NEW p \in Procs, ReplaceTarget(p)
    PROVE  target' \in Db \union {Absent, Empty, Torn}
<1>1. job[p].snap \in Snapshots
  BY SMT DEF ReplaceTarget, RInv, At, Remembers, Restoring, Holding, Guarded
<1>2. stage[job[p].snap] \in Db \union {None}
  BY <1>1 DEF RInv, TypeOK
<1>3. target \in Db \union {Absent, Empty, Torn}
  BY DEF RInv, TypeOK
<1> QED BY <1>2, <1>3 DEF ReplaceTarget

\* A restore that copies the rollback file back brings the prior state back.
LEMMA BroughtBack ==
    ASSUME RInv, NEW p \in Procs, UndoCopy(p)
    PROVE  target' = before /\ journal \in Journal
<1>1. /\ job[p].existed /\ journal = Own(p) /\ p \in Restorers
      /\ job[p].snap \in Snapshots
  BY SMT DEF UndoCopy, RInv, RestoreAt, RestoreIs, Recorded, At, Remembers,
     Restoring, Holding, Guarded
<1>2. job[p].existed \in BOOLEAN
  BY DEF RInv, TypeOK, Job
<1>3. journal \in Journal /\ journal.existed /\ journal.snap = job[p].snap
  BY <1>1, <1>2 DEF Own, Journal
<1> QED BY <1>3 DEF UndoCopy, RInv, PriorIsRecoverable

\* Recording a Run, or a correction, leaves a database.
LEMMA ServedTyped ==
    ASSUME TypeOK, NEW p \in Procs, ServeCommit(p)
    PROVE  target' \in Db \union {Absent, Empty, Torn}
<1>1. CASE Whole(target) /\ txn = p
  <2> DEFINE d == [target EXCEPT !.served = TRUE]
  <2>1. target \in Db /\ target' = d
    BY <1>1 DEF ServeCommit, Whole
  <2>2. d \in Db
    BY <2>1 DEF Db
  <2> HIDE DEF d
  <2> QED BY <2>1, <2>2
<1>2. CASE ~(Whole(target) /\ txn = p)
  BY <1>2 DEF ServeCommit, TypeOK
<1> QED BY <1>1, <1>2

LEMMA Corrected == ASSUME TypeOK, Correct PROVE target' \in Db
<1>1. /\ target \in Db /\ revs + 1 \in 0 .. MaxRev
      /\ target' = [target EXCEPT !.rev = revs + 1, !.row = "pending"]
  BY BoundAssumption DEF TypeOK, Correct, Whole
<1>2. \A d \in Db, n \in 0 .. MaxRev :
        [d EXCEPT !.rev = n, !.row = "pending"] \in Db
  BY DEF Db
<1> QED BY <1>1, <1>2

\* A restore that holds the lock is the only one that does.
LEMMA OneHolder ==
    ASSUME RInv, NEW p \in Procs, NEW q \in Procs,
           pc[p] \in Holding, pc[q] \in Holding
    PROVE  p = q
    BY DEF RInv, Exclusive

\* Whoever holds no lock has nothing of a restore to keep.
LEMMA Elsewhere ==
    ASSUME NEW q \in Procs, pc'[q] \notin Holding
    PROVE  RestoreIs(q)'
    BY SMT DEF RestoreIs, Holding, Guarded, Unrecorded, Staged, Recorded, At

\* The comparison sends a restore on with what it found.
LEMMA ComparedAt ==
    ASSUME RInv, NEW p \in Procs, CompareDigest(p), Remember PROVE RestoreAt'
<1>1. /\ pc[p] = "compare" /\ journal = None /\ journal' = None
      /\ target' = target /\ before' = target /\ snap' = snap
      /\ stage[job[p].snap] = Normal(snap[job[p].snap])
      /\ job[p].snap \in Snapshots /\ ~Served(target)
  BY SMT DEF CompareDigest, RInv, RestoreAt, RestoreIs, Remembers, Unserved,
     Remember, At, Unrecorded, Staged, Restoring, Holding, Guarded
<1>2. \A q \in Procs \ {p} : pc'[q] \notin Holding
  <2>1. \A q \in Procs \ {p} : pc[q] \notin Holding
    BY <1>1, OneHolder DEF Holding, Guarded
  <2> QED BY <2>1, Compared DEF RInv, TypeOK
<1>3. RestoreIs(p)'
  <2>1. TypeOK /\ p \in DOMAIN pc
    BY DEF RInv, TypeOK
  <2>2. CASE /\ pc' = [pc EXCEPT ![p] = "clear"] /\ UNCHANGED stage
             /\ job'[p].result = "not_required"
    BY <1>1, <2>1, <2>2 DEF RestoreIs, At, Unrecorded, Staged, Recorded, Same
  <2>3. CASE /\ pc' = [pc EXCEPT ![p] = "unlock"]
             /\ SameAuthority(target, stage[job[p].snap])
             /\ job'[p].result = "already_applied"
    <3>1. /\ SameAuthority(target, Normal(snap[job[p].snap]))
          /\ job'[p].snap = job[p].snap
      BY <1>1, <2>1, <2>3, Compared
    <3>2. SameAuthority(target', Normal(snap'[job'[p].snap]))
      BY <1>1, <3>1
    <3> QED BY <1>1, <2>1, <2>3, <3>2 DEF RestoreIs, At, Unrecorded, Staged,
           Recorded, SameAuthority, Normal, Whole
  <2>4. CASE /\ pc' = [pc EXCEPT ![p] = "save"] /\ UNCHANGED stage
             /\ job'[p].existed <=> target # Absent
    <3>1. job'[p].snap = job[p].snap
      BY <2>1, Compared
    <3> QED BY <1>1, <2>1, <2>4, <3>1 DEF RestoreIs, At, Unrecorded, Staged,
           Recorded, NoDatabase
  <2> QED BY <2>1, <2>2, <2>3, <2>4, Compared
<1> QED BY <1>2, <1>3, Elsewhere DEF RestoreAt

\* The others hold nothing while one does.
LEMMA HolderAt ==
    ASSUME RInv, NEW p \in Procs, pc[p] \in Holding,
           \A q \in Procs \ {p} : pc'[q] = pc[q], RestoreIs(p)'
    PROVE  RestoreAt'
<1>1. \A q \in Procs \ {p} : pc'[q] \notin Holding
  BY OneHolder
<1> QED BY <1>1, Elsewhere DEF RestoreAt

\* A replacement is undone down to no database, or to a torn copy.
LEMMA UndoneAt ==
    ASSUME RInv, NEW p \in Procs, Undo(p), Remember PROVE RestoreAt'
<1>1. /\ pc[p] = "undo" /\ journal = Own(p) /\ journal' = journal
      /\ before' = before
      /\ job[p].existed \in BOOLEAN /\ job[p].snap \in Snapshots /\ p \in DOMAIN pc
  <2>1. pc[p] = "undo" /\ journal = Own(p) /\ journal' = journal
    BY SMT DEF Undo, RInv, RestoreAt, RestoreIs, At, Recorded
  <2>2. job[p].snap \in Snapshots /\ job[p].existed \in BOOLEAN /\ p \in DOMAIN pc
    BY <2>1, SMT DEF RInv, TypeOK, Job, Remembers, At, Restoring, Holding,
       Guarded
  <2>3. journal # None
    BY <2>1, <2>2, SentinelAssumption DEF Own, Journal
  <2> QED BY <2>1, <2>2, <2>3 DEF Remember
<1>2. journal \in Journal /\ journal.existed = job[p].existed
  BY <1>1 DEF Own, Journal
<1>3. PICK r \in {"completed", "failed"} :
        /\ Finish(p, r) /\ (r = "failed" => job[p].existed)
        /\ pc' = [pc EXCEPT ![p] =
                    IF r = "completed" /\ job[p].existed THEN "undoCopy" ELSE "clear"]
  BY <1>1 DEF Undo, Go
<1>4. /\ job'[p].result = r /\ job'[p].snap = job[p].snap
      /\ job'[p].existed = job[p].existed
  BY <1>3, Finished DEF RInv, TypeOK, Results
<1>5. journal' = Own(p)'
  BY <1>1, <1>4 DEF Own
<1>6. RestoreIs(p)'
  <2>1. CASE job[p].existed /\ r = "completed"
    BY <1>1, <1>3, <1>4, <1>5, <2>1 DEF RestoreIs, At, Unrecorded, Staged,
       Recorded
  <2>2. CASE job[p].existed /\ r = "failed"
    <3>1. target' = Torn
      BY <2>2 DEF Undo
    <3> QED BY <1>1, <1>3, <1>4, <1>5, <2>2, <3>1 DEF RestoreIs, At, Unrecorded,
           Staged, Recorded
  <2>3. CASE ~job[p].existed
    <3>1. target' = Absent /\ before \in NoDatabase
      BY <1>2, <2>3 DEF Undo, RInv, PriorIsRecoverable
    <3>2. Same'
      BY <1>1, <3>1 DEF Same, NoDatabase
    <3> QED BY <1>1, <1>3, <1>4, <2>3, <3>2 DEF RestoreIs, At, Unrecorded,
           Staged, Recorded
  <2> QED BY <1>1, <2>1, <2>2, <2>3
<1>7. \A q \in Procs \ {p} : pc'[q] = pc[q]
  BY <1>3 DEF RInv, TypeOK
<1> QED BY <1>1, <1>6, <1>7, HolderAt DEF Holding, Guarded

\* The copy back leaves the prior state.
LEMMA UndoCopiedAt ==
    ASSUME RInv, NEW p \in Procs, UndoCopy(p), Remember PROVE RestoreAt'
<1>1. /\ target' = before /\ before' = before /\ journal' = journal /\ job' = job
  <2>1. journal # None
    BY BroughtBack, SentinelAssumption
  <2> QED BY <2>1, BroughtBack DEF UndoCopy, Remember
<1>2. pc[p] = "undoCopy" /\ job[p].result = "completed"
  BY SMT DEF UndoCopy, RInv, RestoreAt, RestoreIs, At
<1>3. pc' = [pc EXCEPT ![p] = "clear"] /\ p \in DOMAIN pc
  BY DEF UndoCopy, Go, RInv, TypeOK
<1>4. RestoreIs(p)'
  BY <1>1, <1>2, <1>3 DEF RestoreIs, At, Unrecorded, Staged, Recorded, Same
<1> QED BY <1>2, <1>3, <1>4, HolderAt DEF Holding, Guarded

\* A restore that failed leaves the prior state, or its journal.
LEMMA ClearedAt ==
    ASSUME RInv, NEW p \in Procs, ClearFailed(p), Remember PROVE RestoreAt'
<1>1. /\ pc[p] = "clear" /\ pc' = [pc EXCEPT ![p] = "unlock"] /\ p \in DOMAIN pc
      /\ target' = target /\ job' = job
      /\ journal' = IF job[p].result = "failed" THEN journal ELSE None
  BY DEF ClearFailed, At, Go, RInv, TypeOK
<1>2. /\ job[p].result \in {"not_required", "completed", "failed"}
      /\ job[p].result = "failed" => journal = Own(p) /\ target = Torn
      /\ job[p].result # "failed" /\ journal # None => Same
  BY <1>1, SMT DEF RInv, RestoreAt, RestoreIs, At
<1>3. RestoreIs(p)'
  <2>1. CASE job[p].result = "failed"
    <3>1. job[p].existed \in BOOLEAN /\ job[p].snap \in Snapshots
      BY <1>1, SMT DEF RInv, TypeOK, Job, Remembers, At, Restoring, Holding,
         Guarded
    <3>2. journal' # None /\ target' = Torn
      BY <1>1, <1>2, <2>1, <3>1, SentinelAssumption DEF Own, Journal
    <3> QED BY <1>1, <2>1, <3>2 DEF RestoreIs, At, Unrecorded, Staged, Recorded
  <2>2. CASE job[p].result # "failed"
    <3>1. Same' /\ journal' = None
      BY <1>1, <1>2, <2>2 DEF Same, Remember
    <3>2. job'[p].result \notin {"restored", "already_applied", "failed"}
      BY <1>1, <1>2, <2>2
    <3> QED BY <1>1, <3>1, <3>2 DEF RestoreIs, At, Unrecorded, Staged, Recorded
  <2> QED BY <2>1, <2>2
<1> QED BY <1>1, <1>3, HolderAt DEF Holding, Guarded

\* Nobody restores while the recovery of an interrupted restore copies.
LEMMA RecoveredAt ==
    ASSUME RInv, NEW p \in Procs, RecoverCopy(p) PROVE RestoreAt'
<1>1. \A q \in Procs : pc[q] \notin Holding
  <2>1. LockFree
    BY DEF RInv, Exclusive, RecoverCopy, At, Looking
  <2> QED BY <2>1, SentinelAssumption DEF RInv, Exclusive, LockFree
<1>2. \A q \in Procs : pc'[q] \notin Holding
  BY <1>1, SMT DEF RInv, TypeOK, RecoverCopy, Go, Holding, Guarded
<1> QED BY <1>2, Elsewhere DEF RestoreAt

\* No Run was recorded in what is brought back.
LEMMA UndoCopiedUnserved ==
    ASSUME RInv, NEW p \in Procs, UndoCopy(p), Remember PROVE Unserved'
<1>1. target' = before /\ journal' = journal /\ snap' = snap /\ journal # None
  BY BroughtBack, SentinelAssumption DEF UndoCopy
<1>2. /\ before' = before /\ ~Served(before)
      /\ \A s \in Snapshots : snap[s] # None => ~snap[s].served
  BY <1>1 DEF Remember, RInv, Unserved
<1>3. ~Served(target)' /\ ~Served(before)'
  BY <1>1, <1>2 DEF Served, Whole
<1> QED BY <1>1, <1>2, <1>3 DEF Unserved

\* Every process is at a place of the code.
LEMMA PcStep ==
    ASSUME RInv, Next PROVE (pc \in [Procs -> Places])'
<1> USE DEF RInv, TypeOK, Procs, Go, Return, Places
<1>1. ASSUME Initialize \/ Correct \/ Reanswer, Remember
      PROVE  (pc \in [Procs -> Places])'
    BY <1>1 DEF Initialize, Correct, Reanswer
<1>2. ASSUME NEW s \in Snapshots, Backup(s), Remember
      PROVE  (pc \in [Procs -> Places])'
    BY <1>2 DEF Backup
<1>3. ASSUME NEW s \in Snapshots, NEW p \in Restorers, RestoreStart(p, s), Remember
      PROVE  (pc \in [Procs -> Places])'
    BY <1>3 DEF RestoreStart
<1>4. ASSUME NEW p \in Hooks, HookStart(p), Remember
      PROVE  (pc \in [Procs -> Places])'
    BY <1>4 DEF HookStart
<1>5. ASSUME NEW p \in Procs, RecoverLock(p) \/ RecoverJournal(p) \/
             RecoverCopy(p) \/ RecoverClear(p) \/ RecoverUnlock(p) \/ Verify(p),
             Remember
      PROVE  (pc \in [Procs -> Places])'
    BY <1>5 DEF RecoverLock, RecoverJournal, RecoverCopy, RecoverClear,
       RecoverUnlock, Verify
<1>6. ASSUME NEW p \in Procs, AcquireLook(p) \/ AcquireSteal(p) \/
             AcquireCreate(p) \/ AcquireWrite(p) \/ RunGuard(p) \/
             StageArtifact(p), Remember
      PROVE  (pc \in [Procs -> Places])'
    BY <1>6 DEF AcquireLook, AcquireSteal, AcquireCreate, AcquireWrite,
       RunGuard, StageArtifact
<1>7. ASSUME NEW p \in Procs, CompareDigest(p) \/ SaveRollback(p) \/ SaveCopy(p)
             \/ CreateJournal(p) \/ WriteJournal(p) \/ ReplaceTarget(p), Remember
      PROVE  (pc \in [Procs -> Places])'
    BY <1>7 DEF CompareDigest, SaveRollback, SaveCopy, CreateJournal,
       WriteJournal, ReplaceTarget
<1>8. ASSUME NEW p \in Procs, ValidateRestored(p) \/ Undo(p) \/ UndoCopy(p) \/
             ClearFailed(p) \/ ReleaseLock(p) \/ ServeBegin(p), Remember
      PROVE  (pc \in [Procs -> Places])'
    BY <1>8 DEF ValidateRestored, Undo, UndoCopy, ClearFailed, ReleaseLock,
       ServeBegin
<1>9. ASSUME NEW p \in Procs, ServeCommit(p) \/ Stop(p) \/ Abort(p), Remember
      PROVE  (pc \in [Procs -> Places])'
    BY <1>9 DEF ServeCommit, Stop, Abort
<1> QED BY <1>1, <1>2, <1>3, <1>4, <1>5, <1>6, <1>7, <1>8, <1>9 DEF Next, Step,
       Procs

\* A snapshot is a database.
LEMMA SnapStep ==
    ASSUME RInv, Next PROVE (snap \in [Snapshots -> Db \union {None}])'
<1> USE DEF RInv, TypeOK, files, Whole
<1>1. ASSUME Initialize \/ Correct \/ Reanswer, Remember
      PROVE  (snap \in [Snapshots -> Db \union {None}])'
    BY <1>1 DEF Initialize, Correct, Reanswer
<1>2. ASSUME NEW s \in Snapshots, Backup(s), Remember
      PROVE  (snap \in [Snapshots -> Db \union {None}])'
    BY <1>2 DEF Backup, Db, Exported
<1>3. ASSUME NEW s \in Snapshots, NEW p \in Restorers, RestoreStart(p, s), Remember
      PROVE  (snap \in [Snapshots -> Db \union {None}])'
    BY <1>3 DEF RestoreStart
<1>4. ASSUME NEW p \in Hooks, HookStart(p), Remember
      PROVE  (snap \in [Snapshots -> Db \union {None}])'
    BY <1>4 DEF HookStart
<1>5. ASSUME NEW p \in Procs, RecoverLock(p) \/ RecoverJournal(p) \/
             RecoverCopy(p) \/ RecoverClear(p) \/ RecoverUnlock(p) \/ Verify(p)
             \/ AcquireLook(p) \/ AcquireSteal(p) \/ AcquireCreate(p) \/
             AcquireWrite(p) \/ RunGuard(p) \/ StageArtifact(p) \/
             CompareDigest(p) \/ SaveRollback(p) \/ SaveCopy(p) \/
             CreateJournal(p) \/ WriteJournal(p) \/ ReplaceTarget(p) \/
             ValidateRestored(p) \/ Undo(p) \/ UndoCopy(p) \/ ClearFailed(p) \/
             ReleaseLock(p) \/ ServeBegin(p) \/ ServeCommit(p) \/ Stop(p) \/
             Abort(p), Remember
      PROVE  (snap \in [Snapshots -> Db \union {None}])'
    BY <1>5 DEF RecoverLock, RecoverJournal, RecoverCopy, RecoverClear,
       RecoverUnlock, Verify, AcquireLook, AcquireSteal, AcquireCreate,
       AcquireWrite, RunGuard, StageArtifact, CompareDigest, SaveRollback,
       SaveCopy, CreateJournal, WriteJournal, ReplaceTarget, ValidateRestored,
       Undo, UndoCopy, ClearFailed, ReleaseLock, ServeBegin, ServeCommit, Stop,
       Abort
<1> QED BY <1>1, <1>2, <1>3, <1>4, <1>5 DEF Next, Step, Procs

\* A stage is a database: what is copied there is a snapshot's.
LEMMA StageStep ==
    ASSUME RInv, Next PROVE (stage \in [Snapshots -> Db \union {None}])'
<1> USE ProcessAssumption, SentinelAssumption, NormalTyped
<1> USE DEF RInv, TypeOK, files, At, Remembers, Guarded, Holding, Restoring,
       Unrecorded, Recorded, Staged, Replacing, Journal
<1>1. ASSUME Initialize \/ Correct \/ Reanswer, Remember
      PROVE  (stage \in [Snapshots -> Db \union {None}])'
    BY <1>1 DEF Initialize, Correct, Reanswer
<1>2. ASSUME NEW s \in Snapshots, Backup(s), Remember
      PROVE  (stage \in [Snapshots -> Db \union {None}])'
    BY <1>2 DEF Backup
<1>3. ASSUME NEW s \in Snapshots, NEW p \in Restorers, RestoreStart(p, s), Remember
      PROVE  (stage \in [Snapshots -> Db \union {None}])'
    BY <1>3 DEF RestoreStart
<1>4. ASSUME NEW p \in Hooks, HookStart(p), Remember
      PROVE  (stage \in [Snapshots -> Db \union {None}])'
    BY <1>4 DEF HookStart
<1>5. ASSUME NEW p \in Procs, RecoverLock(p) \/ RecoverJournal(p) \/
             RecoverCopy(p) \/ RecoverUnlock(p) \/ Verify(p) \/ AcquireLook(p) \/
             AcquireSteal(p) \/ AcquireCreate(p) \/ AcquireWrite(p) \/
             RunGuard(p) \/ SaveRollback(p) \/ SaveCopy(p) \/ CreateJournal(p) \/
             WriteJournal(p) \/ ValidateRestored(p) \/ Undo(p) \/ UndoCopy(p) \/
             ReleaseLock(p) \/ ServeBegin(p) \/ ServeCommit(p) \/ Stop(p) \/
             Abort(p), Remember
      PROVE  (stage \in [Snapshots -> Db \union {None}])'
    BY <1>5 DEF RecoverLock, RecoverJournal, RecoverCopy, RecoverUnlock, Verify,
       AcquireLook, AcquireSteal, AcquireCreate, AcquireWrite, RunGuard,
       SaveRollback, SaveCopy, CreateJournal, WriteJournal, ValidateRestored,
       Undo, UndoCopy, ReleaseLock, ServeBegin, ServeCommit, Stop, Abort
<1>6. ASSUME NEW p \in Procs, RecoverClear(p), Remember
      PROVE  (stage \in [Snapshots -> Db \union {None}])'
    BY <1>6 DEF RecoverClear
<1>7. ASSUME NEW p \in Procs, StageArtifact(p), Remember
      PROVE  (stage \in [Snapshots -> Db \union {None}])'
    BY <1>7 DEF StageArtifact
<1>8. ASSUME NEW p \in Procs, CompareDigest(p), Remember
      PROVE  (stage \in [Snapshots -> Db \union {None}])'
    BY <1>8 DEF CompareDigest
<1>9. ASSUME NEW p \in Procs, ReplaceTarget(p), Remember
      PROVE  (stage \in [Snapshots -> Db \union {None}])'
    BY <1>9 DEF ReplaceTarget
<1>10. ASSUME NEW p \in Procs, ClearFailed(p), Remember
       PROVE  (stage \in [Snapshots -> Db \union {None}])'
    BY <1>10 DEF ClearFailed
<1> QED BY <1>1, <1>2, <1>3, <1>4, <1>5, <1>6, <1>7, <1>8, <1>9, <1>10 DEF Next,
       Step, Procs

\* A rollback file is a copy of the target, or half of one.
LEMMA RollbackStep ==
    ASSUME RInv, Next PROVE (rollback \in [Snapshots -> Db \union {None, Empty, Torn}])'
<1> USE ProcessAssumption, SentinelAssumption
<1> USE DEF RInv, TypeOK, files, At, Remembers, Guarded, Holding, Restoring,
       Unrecorded, Recorded, Staged, Replacing, RestoreAt, RestoreIs
<1>1. ASSUME Initialize \/ Correct \/ Reanswer, Remember
      PROVE  (rollback \in [Snapshots -> Db \union {None, Empty, Torn}])'
    BY <1>1 DEF Initialize, Correct, Reanswer
<1>2. ASSUME NEW s \in Snapshots, Backup(s), Remember
      PROVE  (rollback \in [Snapshots -> Db \union {None, Empty, Torn}])'
    BY <1>2 DEF Backup
<1>3. ASSUME NEW s \in Snapshots, NEW p \in Restorers, RestoreStart(p, s), Remember
      PROVE  (rollback \in [Snapshots -> Db \union {None, Empty, Torn}])'
    BY <1>3 DEF RestoreStart
<1>4. ASSUME NEW p \in Hooks, HookStart(p), Remember
      PROVE  (rollback \in [Snapshots -> Db \union {None, Empty, Torn}])'
    BY <1>4 DEF HookStart
<1>5. ASSUME NEW p \in Procs, RecoverLock(p) \/ RecoverJournal(p) \/
             RecoverCopy(p) \/ RecoverClear(p) \/ RecoverUnlock(p) \/ Verify(p)
             \/ AcquireLook(p) \/ AcquireSteal(p) \/ AcquireCreate(p) \/
             AcquireWrite(p) \/ RunGuard(p) \/ StageArtifact(p) \/
             CompareDigest(p) \/ CreateJournal(p) \/ WriteJournal(p) \/
             ReplaceTarget(p) \/ ValidateRestored(p) \/ Undo(p) \/ UndoCopy(p) \/
             ClearFailed(p) \/ ReleaseLock(p) \/ ServeBegin(p) \/ ServeCommit(p)
             \/ Stop(p) \/ Abort(p), Remember
      PROVE  (rollback \in [Snapshots -> Db \union {None, Empty, Torn}])'
    BY <1>5 DEF RecoverLock, RecoverJournal, RecoverCopy, RecoverClear,
       RecoverUnlock, Verify, AcquireLook, AcquireSteal, AcquireCreate,
       AcquireWrite, RunGuard, StageArtifact, CompareDigest, CreateJournal,
       WriteJournal, ReplaceTarget, ValidateRestored, Undo, UndoCopy,
       ClearFailed, ReleaseLock, ServeBegin, ServeCommit, Stop, Abort
<1>6. ASSUME NEW p \in Procs, SaveRollback(p), Remember
      PROVE  (rollback \in [Snapshots -> Db \union {None, Empty, Torn}])'
    BY <1>6 DEF SaveRollback
<1>7. ASSUME NEW p \in Procs, SaveCopy(p), Remember
      PROVE  (rollback \in [Snapshots -> Db \union {None, Empty, Torn}])'
    BY <1>7 DEF SaveCopy
<1> QED BY <1>1, <1>2, <1>3, <1>4, <1>5, <1>6, <1>7 DEF Next, Step, Procs

\* A journal names the snapshot of the restore that wrote it.
LEMMA JournalStep ==
    ASSUME RInv, Next PROVE (journal \in Journal \union {None, Torn})'
<1> USE ProcessAssumption, SentinelAssumption
<1> USE DEF RInv, TypeOK, files, At, Journal, Remembers, Job, Restoring,
       Holding, Guarded
<1>1. ASSUME Initialize \/ Correct \/ Reanswer, Remember
      PROVE  (journal \in Journal \union {None, Torn})'
    BY <1>1 DEF Initialize, Correct, Reanswer
<1>2. ASSUME NEW s \in Snapshots, Backup(s), Remember
      PROVE  (journal \in Journal \union {None, Torn})'
    BY <1>2 DEF Backup
<1>3. ASSUME NEW s \in Snapshots, NEW p \in Restorers, RestoreStart(p, s), Remember
      PROVE  (journal \in Journal \union {None, Torn})'
    BY <1>3 DEF RestoreStart
<1>4. ASSUME NEW p \in Hooks, HookStart(p), Remember
      PROVE  (journal \in Journal \union {None, Torn})'
    BY <1>4 DEF HookStart
<1>5. ASSUME NEW p \in Procs, RecoverLock(p) \/ RecoverJournal(p) \/
             RecoverCopy(p) \/ RecoverUnlock(p) \/ Verify(p) \/ AcquireLook(p) \/
             AcquireSteal(p) \/ AcquireCreate(p) \/ AcquireWrite(p) \/
             RunGuard(p) \/ StageArtifact(p) \/ CompareDigest(p) \/
             SaveRollback(p) \/ SaveCopy(p) \/ ReplaceTarget(p) \/ Undo(p) \/
             UndoCopy(p) \/ ReleaseLock(p) \/ ServeBegin(p) \/ ServeCommit(p) \/
             Stop(p) \/ Abort(p), Remember
      PROVE  (journal \in Journal \union {None, Torn})'
    BY <1>5 DEF RecoverLock, RecoverJournal, RecoverCopy, RecoverUnlock, Verify,
       AcquireLook, AcquireSteal, AcquireCreate, AcquireWrite, RunGuard,
       StageArtifact, CompareDigest, SaveRollback, SaveCopy, ReplaceTarget,
       Undo, UndoCopy, ReleaseLock, ServeBegin, ServeCommit, Stop, Abort
<1>6. ASSUME NEW p \in Procs, RecoverClear(p), Remember
      PROVE  (journal \in Journal \union {None, Torn})'
    BY <1>6 DEF RecoverClear
<1>7. ASSUME NEW p \in Procs, CreateJournal(p), Remember
      PROVE  (journal \in Journal \union {None, Torn})'
    BY <1>7 DEF CreateJournal
<1>8. ASSUME NEW p \in Procs, WriteJournal(p), Remember
      PROVE  (journal \in Journal \union {None, Torn})'
    BY <1>8 DEF WriteJournal
<1>9. ASSUME NEW p \in Procs, ValidateRestored(p), Remember
      PROVE  (journal \in Journal \union {None, Torn})'
    BY <1>9 DEF ValidateRestored
<1>10. ASSUME NEW p \in Procs, ClearFailed(p), Remember
       PROVE  (journal \in Journal \union {None, Torn})'
    BY <1>10 DEF ClearFailed
<1> QED BY <1>1, <1>2, <1>3, <1>4, <1>5, <1>6, <1>7, <1>8, <1>9, <1>10 DEF Next,
       Step, Procs

\* A lock names the process that took it.
LEMMA LockStep ==
    ASSUME RInv, Next PROVE (lock \in Lock \union {None})'
<1> USE DEF RInv, TypeOK, files
<1>1. ASSUME Initialize \/ Correct \/ Reanswer, Remember
      PROVE  (lock \in Lock \union {None})'
    BY <1>1 DEF Initialize, Correct, Reanswer
<1>2. ASSUME NEW s \in Snapshots, Backup(s), Remember
      PROVE  (lock \in Lock \union {None})'
    BY <1>2 DEF Backup
<1>3. ASSUME NEW s \in Snapshots, NEW p \in Restorers, RestoreStart(p, s), Remember
      PROVE  (lock \in Lock \union {None})'
    BY <1>3 DEF RestoreStart
<1>4. ASSUME NEW p \in Hooks, HookStart(p), Remember
      PROVE  (lock \in Lock \union {None})'
    BY <1>4 DEF HookStart
<1>5. ASSUME NEW p \in Procs, RecoverLock(p) \/ RecoverJournal(p) \/
             RecoverCopy(p) \/ RecoverClear(p) \/ Verify(p) \/ AcquireLook(p) \/
             StageArtifact(p) \/ CompareDigest(p) \/ SaveRollback(p) \/
             SaveCopy(p) \/ CreateJournal(p) \/ WriteJournal(p) \/
             ReplaceTarget(p) \/ ValidateRestored(p) \/ Undo(p) \/ UndoCopy(p) \/
             ClearFailed(p) \/ ServeBegin(p) \/ ServeCommit(p) \/ Abort(p),
             Remember
      PROVE  (lock \in Lock \union {None})'
    BY <1>5 DEF RecoverLock, RecoverJournal, RecoverCopy, RecoverClear, Verify,
       AcquireLook, StageArtifact, CompareDigest, SaveRollback, SaveCopy,
       CreateJournal, WriteJournal, ReplaceTarget, ValidateRestored, Undo,
       UndoCopy, ClearFailed, ServeBegin, ServeCommit, Abort
<1>6. ASSUME NEW p \in Procs, RecoverUnlock(p), Remember
      PROVE  (lock \in Lock \union {None})'
    BY <1>6 DEF RecoverUnlock
<1>7. ASSUME NEW p \in Procs, AcquireSteal(p), Remember
      PROVE  (lock \in Lock \union {None})'
    BY <1>7 DEF AcquireSteal
<1>8. ASSUME NEW p \in Procs, AcquireCreate(p), Remember
      PROVE  (lock \in Lock \union {None})'
    BY <1>8, LockFields DEF AcquireCreate
<1>9. ASSUME NEW p \in Procs, AcquireWrite(p), Remember
      PROVE  (lock \in Lock \union {None})'
    BY <1>9, LockWritten
<1>10. ASSUME NEW p \in Procs, RunGuard(p), Remember
       PROVE  (lock \in Lock \union {None})'
    BY <1>10 DEF RunGuard
<1>11. ASSUME NEW p \in Procs, ReleaseLock(p), Remember
       PROVE  (lock \in Lock \union {None})'
    BY <1>11 DEF ReleaseLock
<1>12. ASSUME NEW p \in Procs, Stop(p), Remember
       PROVE  (lock \in Lock \union {None})'
    BY <1>12, LockLeft
<1> QED BY <1>1, <1>2, <1>3, <1>4, <1>5, <1>6, <1>7, <1>8, <1>9, <1>10, <1>11,
       <1>12 DEF Next, Step, Procs

\* The owner of the transaction, and the counters, stay within their bounds.
LEMMA RestStep ==
    ASSUME RInv, Next PROVE InRange'
<1> USE BoundAssumption
<1> USE DEF RInv, TypeOK, InRange, files
<1>1. ASSUME Initialize, Remember PROVE InRange'
    BY <1>1 DEF Initialize
<1>2. ASSUME Correct, Remember PROVE InRange'
    BY <1>2 DEF Correct
<1>3. ASSUME Reanswer, Remember PROVE InRange'
    BY <1>3 DEF Reanswer
<1>4. ASSUME NEW s \in Snapshots, Backup(s), Remember PROVE InRange'
    BY <1>4 DEF Backup
<1>5. ASSUME NEW s \in Snapshots, NEW p \in Restorers, RestoreStart(p, s), Remember
      PROVE  InRange'
    BY <1>5 DEF RestoreStart
<1>6. ASSUME NEW p \in Hooks, HookStart(p), Remember PROVE InRange'
    BY <1>6 DEF HookStart
<1>7. ASSUME NEW p \in Procs, RecoverLock(p) \/ RecoverJournal(p) \/
             RecoverCopy(p) \/ RecoverClear(p) \/ RecoverUnlock(p) \/ Verify(p)
             \/ AcquireLook(p) \/ AcquireSteal(p) \/ AcquireCreate(p) \/
             AcquireWrite(p) \/ RunGuard(p) \/ StageArtifact(p) \/
             CompareDigest(p) \/ SaveRollback(p) \/ SaveCopy(p) \/
             CreateJournal(p) \/ WriteJournal(p) \/ ReplaceTarget(p) \/
             ValidateRestored(p) \/ Undo(p) \/ UndoCopy(p) \/ ClearFailed(p) \/
             ReleaseLock(p) \/ Abort(p), Remember
      PROVE  InRange'
    BY <1>7 DEF RecoverLock, RecoverJournal, RecoverCopy, RecoverClear,
       RecoverUnlock, Verify, AcquireLook, AcquireSteal, AcquireCreate,
       AcquireWrite, RunGuard, StageArtifact, CompareDigest, SaveRollback,
       SaveCopy, CreateJournal, WriteJournal, ReplaceTarget, ValidateRestored,
       Undo, UndoCopy, ClearFailed, ReleaseLock, Abort
<1>8. ASSUME NEW p \in Procs, ServeBegin(p), Remember PROVE InRange'
    BY <1>8 DEF ServeBegin
<1>9. ASSUME NEW p \in Procs, ServeCommit(p), Remember PROVE InRange'
    BY <1>9 DEF ServeCommit
<1>10. ASSUME NEW p \in Procs, Stop(p), Remember PROVE InRange'
    BY <1>10 DEF Stop
<1> QED BY <1>1, <1>2, <1>3, <1>4, <1>5, <1>6, <1>7, <1>8, <1>9, <1>10 DEF Next,
       Step, Procs

\* The target stays a database, or a file half written: what is copied or moved
\* there is a stage or a rollback file that is whole.
LEMMA TargetStep ==
    ASSUME RInv, Next PROVE (target \in Db \union {Absent, Empty, Torn})'
<1> USE BoundAssumption, SentinelAssumption, FreshTyped
<1> USE DEF RInv, TypeOK, files, At, Whole, Remembers, PriorIsRecoverable,
       RestoreAt, RestoreIs, Own, Recorded, NoDatabase, Replacing, Staged,
       Journal, Db, Normal
<1>1. ASSUME Initialize, Remember
      PROVE  (target \in Db \union {Absent, Empty, Torn})'
    BY <1>1 DEF Initialize
<1>2. ASSUME Correct, Remember PROVE (target \in Db \union {Absent, Empty, Torn})'
    BY <1>2, Corrected
<1>3. ASSUME Reanswer, Remember
      PROVE  (target \in Db \union {Absent, Empty, Torn})'
    BY <1>3 DEF Reanswer
<1>4. ASSUME NEW s \in Snapshots, Backup(s), Remember
      PROVE  (target \in Db \union {Absent, Empty, Torn})'
    BY <1>4 DEF Backup
<1>5. ASSUME NEW s \in Snapshots, NEW p \in Restorers, RestoreStart(p, s), Remember
      PROVE  (target \in Db \union {Absent, Empty, Torn})'
    BY <1>5 DEF RestoreStart
<1>6. ASSUME NEW p \in Hooks, HookStart(p), Remember
      PROVE  (target \in Db \union {Absent, Empty, Torn})'
    BY <1>6 DEF HookStart
<1>7. ASSUME NEW p \in Procs, RecoverLock(p) \/ RecoverClear(p) \/
             RecoverUnlock(p) \/ Verify(p) \/ AcquireLook(p) \/ AcquireSteal(p)
             \/ AcquireCreate(p) \/ AcquireWrite(p) \/ RunGuard(p) \/
             StageArtifact(p) \/ CompareDigest(p) \/ SaveRollback(p) \/
             SaveCopy(p) \/ CreateJournal(p) \/ WriteJournal(p) \/
             ValidateRestored(p) \/ ClearFailed(p) \/ ReleaseLock(p) \/ Stop(p)
             \/ Abort(p), Remember
      PROVE  (target \in Db \union {Absent, Empty, Torn})'
    BY <1>7 DEF RecoverLock, RecoverClear, RecoverUnlock, Verify, AcquireLook,
       AcquireSteal, AcquireCreate, AcquireWrite, RunGuard, StageArtifact,
       CompareDigest, SaveRollback, SaveCopy, CreateJournal, WriteJournal,
       ValidateRestored, ClearFailed, ReleaseLock, Stop, Abort
<1>8. ASSUME NEW p \in Procs, RecoverJournal(p), Remember
      PROVE  (target \in Db \union {Absent, Empty, Torn})'
    BY <1>8 DEF RecoverJournal
<1>9. ASSUME NEW p \in Procs, RecoverCopy(p), Remember
      PROVE  (target \in Db \union {Absent, Empty, Torn})'
    BY <1>9 DEF RecoverCopy
<1>10. ASSUME NEW p \in Procs, ReplaceTarget(p), Remember
       PROVE  (target \in Db \union {Absent, Empty, Torn})'
    BY <1>10, ReplacedTarget
<1>11. ASSUME NEW p \in Procs, Undo(p), Remember
       PROVE  (target \in Db \union {Absent, Empty, Torn})'
    BY <1>11 DEF Undo
<1>12. ASSUME NEW p \in Procs, UndoCopy(p), Remember
       PROVE  (target \in Db \union {Absent, Empty, Torn})'
    BY <1>12, BroughtBack
<1>13. ASSUME NEW p \in Procs, ServeBegin(p), Remember
       PROVE  (target \in Db \union {Absent, Empty, Torn})'
    BY <1>13 DEF ServeBegin
<1>14. ASSUME NEW p \in Procs, ServeCommit(p), Remember
       PROVE  (target \in Db \union {Absent, Empty, Torn})'
    BY <1>14, ServedTyped
<1> QED BY <1>1, <1>2, <1>3, <1>4, <1>5, <1>6, <1>7, <1>8, <1>9, <1>10, <1>11,
       <1>12, <1>13, <1>14 DEF Next, Step, Procs

\* What a process remembers stays a job.
LEMMA JobStep ==
    ASSUME RInv, Next PROVE (job \in [Procs -> Job])'
<1> USE SentinelAssumption, NoJobTyped
<1> USE DEF RInv, Remember, TypeOK, files, At, Go, Return, Finish, Mine, Procs,
       Whole, Results, Remembers, Job, Journal
<1>1. ASSUME Initialize \/ Correct \/ Reanswer, Remember
      PROVE  (job \in [Procs -> Job])'
    BY <1>1 DEF Initialize, Correct, Reanswer
<1>2. ASSUME NEW s \in Snapshots, Backup(s), Remember
      PROVE  (job \in [Procs -> Job])'
    BY <1>2 DEF Backup
<1>3. ASSUME NEW s \in Snapshots, NEW p \in Restorers, RestoreStart(p, s), Remember
      PROVE  (job \in [Procs -> Job])'
    BY <1>3 DEF RestoreStart
<1>4. ASSUME NEW p \in Hooks, HookStart(p), Remember
      PROVE  (job \in [Procs -> Job])'
    BY <1>4 DEF HookStart
<1>5. ASSUME NEW p \in Procs, RecoverLock(p), Remember
      PROVE  (job \in [Procs -> Job])'
    BY <1>5 DEF RecoverLock
<1>6. ASSUME NEW p \in Procs, RecoverJournal(p), Remember
      PROVE  (job \in [Procs -> Job])'
    BY <1>6 DEF RecoverJournal
<1>7. ASSUME NEW p \in Procs, RecoverCopy(p), Remember
      PROVE  (job \in [Procs -> Job])'
    BY <1>7 DEF RecoverCopy
<1>8. ASSUME NEW p \in Procs, RecoverClear(p), Remember
      PROVE  (job \in [Procs -> Job])'
    BY <1>8 DEF RecoverClear
<1>9. ASSUME NEW p \in Procs, RecoverUnlock(p), Remember
      PROVE  (job \in [Procs -> Job])'
    BY <1>9 DEF RecoverUnlock
<1>10. ASSUME NEW p \in Procs, Verify(p), Remember PROVE (job \in [Procs -> Job])'
    BY <1>10 DEF Verify
<1>11. ASSUME NEW p \in Procs, AcquireLook(p), Remember
       PROVE  (job \in [Procs -> Job])'
    BY <1>11 DEF AcquireLook
<1>12. ASSUME NEW p \in Procs, AcquireSteal(p), Remember
       PROVE  (job \in [Procs -> Job])'
    BY <1>12 DEF AcquireSteal
<1>13. ASSUME NEW p \in Procs, AcquireCreate(p), Remember
       PROVE  (job \in [Procs -> Job])'
    BY <1>13 DEF AcquireCreate
<1>14. ASSUME NEW p \in Procs, AcquireWrite(p), Remember
       PROVE  (job \in [Procs -> Job])'
    BY <1>14 DEF AcquireWrite
<1>15. ASSUME NEW p \in Procs, RunGuard(p), Remember
       PROVE  (job \in [Procs -> Job])'
    BY <1>15 DEF RunGuard
<1>16. ASSUME NEW p \in Procs, StageArtifact(p), Remember
       PROVE  (job \in [Procs -> Job])'
    BY <1>16 DEF StageArtifact
<1>17. ASSUME NEW p \in Procs, CompareDigest(p), Remember
       PROVE  (job \in [Procs -> Job])'
    BY <1>17, Compared
<1>18. ASSUME NEW p \in Procs, SaveRollback(p), Remember
       PROVE  (job \in [Procs -> Job])'
    BY <1>18 DEF SaveRollback
<1>19. ASSUME NEW p \in Procs, SaveCopy(p), Remember
       PROVE  (job \in [Procs -> Job])'
    BY <1>19 DEF SaveCopy
<1>20. ASSUME NEW p \in Procs, CreateJournal(p), Remember
       PROVE  (job \in [Procs -> Job])'
    BY <1>20 DEF CreateJournal
<1>21. ASSUME NEW p \in Procs, WriteJournal(p), Remember
       PROVE  (job \in [Procs -> Job])'
    BY <1>21 DEF WriteJournal
<1>22. ASSUME NEW p \in Procs, ReplaceTarget(p), Remember
       PROVE  (job \in [Procs -> Job])'
    BY <1>22, Replaced
<1>23. ASSUME NEW p \in Procs, ValidateRestored(p), Remember
       PROVE  (job \in [Procs -> Job])'
    BY <1>23 DEF ValidateRestored
<1>24. ASSUME NEW p \in Procs, Undo(p), Remember PROVE (job \in [Procs -> Job])'
    BY <1>24 DEF Undo
<1>25. ASSUME NEW p \in Procs, UndoCopy(p), Remember
       PROVE  (job \in [Procs -> Job])'
    BY <1>25 DEF UndoCopy
<1>26. ASSUME NEW p \in Procs, ClearFailed(p), Remember
       PROVE  (job \in [Procs -> Job])'
    BY <1>26 DEF ClearFailed
<1>27. ASSUME NEW p \in Procs, ReleaseLock(p), Remember
       PROVE  (job \in [Procs -> Job])'
    BY <1>27 DEF ReleaseLock
<1>28. ASSUME NEW p \in Procs, ServeBegin(p), Remember
       PROVE  (job \in [Procs -> Job])'
    BY <1>28 DEF ServeBegin
<1>29. ASSUME NEW p \in Procs, ServeCommit(p), Remember
       PROVE  (job \in [Procs -> Job])'
    BY <1>29 DEF ServeCommit
<1>30. ASSUME NEW p \in Procs, Stop(p), Remember PROVE (job \in [Procs -> Job])'
    BY <1>30 DEF Stop
<1>31. ASSUME NEW p \in Procs, Abort(p), Remember PROVE (job \in [Procs -> Job])'
    BY <1>31 DEF Abort
<1> QED BY <1>1, <1>2, <1>3, <1>4, <1>5, <1>6, <1>7, <1>8, <1>9, <1>10, <1>11,
       <1>12, <1>13, <1>14, <1>15, <1>16, <1>17, <1>18, <1>19, <1>20, <1>21,
       <1>22, <1>23, <1>24, <1>25, <1>26, <1>27, <1>28, <1>29, <1>30, <1>31 DEF
       Next, Step, Procs

\* The lock stays with the restore at work, and one process at a time looks at what
\* another left, or records a Run.
LEMMA ExclusiveStep ==
    ASSUME Separate, RInv, Next PROVE Exclusive'
<1> USE ProcessAssumption, SentinelAssumption, LockFields
<1> USE DEF RInv, Remember, TypeOK, files, At, Go, Return, Finish, Mine, Procs,
       Whole, Alone, Separate, Looking, Recording, LockFree, Guarded, Holding,
       Restoring, Unrecorded, Recorded, Staged, Replacing, Exclusive
<1>1. ASSUME Initialize, Remember PROVE Exclusive'
    BY <1>1, SMTT(20) DEF Initialize
<1>2. ASSUME Correct, Remember PROVE Exclusive'
    BY <1>2, SMTT(20) DEF Correct
<1>3. ASSUME Reanswer, Remember PROVE Exclusive'
    BY <1>3, SMTT(20) DEF Reanswer
<1>4. ASSUME NEW s \in Snapshots, Backup(s), Remember PROVE Exclusive'
    BY <1>4, SMTT(20) DEF Backup
<1>5. ASSUME NEW s \in Snapshots, NEW p \in Restorers, RestoreStart(p, s), Remember
      PROVE  Exclusive'
    BY <1>5, SMTT(20) DEF RestoreStart
<1>6. ASSUME NEW p \in Hooks, HookStart(p), Remember PROVE Exclusive'
    BY <1>6, SMTT(20) DEF HookStart
<1>7. ASSUME NEW p \in Procs, RecoverLock(p), Remember PROVE Exclusive'
    BY <1>7, SMTT(20) DEF RecoverLock
<1>8. ASSUME NEW p \in Procs, RecoverJournal(p), Remember PROVE Exclusive'
    BY <1>8, SMTT(20) DEF RecoverJournal
<1>9. ASSUME NEW p \in Procs, RecoverCopy(p), Remember PROVE Exclusive'
    BY <1>9, SMTT(20) DEF RecoverCopy
<1>10. ASSUME NEW p \in Procs, RecoverClear(p), Remember PROVE Exclusive'
    BY <1>10, SMTT(20) DEF RecoverClear
<1>11. ASSUME NEW p \in Procs, RecoverUnlock(p), Remember PROVE Exclusive'
    BY <1>11, SMTT(20) DEF RecoverUnlock
<1>12. ASSUME NEW p \in Procs, Verify(p), Remember PROVE Exclusive'
    BY <1>12, SMTT(20) DEF Verify
<1>13. ASSUME NEW p \in Procs, AcquireLook(p), Remember PROVE Exclusive'
    BY <1>13, SMTT(20) DEF AcquireLook
<1>14. ASSUME NEW p \in Procs, AcquireSteal(p), Remember PROVE Exclusive'
    BY <1>14, SMTT(20) DEF AcquireSteal
<1>15. ASSUME NEW p \in Procs, AcquireCreate(p), Remember PROVE Exclusive'
    BY <1>15, SMTT(20) DEF AcquireCreate
<1>16. ASSUME NEW p \in Procs, AcquireWrite(p), Remember PROVE Exclusive'
    BY <1>16, LockWritten DEF AcquireWrite
<1>17. ASSUME NEW p \in Procs, RunGuard(p), Remember PROVE Exclusive'
    BY <1>17, SMTT(20) DEF RunGuard
<1>18. ASSUME NEW p \in Procs, StageArtifact(p), Remember PROVE Exclusive'
    BY <1>18, SMTT(20) DEF StageArtifact
<1>19. ASSUME NEW p \in Procs, CompareDigest(p), Remember PROVE Exclusive'
    BY <1>19, SMTT(20) DEF CompareDigest
<1>20. ASSUME NEW p \in Procs, SaveRollback(p), Remember PROVE Exclusive'
    BY <1>20, SMTT(20) DEF SaveRollback
<1>21. ASSUME NEW p \in Procs, SaveCopy(p), Remember PROVE Exclusive'
    BY <1>21, SMTT(20) DEF SaveCopy
<1>22. ASSUME NEW p \in Procs, CreateJournal(p), Remember PROVE Exclusive'
    BY <1>22, SMTT(20) DEF CreateJournal
<1>23. ASSUME NEW p \in Procs, WriteJournal(p), Remember PROVE Exclusive'
    BY <1>23, SMTT(20) DEF WriteJournal
<1>24. ASSUME NEW p \in Procs, ReplaceTarget(p), Remember PROVE Exclusive'
    BY <1>24, SMTT(20) DEF ReplaceTarget
<1>25. ASSUME NEW p \in Procs, ValidateRestored(p), Remember PROVE Exclusive'
    BY <1>25, SMTT(20) DEF ValidateRestored
<1>26. ASSUME NEW p \in Procs, Undo(p), Remember PROVE Exclusive'
    BY <1>26, SMTT(20) DEF Undo
<1>27. ASSUME NEW p \in Procs, UndoCopy(p), Remember PROVE Exclusive'
    BY <1>27, SMTT(20) DEF UndoCopy
<1>28. ASSUME NEW p \in Procs, ClearFailed(p), Remember PROVE Exclusive'
    BY <1>28, SMTT(20) DEF ClearFailed
<1>29. ASSUME NEW p \in Procs, ReleaseLock(p), Remember PROVE Exclusive'
    BY <1>29, SMTT(20) DEF ReleaseLock
<1>30. ASSUME NEW p \in Procs, ServeBegin(p), Remember PROVE Exclusive'
    BY <1>30, SMTT(20) DEF ServeBegin
<1>31. ASSUME NEW p \in Procs, ServeCommit(p), Remember PROVE Exclusive'
    BY <1>31, SMTT(20) DEF ServeCommit
<1>32. ASSUME NEW p \in Procs, Stop(p), Remember PROVE Exclusive'
    BY <1>32, SMTT(20) DEF Stop
<1>33. ASSUME NEW p \in Procs, Abort(p), Remember PROVE Exclusive'
    BY <1>33, SMTT(20) DEF Abort
<1> QED BY <1>1, <1>2, <1>3, <1>4, <1>5, <1>6, <1>7, <1>8, <1>9, <1>10, <1>11,
       <1>12, <1>13, <1>14, <1>15, <1>16, <1>17, <1>18, <1>19, <1>20, <1>21,
       <1>22, <1>23, <1>24, <1>25, <1>26, <1>27, <1>28, <1>29, <1>30, <1>31,
       <1>32, <1>33 DEF Next, Step, Procs

\* What a process remembers stays true until it acts on it.
LEMMA RemembersStep ==
    ASSUME Separate, RInv, Next PROVE Remembers'
<1> USE ProcessAssumption, SentinelAssumption
<1> USE DEF Separate, RInv, Remember, TypeOK, files, At, Go, Return, Finish,
       Mine, Procs, Whole, Alone, Separate, Looking, Recording, LockFree,
       Guarded, Holding, Restoring, Unrecorded, Recorded, Staged, Replacing,
       Quiet, NoJob, Served, Exclusive, Remembers, Job, RestoreAt, RestoreIs,
       Committing
<1>1. ASSUME Initialize, Remember PROVE Remembers'
    BY <1>1, SMTT(20) DEF Initialize
<1>2. ASSUME Correct, Remember PROVE Remembers'
    BY <1>2, SMTT(20) DEF Correct
<1>3. ASSUME Reanswer, Remember PROVE Remembers'
    BY <1>3, SMTT(20) DEF Reanswer
<1>4. ASSUME NEW s \in Snapshots, Backup(s), Remember PROVE Remembers'
    BY <1>4, SMTT(20) DEF Backup
<1>5. ASSUME NEW s \in Snapshots, NEW p \in Restorers, RestoreStart(p, s), Remember
      PROVE  Remembers'
    BY <1>5, SMTT(20) DEF RestoreStart
<1>6. ASSUME NEW p \in Hooks, HookStart(p), Remember PROVE Remembers'
    BY <1>6, SMTT(20) DEF HookStart
<1>7. ASSUME NEW p \in Procs, RecoverLock(p), Remember PROVE Remembers'
    BY <1>7, SMTT(20) DEF RecoverLock
<1>8. ASSUME NEW p \in Procs, RecoverJournal(p), Remember PROVE Remembers'
    BY <1>8, SMTT(20) DEF RecoverJournal
<1>9. ASSUME NEW p \in Procs, RecoverCopy(p), Remember PROVE Remembers'
    BY <1>9, SMTT(20) DEF RecoverCopy
<1>10. ASSUME NEW p \in Procs, RecoverClear(p), Remember PROVE Remembers'
    BY <1>10, SMTT(20) DEF RecoverClear
<1>11. ASSUME NEW p \in Procs, RecoverUnlock(p), Remember PROVE Remembers'
    BY <1>11, SMTT(20) DEF RecoverUnlock
<1>12. ASSUME NEW p \in Procs, Verify(p), Remember PROVE Remembers'
    BY <1>12, SMTT(20) DEF Verify
<1>13. ASSUME NEW p \in Procs, AcquireLook(p), Remember PROVE Remembers'
    BY <1>13, SMTT(20) DEF AcquireLook
<1>14. ASSUME NEW p \in Procs, AcquireSteal(p), Remember PROVE Remembers'
    BY <1>14, SMTT(20) DEF AcquireSteal
<1>15. ASSUME NEW p \in Procs, AcquireCreate(p), Remember PROVE Remembers'
    BY <1>15, SMTT(20) DEF AcquireCreate
<1>16. ASSUME NEW p \in Procs, AcquireWrite(p), Remember PROVE Remembers'
    BY <1>16, SMTT(20) DEF AcquireWrite
<1>17. ASSUME NEW p \in Procs, RunGuard(p), Remember PROVE Remembers'
    BY <1>17, SMTT(20) DEF RunGuard
<1>18. ASSUME NEW p \in Procs, StageArtifact(p), Remember PROVE Remembers'
    BY <1>18, SMTT(20) DEF StageArtifact
<1>19. ASSUME NEW p \in Procs, CompareDigest(p), Remember PROVE Remembers'
    BY <1>19, SMTT(20) DEF CompareDigest
<1>20. ASSUME NEW p \in Procs, SaveRollback(p), Remember PROVE Remembers'
    BY <1>20, SMTT(20) DEF SaveRollback
<1>21. ASSUME NEW p \in Procs, SaveCopy(p), Remember PROVE Remembers'
    BY <1>21, SMTT(20) DEF SaveCopy
<1>22. ASSUME NEW p \in Procs, CreateJournal(p), Remember PROVE Remembers'
    BY <1>22, SMTT(20) DEF CreateJournal
<1>23. ASSUME NEW p \in Procs, WriteJournal(p), Remember PROVE Remembers'
    BY <1>23, SMTT(20) DEF WriteJournal
<1>24. ASSUME NEW p \in Procs, ReplaceTarget(p), Remember PROVE Remembers'
    BY <1>24, SMTT(20) DEF ReplaceTarget
<1>25. ASSUME NEW p \in Procs, ValidateRestored(p), Remember PROVE Remembers'
    BY <1>25, SMTT(20) DEF ValidateRestored
<1>26. ASSUME NEW p \in Procs, Undo(p), Remember PROVE Remembers'
    BY <1>26, SMTT(20) DEF Undo
<1>27. ASSUME NEW p \in Procs, UndoCopy(p), Remember PROVE Remembers'
    BY <1>27, SMTT(20) DEF UndoCopy
<1>28. ASSUME NEW p \in Procs, ClearFailed(p), Remember PROVE Remembers'
    BY <1>28, SMTT(20) DEF ClearFailed
<1>29. ASSUME NEW p \in Procs, ReleaseLock(p), Remember PROVE Remembers'
    BY <1>29, SMTT(20) DEF ReleaseLock
<1>30. ASSUME NEW p \in Procs, ServeBegin(p), Remember PROVE Remembers'
    BY <1>30, SMTT(20) DEF ServeBegin
<1>31. ASSUME NEW p \in Procs, ServeCommit(p), Remember PROVE Remembers'
    BY <1>31, SMTT(20) DEF ServeCommit
<1>32. ASSUME NEW p \in Procs, Stop(p), Remember PROVE Remembers'
    BY <1>32, SMTT(20) DEF Stop
<1>33. ASSUME NEW p \in Procs, Abort(p), Remember PROVE Remembers'
    BY <1>33, SMTT(20) DEF Abort
<1> QED BY <1>1, <1>2, <1>3, <1>4, <1>5, <1>6, <1>7, <1>8, <1>9, <1>10, <1>11,
       <1>12, <1>13, <1>14, <1>15, <1>16, <1>17, <1>18, <1>19, <1>20, <1>21,
       <1>22, <1>23, <1>24, <1>25, <1>26, <1>27, <1>28, <1>29, <1>30, <1>31,
       <1>32, <1>33 DEF Next, Step, Procs

\* A Run is recorded while no restore is past its guard.
LEMMA CommittingStep ==
    ASSUME Separate, RInv, Next PROVE Committing'
<1> USE ProcessAssumption, SentinelAssumption, FreshTyped
<1> USE DEF RInv, Remember, TypeOK, files, At, Go, Return, Finish, Mine, Procs,
       Whole, Alone, Separate, Looking, Recording, LockFree, Guarded, Holding,
       Restoring, Unrecorded, Recorded, Staged, Replacing, Exclusive,
       Committing, Remembers, RestoreAt, RestoreIs, Replaceable, ServesLater,
       Quiet, Served, Db, Normal
<1>1. ASSUME Initialize, Remember PROVE Committing'
    BY <1>1, SMTT(20) DEF Initialize
<1>2. ASSUME Correct, Remember PROVE Committing'
    BY <1>2, SMTT(20) DEF Correct
<1>3. ASSUME Reanswer, Remember PROVE Committing'
    BY <1>3, SMTT(20) DEF Reanswer
<1>4. ASSUME NEW s \in Snapshots, Backup(s), Remember PROVE Committing'
    BY <1>4, SMTT(20) DEF Backup
<1>5. ASSUME NEW s \in Snapshots, NEW p \in Restorers, RestoreStart(p, s), Remember
      PROVE  Committing'
    BY <1>5, SMTT(20) DEF RestoreStart
<1>6. ASSUME NEW p \in Hooks, HookStart(p), Remember PROVE Committing'
    BY <1>6, SMTT(20) DEF HookStart
<1>7. ASSUME NEW p \in Procs, RecoverLock(p), Remember PROVE Committing'
    BY <1>7, SMTT(20) DEF RecoverLock
<1>8. ASSUME NEW p \in Procs, RecoverJournal(p), Remember PROVE Committing'
    BY <1>8, SMTT(20) DEF RecoverJournal
<1>9. ASSUME NEW p \in Procs, RecoverCopy(p), Remember PROVE Committing'
    BY <1>9, SMTT(20) DEF RecoverCopy
<1>10. ASSUME NEW p \in Procs, RecoverClear(p), Remember PROVE Committing'
    BY <1>10, SMTT(20) DEF RecoverClear
<1>11. ASSUME NEW p \in Procs, RecoverUnlock(p), Remember PROVE Committing'
    BY <1>11, SMTT(20) DEF RecoverUnlock
<1>12. ASSUME NEW p \in Procs, Verify(p), Remember PROVE Committing'
    BY <1>12, SMTT(20) DEF Verify
<1>13. ASSUME NEW p \in Procs, AcquireLook(p), Remember PROVE Committing'
    BY <1>13, SMTT(20) DEF AcquireLook
<1>14. ASSUME NEW p \in Procs, AcquireSteal(p), Remember PROVE Committing'
    BY <1>14, SMTT(20) DEF AcquireSteal
<1>15. ASSUME NEW p \in Procs, AcquireCreate(p), Remember PROVE Committing'
    BY <1>15, SMTT(20) DEF AcquireCreate
<1>16. ASSUME NEW p \in Procs, AcquireWrite(p), Remember PROVE Committing'
    BY <1>16, SMTT(20) DEF AcquireWrite
<1>17. ASSUME NEW p \in Procs, RunGuard(p), Remember PROVE Committing'
    BY <1>17, SMTT(20) DEF RunGuard
<1>18. ASSUME NEW p \in Procs, StageArtifact(p), Remember PROVE Committing'
    BY <1>18, SMTT(20) DEF StageArtifact
<1>19. ASSUME NEW p \in Procs, CompareDigest(p), Remember PROVE Committing'
    BY <1>19, SMTT(20) DEF CompareDigest
<1>20. ASSUME NEW p \in Procs, SaveRollback(p), Remember PROVE Committing'
    BY <1>20, SMTT(20) DEF SaveRollback
<1>21. ASSUME NEW p \in Procs, SaveCopy(p), Remember PROVE Committing'
    BY <1>21, SMTT(20) DEF SaveCopy
<1>22. ASSUME NEW p \in Procs, CreateJournal(p), Remember PROVE Committing'
    BY <1>22, SMTT(20) DEF CreateJournal
<1>23. ASSUME NEW p \in Procs, WriteJournal(p), Remember PROVE Committing'
    BY <1>23, SMTT(20) DEF WriteJournal
<1>24. ASSUME NEW p \in Procs, ReplaceTarget(p), Remember PROVE Committing'
    BY <1>24, SMTT(20) DEF ReplaceTarget
<1>25. ASSUME NEW p \in Procs, ValidateRestored(p), Remember PROVE Committing'
    BY <1>25, SMTT(20) DEF ValidateRestored
<1>26. ASSUME NEW p \in Procs, Undo(p), Remember PROVE Committing'
    BY <1>26, SMTT(20) DEF Undo
<1>27. ASSUME NEW p \in Procs, UndoCopy(p), Remember PROVE Committing'
    BY <1>27, SMTT(20) DEF UndoCopy
<1>28. ASSUME NEW p \in Procs, ClearFailed(p), Remember PROVE Committing'
    BY <1>28, SMTT(20) DEF ClearFailed
<1>29. ASSUME NEW p \in Procs, ReleaseLock(p), Remember PROVE Committing'
    BY <1>29, SMTT(20) DEF ReleaseLock
<1>30. ASSUME NEW p \in Procs, ServeBegin(p), Remember PROVE Committing'
    BY <1>30, SMTT(20) DEF ServeBegin
<1>31. ASSUME NEW p \in Procs, ServeCommit(p), Remember PROVE Committing'
    BY <1>31, SMTT(20) DEF ServeCommit
<1>32. ASSUME NEW p \in Procs, Stop(p), Remember PROVE Committing'
    BY <1>32, SMTT(20) DEF Stop
<1>33. ASSUME NEW p \in Procs, Abort(p), Remember PROVE Committing'
    BY <1>33, SMTT(20) DEF Abort
<1> QED BY <1>1, <1>2, <1>3, <1>4, <1>5, <1>6, <1>7, <1>8, <1>9, <1>10, <1>11,
       <1>12, <1>13, <1>14, <1>15, <1>16, <1>17, <1>18, <1>19, <1>20, <1>21,
       <1>22, <1>23, <1>24, <1>25, <1>26, <1>27, <1>28, <1>29, <1>30, <1>31,
       <1>32, <1>33 DEF Next, Step, Procs

\* A hook that finds the instance free finds no journal.
LEMMA ServesLaterStep ==
    ASSUME Separate, RInv, Next PROVE ServesLater'
<1> USE ProcessAssumption, SentinelAssumption
<1> USE DEF RInv, Remember, TypeOK, files, At, Go, Return, Finish, Mine, Procs,
       Whole, Alone, Separate, Looking, Recording, LockFree, Guarded, Holding,
       Restoring, Unrecorded, Recorded, Staged, Replacing, Quiet, NoJob, Served,
       Exclusive, Committing, ServesLater, RestoreAt, RestoreIs, Remembers, Job
<1>1. ASSUME Initialize, Remember PROVE ServesLater'
    BY <1>1, SMTT(20) DEF Initialize
<1>2. ASSUME Correct, Remember PROVE ServesLater'
    BY <1>2, SMTT(20) DEF Correct
<1>3. ASSUME Reanswer, Remember PROVE ServesLater'
    BY <1>3, SMTT(20) DEF Reanswer
<1>4. ASSUME NEW s \in Snapshots, Backup(s), Remember PROVE ServesLater'
    BY <1>4, SMTT(20) DEF Backup
<1>5. ASSUME NEW s \in Snapshots, NEW p \in Restorers, RestoreStart(p, s), Remember
      PROVE  ServesLater'
    BY <1>5, SMTT(20) DEF RestoreStart
<1>6. ASSUME NEW p \in Hooks, HookStart(p), Remember PROVE ServesLater'
    BY <1>6, SMTT(20) DEF HookStart
<1>7. ASSUME NEW p \in Procs, RecoverLock(p), Remember PROVE ServesLater'
    BY <1>7, SMTT(20) DEF RecoverLock
<1>8. ASSUME NEW p \in Procs, RecoverJournal(p), Remember PROVE ServesLater'
    BY <1>8, SMTT(20) DEF RecoverJournal
<1>9. ASSUME NEW p \in Procs, RecoverCopy(p), Remember PROVE ServesLater'
    BY <1>9, SMTT(20) DEF RecoverCopy
<1>10. ASSUME NEW p \in Procs, RecoverClear(p), Remember PROVE ServesLater'
    BY <1>10, SMTT(20) DEF RecoverClear
<1>11. ASSUME NEW p \in Procs, RecoverUnlock(p), Remember PROVE ServesLater'
    BY <1>11, SMTT(20) DEF RecoverUnlock
<1>12. ASSUME NEW p \in Procs, Verify(p), Remember PROVE ServesLater'
    BY <1>12, SMTT(20) DEF Verify
<1>13. ASSUME NEW p \in Procs, AcquireLook(p), Remember PROVE ServesLater'
    BY <1>13, SMTT(20) DEF AcquireLook
<1>14. ASSUME NEW p \in Procs, AcquireSteal(p), Remember PROVE ServesLater'
    BY <1>14, SMTT(20) DEF AcquireSteal
<1>15. ASSUME NEW p \in Procs, AcquireCreate(p), Remember PROVE ServesLater'
    BY <1>15, SMTT(20) DEF AcquireCreate
<1>16. ASSUME NEW p \in Procs, AcquireWrite(p), Remember PROVE ServesLater'
    BY <1>16, SMTT(20) DEF AcquireWrite
<1>17. ASSUME NEW p \in Procs, RunGuard(p), Remember PROVE ServesLater'
    BY <1>17, SMTT(20) DEF RunGuard
<1>18. ASSUME NEW p \in Procs, StageArtifact(p), Remember PROVE ServesLater'
    BY <1>18, SMTT(20) DEF StageArtifact
<1>19. ASSUME NEW p \in Procs, CompareDigest(p), Remember PROVE ServesLater'
    BY <1>19, SMTT(20) DEF CompareDigest
<1>20. ASSUME NEW p \in Procs, SaveRollback(p), Remember PROVE ServesLater'
    BY <1>20, SMTT(20) DEF SaveRollback
<1>21. ASSUME NEW p \in Procs, SaveCopy(p), Remember PROVE ServesLater'
    BY <1>21, SMTT(20) DEF SaveCopy
<1>22. ASSUME NEW p \in Procs, CreateJournal(p), Remember PROVE ServesLater'
    BY <1>22, SMTT(20) DEF CreateJournal
<1>23. ASSUME NEW p \in Procs, WriteJournal(p), Remember PROVE ServesLater'
    BY <1>23, SMTT(20) DEF WriteJournal
<1>24. ASSUME NEW p \in Procs, ReplaceTarget(p), Remember PROVE ServesLater'
    BY <1>24, SMTT(20) DEF ReplaceTarget
<1>25. ASSUME NEW p \in Procs, ValidateRestored(p), Remember PROVE ServesLater'
    BY <1>25, SMTT(20) DEF ValidateRestored
<1>26. ASSUME NEW p \in Procs, Undo(p), Remember PROVE ServesLater'
    BY <1>26, SMTT(20) DEF Undo
<1>27. ASSUME NEW p \in Procs, UndoCopy(p), Remember PROVE ServesLater'
    BY <1>27, SMTT(20) DEF UndoCopy
<1>28. ASSUME NEW p \in Procs, ClearFailed(p), Remember PROVE ServesLater'
    BY <1>28, SMTT(20) DEF ClearFailed
<1>29. ASSUME NEW p \in Procs, ReleaseLock(p), Remember PROVE ServesLater'
    BY <1>29, SMTT(20) DEF ReleaseLock
<1>30. ASSUME NEW p \in Procs, ServeBegin(p), Remember PROVE ServesLater'
    BY <1>30, SMTT(20) DEF ServeBegin
<1>31. ASSUME NEW p \in Procs, ServeCommit(p), Remember PROVE ServesLater'
    BY <1>31, SMTT(20) DEF ServeCommit
<1>32. ASSUME NEW p \in Procs, Stop(p), Remember PROVE ServesLater'
    BY <1>32, LockLeft DEF Stop
<1>33. ASSUME NEW p \in Procs, Abort(p), Remember PROVE ServesLater'
    BY <1>33, SMTT(20) DEF Abort
<1> QED BY <1>1, <1>2, <1>3, <1>4, <1>5, <1>6, <1>7, <1>8, <1>9, <1>10, <1>11,
       <1>12, <1>13, <1>14, <1>15, <1>16, <1>17, <1>18, <1>19, <1>20, <1>21,
       <1>22, <1>23, <1>24, <1>25, <1>26, <1>27, <1>28, <1>29, <1>30, <1>31,
       <1>32, <1>33 DEF Next, Step, Procs

\* What a restore replaces or brings back stays without Runs.
LEMMA UnservedStep ==
    ASSUME Separate, RInv, Next PROVE Unserved'
<1> USE ProcessAssumption, SentinelAssumption, FreshTyped, NormalTyped
<1> USE DEF RInv, Remember, TypeOK, files, At, Go, Return, Finish, Mine, Procs,
       Whole, Alone, Separate, Looking, Recording, LockFree, Guarded, Holding,
       Restoring, Unrecorded, Recorded, Staged, Replacing, Exclusive,
       Committing, Remembers, RestoreAt, RestoreIs, ServesLater, Unserved,
       Served, Replaceable, PriorIsRecoverable, NoDatabase, Own, Same, Quiet
<1>1. ASSUME Initialize, Remember PROVE Unserved'
    BY <1>1, SMTT(20) DEF Initialize
<1>2. ASSUME Correct, Remember PROVE Unserved'
    BY <1>2, SMTT(20) DEF Correct
<1>3. ASSUME Reanswer, Remember PROVE Unserved'
    BY <1>3, SMTT(20) DEF Reanswer
<1>4. ASSUME NEW s \in Snapshots, Backup(s), Remember PROVE Unserved'
    BY <1>4 DEF Backup, Exported
<1>5. ASSUME NEW s \in Snapshots, NEW p \in Restorers, RestoreStart(p, s), Remember
      PROVE  Unserved'
    BY <1>5, SMTT(20) DEF RestoreStart
<1>6. ASSUME NEW p \in Hooks, HookStart(p), Remember PROVE Unserved'
    BY <1>6, SMTT(20) DEF HookStart
<1>7. ASSUME NEW p \in Procs, RecoverLock(p), Remember PROVE Unserved'
    BY <1>7, SMTT(20) DEF RecoverLock
<1>8. ASSUME NEW p \in Procs, RecoverJournal(p), Remember PROVE Unserved'
    BY <1>8, SMTT(20) DEF RecoverJournal
<1>9. ASSUME NEW p \in Procs, RecoverCopy(p), Remember PROVE Unserved'
    BY <1>9, SMTT(20) DEF RecoverCopy
<1>10. ASSUME NEW p \in Procs, RecoverClear(p), Remember PROVE Unserved'
    BY <1>10, SMTT(20) DEF RecoverClear
<1>11. ASSUME NEW p \in Procs, RecoverUnlock(p), Remember PROVE Unserved'
    BY <1>11, SMTT(20) DEF RecoverUnlock
<1>12. ASSUME NEW p \in Procs, Verify(p), Remember PROVE Unserved'
    BY <1>12, SMTT(20) DEF Verify
<1>13. ASSUME NEW p \in Procs, AcquireLook(p), Remember PROVE Unserved'
    BY <1>13, SMTT(20) DEF AcquireLook
<1>14. ASSUME NEW p \in Procs, AcquireSteal(p), Remember PROVE Unserved'
    BY <1>14, SMTT(20) DEF AcquireSteal
<1>15. ASSUME NEW p \in Procs, AcquireCreate(p), Remember PROVE Unserved'
    BY <1>15, SMTT(20) DEF AcquireCreate
<1>16. ASSUME NEW p \in Procs, AcquireWrite(p), Remember PROVE Unserved'
    BY <1>16, SMTT(20) DEF AcquireWrite
<1>17. ASSUME NEW p \in Procs, RunGuard(p), Remember PROVE Unserved'
    BY <1>17, SMTT(20) DEF RunGuard
<1>18. ASSUME NEW p \in Procs, StageArtifact(p), Remember PROVE Unserved'
    BY <1>18, SMTT(20) DEF StageArtifact
<1>19. ASSUME NEW p \in Procs, CompareDigest(p), Remember PROVE Unserved'
    BY <1>19, SMTT(20) DEF CompareDigest
<1>20. ASSUME NEW p \in Procs, SaveRollback(p), Remember PROVE Unserved'
    BY <1>20, SMTT(20) DEF SaveRollback
<1>21. ASSUME NEW p \in Procs, SaveCopy(p), Remember PROVE Unserved'
    BY <1>21, SMTT(20) DEF SaveCopy
<1>22. ASSUME NEW p \in Procs, CreateJournal(p), Remember PROVE Unserved'
    BY <1>22, SMTT(20) DEF CreateJournal
<1>23. ASSUME NEW p \in Procs, WriteJournal(p), Remember PROVE Unserved'
    BY <1>23, SMTT(20) DEF WriteJournal
<1>24. ASSUME NEW p \in Procs, ReplaceTarget(p), Remember PROVE Unserved'
    BY <1>24, SMTT(20) DEF ReplaceTarget
<1>25. ASSUME NEW p \in Procs, ValidateRestored(p), Remember PROVE Unserved'
    BY <1>25, SMTT(20) DEF ValidateRestored
<1>26. ASSUME NEW p \in Procs, Undo(p), Remember PROVE Unserved'
    BY <1>26, SMTT(20) DEF Undo
<1>27. ASSUME NEW p \in Procs, UndoCopy(p), Remember PROVE Unserved'
    BY <1>27, UndoCopiedUnserved
<1>28. ASSUME NEW p \in Procs, ClearFailed(p), Remember PROVE Unserved'
    BY <1>28, SMTT(20) DEF ClearFailed
<1>29. ASSUME NEW p \in Procs, ReleaseLock(p), Remember PROVE Unserved'
    BY <1>29, SMTT(20) DEF ReleaseLock
<1>30. ASSUME NEW p \in Procs, ServeBegin(p), Remember PROVE Unserved'
    BY <1>30, SMTT(20) DEF ServeBegin
<1>31. ASSUME NEW p \in Procs, ServeCommit(p), Remember PROVE Unserved'
    BY <1>31, SMTT(20) DEF ServeCommit
<1>32. ASSUME NEW p \in Procs, Stop(p), Remember PROVE Unserved'
    BY <1>32, SMTT(20) DEF Stop
<1>33. ASSUME NEW p \in Procs, Abort(p), Remember PROVE Unserved'
    BY <1>33, SMTT(20) DEF Abort
<1> QED BY <1>1, <1>2, <1>3, <1>4, <1>5, <1>6, <1>7, <1>8, <1>9, <1>10, <1>11,
       <1>12, <1>13, <1>14, <1>15, <1>16, <1>17, <1>18, <1>19, <1>20, <1>21,
       <1>22, <1>23, <1>24, <1>25, <1>26, <1>27, <1>28, <1>29, <1>30, <1>31,
       <1>32, <1>33 DEF Next, Step, Procs

\* Every step of a restore leaves what the next one relies on.
LEMMA RestoreAtStep ==
    ASSUME Separate, RInv, Next PROVE RestoreAt'
<1> USE ProcessAssumption, SentinelAssumption, NoJobTyped, FreshTyped
<1> USE DEF RInv, Remember, TypeOK, files, At, Go, Return, Finish, Mine, Procs,
       Whole, Alone, Separate, Looking, Recording, LockFree, Guarded, Holding,
       Restoring, Unrecorded, Recorded, Staged, Replacing, Exclusive,
       Committing, Remembers, RestoreAt, RestoreIs, Served, SameAuthority,
       PriorIsRecoverable, NoDatabase, Own, Same, Quiet, Results, Replaceable,
       Job, Normal, Db
<1>1. ASSUME Initialize, Remember PROVE RestoreAt'
    BY <1>1, SMTT(20) DEF Initialize
<1>2. ASSUME Correct, Remember PROVE RestoreAt'
    BY <1>2, SMTT(20) DEF Correct
<1>3. ASSUME Reanswer, Remember PROVE RestoreAt'
    BY <1>3, SMTT(20) DEF Reanswer
<1>4. ASSUME NEW s \in Snapshots, Backup(s), Remember PROVE RestoreAt'
    BY <1>4, SMTT(20) DEF Backup
<1>5. ASSUME NEW s \in Snapshots, NEW p \in Restorers, RestoreStart(p, s), Remember
      PROVE  RestoreAt'
    BY <1>5, SMTT(20) DEF RestoreStart
<1>6. ASSUME NEW p \in Hooks, HookStart(p), Remember PROVE RestoreAt'
    BY <1>6, SMTT(20) DEF HookStart
<1>7. ASSUME NEW p \in Procs, RecoverLock(p), Remember PROVE RestoreAt'
    BY <1>7, SMTT(20) DEF RecoverLock
<1>8. ASSUME NEW p \in Procs, RecoverJournal(p), Remember PROVE RestoreAt'
    BY <1>8, SMTT(20) DEF RecoverJournal
<1>9. ASSUME NEW p \in Procs, RecoverCopy(p), Remember PROVE RestoreAt'
    BY <1>9, RecoveredAt
<1>10. ASSUME NEW p \in Procs, RecoverClear(p), Remember PROVE RestoreAt'
    BY <1>10, SMTT(20) DEF RecoverClear
<1>11. ASSUME NEW p \in Procs, RecoverUnlock(p), Remember PROVE RestoreAt'
    BY <1>11, SMTT(20) DEF RecoverUnlock
<1>12. ASSUME NEW p \in Procs, Verify(p), Remember PROVE RestoreAt'
    BY <1>12, SMTT(20) DEF Verify
<1>13. ASSUME NEW p \in Procs, AcquireLook(p), Remember PROVE RestoreAt'
    BY <1>13, SMTT(20) DEF AcquireLook
<1>14. ASSUME NEW p \in Procs, AcquireSteal(p), Remember PROVE RestoreAt'
    BY <1>14, SMTT(20) DEF AcquireSteal
<1>15. ASSUME NEW p \in Procs, AcquireCreate(p), Remember PROVE RestoreAt'
    BY <1>15, SMTT(20) DEF AcquireCreate
<1>16. ASSUME NEW p \in Procs, AcquireWrite(p), Remember PROVE RestoreAt'
    BY <1>16, SMTT(20) DEF AcquireWrite
<1>17. ASSUME NEW p \in Procs, RunGuard(p), Remember PROVE RestoreAt'
    BY <1>17, SMTT(20) DEF RunGuard
<1>18. ASSUME NEW p \in Procs, StageArtifact(p), Remember PROVE RestoreAt'
    BY <1>18, SMTT(20) DEF StageArtifact
<1>19. ASSUME NEW p \in Procs, CompareDigest(p), Remember PROVE RestoreAt'
    BY <1>19, ComparedAt
<1>20. ASSUME NEW p \in Procs, SaveRollback(p), Remember PROVE RestoreAt'
    BY <1>20, SMTT(20) DEF SaveRollback
<1>21. ASSUME NEW p \in Procs, SaveCopy(p), Remember PROVE RestoreAt'
    BY <1>21, SMTT(20) DEF SaveCopy
<1>22. ASSUME NEW p \in Procs, CreateJournal(p), Remember PROVE RestoreAt'
    BY <1>22, SMTT(20) DEF CreateJournal
<1>23. ASSUME NEW p \in Procs, WriteJournal(p), Remember PROVE RestoreAt'
    BY <1>23, SMTT(20) DEF WriteJournal
<1>24. ASSUME NEW p \in Procs, ReplaceTarget(p), Remember PROVE RestoreAt'
    BY <1>24, SMTT(20) DEF ReplaceTarget
<1>25. ASSUME NEW p \in Procs, ValidateRestored(p), Remember PROVE RestoreAt'
    BY <1>25, SMTT(20) DEF ValidateRestored
<1>26. ASSUME NEW p \in Procs, Undo(p), Remember PROVE RestoreAt'
    BY <1>26, UndoneAt
<1>27. ASSUME NEW p \in Procs, UndoCopy(p), Remember PROVE RestoreAt'
    BY <1>27, UndoCopiedAt
<1>28. ASSUME NEW p \in Procs, ClearFailed(p), Remember PROVE RestoreAt'
    BY <1>28, ClearedAt
<1>29. ASSUME NEW p \in Procs, ReleaseLock(p), Remember PROVE RestoreAt'
    BY <1>29, SMTT(20) DEF ReleaseLock
<1>30. ASSUME NEW p \in Procs, ServeBegin(p), Remember PROVE RestoreAt'
    BY <1>30, SMTT(20) DEF ServeBegin
<1>31. ASSUME NEW p \in Procs, ServeCommit(p), Remember PROVE RestoreAt'
    BY <1>31, SMTT(20) DEF ServeCommit
<1>32. ASSUME NEW p \in Procs, Stop(p), Remember PROVE RestoreAt'
    BY <1>32, SMTT(20) DEF Stop
<1>33. ASSUME NEW p \in Procs, Abort(p), Remember PROVE RestoreAt'
    BY <1>33, SMTT(20) DEF Abort
<1> QED BY <1>1, <1>2, <1>3, <1>4, <1>5, <1>6, <1>7, <1>8, <1>9, <1>10, <1>11,
       <1>12, <1>13, <1>14, <1>15, <1>16, <1>17, <1>18, <1>19, <1>20, <1>21,
       <1>22, <1>23, <1>24, <1>25, <1>26, <1>27, <1>28, <1>29, <1>30, <1>31,
       <1>32, <1>33 DEF Next, Step, Procs

\* The prior state stays in the rollback file for as long as the journal is there.
LEMMA PriorIsRecoverableStep ==
    ASSUME Separate, RInv, Next PROVE PriorIsRecoverable'
<1> USE ProcessAssumption, SentinelAssumption
<1> USE DEF RInv, Remember, TypeOK, files, At, Go, Return, Finish, Mine, Procs,
       Whole, Alone, Separate, Looking, Recording, LockFree, Guarded, Holding,
       Restoring, Unrecorded, Recorded, Staged, Replacing, Quiet, NoJob, Served,
       Exclusive, Committing, Remembers, RestoreAt, RestoreIs,
       PriorIsRecoverable, Job, Journal, Own, Same, NoDatabase
<1>1. ASSUME Initialize, Remember PROVE PriorIsRecoverable'
    BY <1>1, SMTT(20) DEF Initialize
<1>2. ASSUME Correct, Remember PROVE PriorIsRecoverable'
    BY <1>2, SMTT(20) DEF Correct
<1>3. ASSUME Reanswer, Remember PROVE PriorIsRecoverable'
    BY <1>3, SMTT(20) DEF Reanswer
<1>4. ASSUME NEW s \in Snapshots, Backup(s), Remember PROVE PriorIsRecoverable'
    BY <1>4, SMTT(20) DEF Backup
<1>5. ASSUME NEW s \in Snapshots, NEW p \in Restorers, RestoreStart(p, s), Remember
      PROVE  PriorIsRecoverable'
    BY <1>5, SMTT(20) DEF RestoreStart
<1>6. ASSUME NEW p \in Hooks, HookStart(p), Remember PROVE PriorIsRecoverable'
    BY <1>6, SMTT(20) DEF HookStart
<1>7. ASSUME NEW p \in Procs, RecoverLock(p), Remember PROVE PriorIsRecoverable'
    BY <1>7, SMTT(20) DEF RecoverLock
<1>8. ASSUME NEW p \in Procs, RecoverJournal(p), Remember
      PROVE  PriorIsRecoverable'
    BY <1>8, SMTT(20) DEF RecoverJournal
<1>9. ASSUME NEW p \in Procs, RecoverCopy(p), Remember PROVE PriorIsRecoverable'
    BY <1>9, SMTT(20) DEF RecoverCopy
<1>10. ASSUME NEW p \in Procs, RecoverClear(p), Remember PROVE PriorIsRecoverable'
    BY <1>10, SMTT(20) DEF RecoverClear
<1>11. ASSUME NEW p \in Procs, RecoverUnlock(p), Remember
       PROVE  PriorIsRecoverable'
    BY <1>11, SMTT(20) DEF RecoverUnlock
<1>12. ASSUME NEW p \in Procs, Verify(p), Remember PROVE PriorIsRecoverable'
    BY <1>12, SMTT(20) DEF Verify
<1>13. ASSUME NEW p \in Procs, AcquireLook(p), Remember PROVE PriorIsRecoverable'
    BY <1>13, SMTT(20) DEF AcquireLook
<1>14. ASSUME NEW p \in Procs, AcquireSteal(p), Remember PROVE PriorIsRecoverable'
    BY <1>14, SMTT(20) DEF AcquireSteal
<1>15. ASSUME NEW p \in Procs, AcquireCreate(p), Remember
       PROVE  PriorIsRecoverable'
    BY <1>15, SMTT(20) DEF AcquireCreate
<1>16. ASSUME NEW p \in Procs, AcquireWrite(p), Remember PROVE PriorIsRecoverable'
    BY <1>16, SMTT(20) DEF AcquireWrite
<1>17. ASSUME NEW p \in Procs, RunGuard(p), Remember PROVE PriorIsRecoverable'
    BY <1>17, SMTT(20) DEF RunGuard
<1>18. ASSUME NEW p \in Procs, StageArtifact(p), Remember
       PROVE  PriorIsRecoverable'
    BY <1>18, SMTT(20) DEF StageArtifact
<1>19. ASSUME NEW p \in Procs, CompareDigest(p), Remember
       PROVE  PriorIsRecoverable'
    BY <1>19, SMTT(20) DEF CompareDigest
<1>20. ASSUME NEW p \in Procs, SaveRollback(p), Remember PROVE PriorIsRecoverable'
    BY <1>20, SMTT(20) DEF SaveRollback
<1>21. ASSUME NEW p \in Procs, SaveCopy(p), Remember PROVE PriorIsRecoverable'
    BY <1>21, SMTT(20) DEF SaveCopy
<1>22. ASSUME NEW p \in Procs, CreateJournal(p), Remember
       PROVE  PriorIsRecoverable'
    BY <1>22, SMTT(20) DEF CreateJournal
<1>23. ASSUME NEW p \in Procs, WriteJournal(p), Remember PROVE PriorIsRecoverable'
    BY <1>23, SMTT(20) DEF WriteJournal
<1>24. ASSUME NEW p \in Procs, ReplaceTarget(p), Remember
       PROVE  PriorIsRecoverable'
    BY <1>24, SMTT(20) DEF ReplaceTarget
<1>25. ASSUME NEW p \in Procs, ValidateRestored(p), Remember
       PROVE  PriorIsRecoverable'
    BY <1>25, SMTT(20) DEF ValidateRestored
<1>26. ASSUME NEW p \in Procs, Undo(p), Remember PROVE PriorIsRecoverable'
    BY <1>26, SMTT(20) DEF Undo
<1>27. ASSUME NEW p \in Procs, UndoCopy(p), Remember PROVE PriorIsRecoverable'
    BY <1>27, SMTT(20) DEF UndoCopy
<1>28. ASSUME NEW p \in Procs, ClearFailed(p), Remember PROVE PriorIsRecoverable'
    BY <1>28, SMTT(20) DEF ClearFailed
<1>29. ASSUME NEW p \in Procs, ReleaseLock(p), Remember PROVE PriorIsRecoverable'
    BY <1>29, SMTT(20) DEF ReleaseLock
<1>30. ASSUME NEW p \in Procs, ServeBegin(p), Remember PROVE PriorIsRecoverable'
    BY <1>30, SMTT(20) DEF ServeBegin
<1>31. ASSUME NEW p \in Procs, ServeCommit(p), Remember PROVE PriorIsRecoverable'
    BY <1>31, SMTT(20) DEF ServeCommit
<1>32. ASSUME NEW p \in Procs, Stop(p), Remember PROVE PriorIsRecoverable'
    BY <1>32, SMTT(20) DEF Stop
<1>33. ASSUME NEW p \in Procs, Abort(p), Remember PROVE PriorIsRecoverable'
    BY <1>33, SMTT(20) DEF Abort
<1> QED BY <1>1, <1>2, <1>3, <1>4, <1>5, <1>6, <1>7, <1>8, <1>9, <1>10, <1>11,
       <1>12, <1>13, <1>14, <1>15, <1>16, <1>17, <1>18, <1>19, <1>20, <1>21,
       <1>22, <1>23, <1>24, <1>25, <1>26, <1>27, <1>28, <1>29, <1>30, <1>31,
       <1>32, <1>33 DEF Next, Step, Procs

\* Every step keeps the types: of what the journal, the rollback file and the stage
\* say because the invariant says what is in them by then.
LEMMA TypeStep ==
    ASSUME RInv, Next PROVE TypeOK'
<1>1. (before \in Db \union {Absent, Empty, Torn})'
  BY TargetStep DEF Next, Remember, RInv, TypeOK
<1> QED BY <1>1, PcStep, JobStep, TargetStep, SnapStep, StageStep, RollbackStep,
       JournalStep, LockStep, RestStep DEF TypeOK, InRange

\* The initial states satisfy the invariant.
LEMMA InitInv == Init => RInv
<1> SUFFICES ASSUME Init PROVE RInv
  OBVIOUS
<1>1. TypeOK
  <2>1. /\ target \in Db \union {Absent, Empty, Torn}
        /\ before \in Db \union {Absent, Empty, Torn}
    BY FreshTyped DEF Init
  <2>2. snap \in [Snapshots -> Db \union {None}]
    BY FreshTyped, ExportedTyped DEF Init
  <2>3. pc \in [Procs -> Places] /\ job \in [Procs -> Job]
    BY NoJobTyped DEF Init, Places
  <2>4. revs \in 1 .. MaxRev /\ stops \in 0 .. MaxStops
    BY BoundAssumption DEF Init
  <2> QED BY <2>1, <2>2, <2>3, <2>4 DEF Init, TypeOK
<1>2. \A p \in Procs : pc[p] = "idle" /\ ~job[p].replaced
  BY NoJobTyped DEF Init
<1>3. Exclusive /\ Committing /\ ServesLater /\ PriorIsRecoverable
  BY <1>2, SentinelAssumption, SMT DEF Init, Exclusive, Committing, ServesLater,
     PriorIsRecoverable, Holding, Guarded, Looking, Recording, At
<1>4. Remembers
  BY <1>2, SMT DEF Remembers, Restoring, Holding, Guarded, At, Init, Procs
<1>5. Unserved
  <2>1. \A s \in Snapshots : snap[s] # None => ~snap[s].served
    BY FreshTyped, ExportedTyped DEF Init
  <2> QED BY <1>2, <2>1, SMT DEF Init, Unserved, Guarded
<1>6. RestoreAt
  BY <1>2, SMT DEF RestoreAt, RestoreIs, Unrecorded, Staged, Recorded, At
<1> QED BY <1>1, <1>3, <1>4, <1>5, <1>6 DEF RInv

\* The invariant is inductive.
LEMMA StepInv == ASSUME Separate, RInv, [Next]_vars PROVE RInv'
<1>1. CASE Next
  BY <1>1, TypeStep, ExclusiveStep, RemembersStep, CommittingStep,
     ServesLaterStep, UnservedStep, RestoreAtStep, PriorIsRecoverableStep DEF
     RInv
<1>2. CASE UNCHANGED vars
  <2> USE <1>2 DEF vars, files
  <2>1. TypeOK' /\ Exclusive' /\ PriorIsRecoverable'
    BY DEF RInv, TypeOK, Exclusive, LockFree, PriorIsRecoverable
  <2>2. Remembers' /\ Committing' /\ ServesLater'
    BY DEF RInv, Remembers, Committing, ServesLater, At, Whole
  <2>3. Unserved'
    BY DEF RInv, Unserved, Served, Whole
  <2>4. RestoreAt'
    BY DEF RInv, RestoreAt, RestoreIs, At, Same, Own, SameAuthority, Whole
  <2> QED BY <2>1, <2>2, <2>3, <2>4 DEF RInv
<1> QED BY <1>1, <1>2

\* The invariant holds of every history in which the interleavings that Overlap
\* names do not happen.
THEOREM Invariant == ASSUME Separate PROVE Spec => []RInv
<1>1. RInv /\ [Next]_vars => RInv'
  BY StepInv
<1> QED BY <1>1, InitInv, PTL DEF Spec

\* The state is well typed: a target that is replaced or brought back is a database,
\* no database, or a file half written.
THEOREM TypeCorrect == ASSUME Separate PROVE Spec => []TypeOK
<1>1. RInv => TypeOK
  BY DEF RInv
<1> QED BY <1>1, Invariant, PTL

\* PriorIsRecoverable: whoever stops, and however often, what journal and rollback
\* file say brings back the target of before the restore (restore,
\* recoverInterruptedRestore).
THEOREM PriorRecoverable == ASSUME Separate PROVE Spec => []PriorIsRecoverable
<1>1. RInv => PriorIsRecoverable
  BY DEF RInv
<1> QED BY <1>1, Invariant, PTL

\* ReportIsTrue: a restore reports what the target holds when it gives up the lock,
\* failures and failed rollbacks included.
THEOREM ReportTrue == ASSUME Separate PROVE Spec => []ReportIsTrue
<1>1. RInv => ReportIsTrue
  BY SMT DEF RInv, RestoreAt, RestoreIs, ReportIsTrue, Procs, Same
<1> QED BY <1>1, Invariant, PTL

\* Recording a Run in a database keeps it, and so do the user state's own steps.
LEMMA ServedOn ==
    ASSUME RInv, Served(target),
           Correct \/ Reanswer \/ \E p \in Procs : ServeCommit(p)
    PROVE  Served(target')
<1>1. target \in Db /\ target.served
  BY DEF Served, Whole
<1>2. \A r \in {"pending", "in_flight", "completed"} :
        [target EXCEPT !.row = r] \in Db /\ [target EXCEPT !.row = r].served
  BY <1>1 DEF Db
<1>3. /\ [target EXCEPT !.served = TRUE] \in Db
      /\ [target EXCEPT !.served = TRUE].served
  BY <1>1 DEF Db
<1>4. CASE Correct
  <2>1. /\ revs + 1 \in 0 .. MaxRev
        /\ target' = [target EXCEPT !.rev = revs + 1, !.row = "pending"]
    BY <1>4, BoundAssumption DEF Correct, RInv, TypeOK
  <2>2. \A n \in 0 .. MaxRev :
          LET d == [target EXCEPT !.rev = n, !.row = "pending"] IN d \in Db /\ d.served
    BY <1>1 DEF Db
  <2> QED BY <2>1, <2>2 DEF Served, Whole
<1>5. CASE Reanswer
  BY <1>2, <1>5 DEF Reanswer, Served, Whole
<1>6. CASE \E p \in Procs : ServeCommit(p)
  BY <1>1, <1>3, <1>6 DEF ServeCommit, Served, Whole
<1> QED BY <1>4, <1>5, <1>6

\* A step of a restore or of a recovery finds no Run recorded where it writes.
LEMMA ServedStep ==
    ASSUME RInv, Next, Served(target) PROVE Served(target')
<1>1. \/ target' = target \/ Correct \/ Reanswer
      \/ \E p \in Procs : ServeCommit(p)
  <2> SUFFICES ASSUME target' # target
               PROVE  Correct \/ Reanswer \/ \E p \in Procs : ServeCommit(p)
    OBVIOUS
  <2>1. /\ target \notin {Absent, Empty, Torn} /\ journal = None
        /\ \A p \in Procs : pc[p] \notin Guarded
    BY SentinelAssumption DEF Served, Whole, RInv, Unserved
  <2>2. ~Initialize
    BY <2>1 DEF Initialize
  <2>3. \A p \in Procs : ~ReplaceTarget(p) /\ ~Undo(p) /\ ~UndoCopy(p)
    BY <2>1, SMT DEF ReplaceTarget, Undo, UndoCopy, At, Guarded
  <2>4. \A p \in Procs : ~RecoverCopy(p)
    BY <2>1, SentinelAssumption, SMT DEF RecoverCopy, At, RInv, Remembers
  <2>5. \A p \in Procs : ~RecoverJournal(p)
    BY <2>1, SentinelAssumption DEF RecoverJournal
  <2>6. \A p \in Procs : ~ServeBegin(p)
    BY <2>1 DEF ServeBegin
  <2> QED BY <2>2, <2>3, <2>4, <2>5, <2>6 DEF Next, Step, files, Procs, Backup,
         RestoreStart, HookStart, RecoverLock, RecoverClear, RecoverUnlock,
         Verify, AcquireLook, AcquireSteal, AcquireCreate, AcquireWrite,
         RunGuard, StageArtifact, CompareDigest, SaveRollback, SaveCopy,
         CreateJournal, WriteJournal, ValidateRestored, ClearFailed,
         ReleaseLock, Stop, Abort
<1> QED BY <1>1, ServedOn

\* ServedTargetKept: no restore, rollback or recovery replaces a database in which a
\* Run was recorded, whatever the Run guard and the record's transaction raced with.
THEOREM ServedKept == ASSUME Separate PROVE Spec => ServedTargetKept
<1>1. RInv /\ [Next]_vars => (Served(target) => Served(target'))
  BY ServedStep DEF vars, files
<1> QED BY <1>1, Invariant, PTL DEF Spec, ServedTargetKept
===============================================================================
