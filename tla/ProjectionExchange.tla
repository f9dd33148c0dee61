--------------------------- MODULE ProjectionExchange ---------------------------
(***************************************************************************)
(* The file exchange through which an instance hands a projection of its   *)
(* personal data to a consumer (src/src/personal-data/exchange.ts): a      *)
(* publisher takes the lock directory, writes a temporary revision, binds  *)
(* the source to it, renames it into revisions/ and replaces active.json;  *)
(* a collector removes revisions nothing protects; recoverPublication      *)
(* finishes or undoes what a dead owner's lock record describes; a reader  *)
(* consumes what active.json names.                                        *)
(*                                                                         *)
(* One step is one call on the file system whose outcome another process   *)
(* or a stop can tell apart: a recursive removal is several, and so are    *)
(* the creation of the lock directory and of its record. Files are written *)
(* whole and durably. A publisher is one attempt, with a manifest of its   *)
(* own (generated_at); the payload is a function of the revision. Leases   *)
(* are left out: they only delay a recovery, which also needs the owner    *)
(* dead. Unsafe paths, links and invalid documents are left out.           *)
(***************************************************************************)
EXTENDS Integers

CONSTANTS
    Publishers, RevisionOf,   \* the attempts, and the revision each publishes
    Earlier,                  \* the attempt that published before these, if any
    Revisions, SourceOf,      \* the source revision each was projected from
    Collectors, Recoverers, Readers,
    Vouched,                  \* the revisions somebody records as last verified
    None, Bare, Torn, Empty,  \* no entry; a lock directory without a record;
                              \* a directory missing files; one with none
    MaxDeaths                 \* bounds the recoveries cut short

ASSUME RevisionAssumption ==
    /\ \A p \in Publishers : RevisionOf[p] \in Revisions
    /\ Earlier \subseteq Publishers /\ \A p, q \in Earlier : p = q
    /\ Publishers \intersect Collectors = {} /\ Vouched \subseteq Revisions
    /\ {None, Bare, Torn, Empty} \intersect (Publishers \union Revisions) = {}
    /\ None \notin {Bare, Torn, Empty} /\ Torn # Empty
ASSUME DeathAssumption == MaxDeaths \in Nat

VARIABLES
    lock,      \* .publish-lock
    temp,      \* the temporary directory of each publisher
    revs,      \* revisions/: the publisher that wrote the manifest in each
    active,    \* active.json
    bindings,  \* .runtime/source-bindings, by source
    retained,  \* .runtime/last-verified.json
    pc, mine,  \* of the lock's users: where they are; a publisher's own record
    spared,    \* the revisions each collector protects
    removing,  \* the one it is removing
    rpc, rec,  \* of the recoverers: where they are, the record they act on
    deaths,    \* of recoverers
    reader     \* the consumers: where they are, what they have read

files == <<lock, temp, revs, active, bindings, retained>>
users == <<pc, mine, spared, removing>>
recoverers == <<rpc, rec, deaths>>
vars == <<files, users, recoverers, reader>>

Users == Publishers \union Collectors
Sources == {SourceOf[r] : r \in Revisions}
Present == {r \in Revisions : revs[r] # None}
Whole(r) == revs[r] \in Publishers

Pointers == [rev : Revisions, made : Publishers, by : Publishers]
Phases == {"acquired", "temporary_revision_complete",
           "revision_committed", "active_committed"}
PublishRecord == [op : {"publish"}, by : Publishers, phase : Phases,
                  existing : BOOLEAN, made : Publishers]
CollectRecord == [op : {"collect"}, by : Collectors]
Records == PublishRecord \union CollectRecord

ASSUME RecordAssumption == {None, Bare} \intersect Records = {} /\ None \notin Pointers

TypeOK ==
    /\ lock \in Records \union {None, Bare}
    /\ temp \in [Publishers -> {"none", "headless", "part", "whole"}]
    /\ revs \in [Revisions -> Publishers \union {None, Torn, Empty}]
    /\ active \in Pointers \union {None}
    /\ bindings \in [Sources -> Revisions \union {None}]
    /\ retained \in Revisions \union {None}
    /\ pc \in [Users -> {"idle", "record", "write", "bind", "complete", "commit",
                         "drop", "verify", "activate", "mark", "protect", "sweep",
                         "release", "rmdir", "done", "failed", "dead"}]
    /\ mine \in [Publishers -> PublishRecord \union {None}]
    /\ spared \in [Collectors -> SUBSET Revisions]
    /\ removing \in [Collectors -> Revisions \union {None}]
    /\ rpc \in [Recoverers -> {"idle", "check", "act", "drop", "settle", "mark",
                               "release", "rmdir"}]
    /\ rec \in [Recoverers -> Records \union {None}]
    /\ deaths \in 0 .. MaxDeaths
    /\ reader \in [Readers ->
         [at : {"idle", "manifest", "again", "vouch"},
          pointer : Pointers \union {None},
          read : Publishers \union Revisions \union {None}]]

Fresh == [at |-> "idle", pointer |-> None, read |-> None]

PointerOf(record) ==
    [rev |-> RevisionOf[record.by], made |-> record.made, by |-> record.by]

\* Nothing published, or one publication, by a process that is done.
Init ==
    /\ \E was \in SUBSET Earlier :
         /\ pc = [u \in Users |-> IF u \in Earlier THEN "done" ELSE "idle"]
         /\ revs = [r \in Revisions |->
                IF \E p \in was : RevisionOf[p] = r THEN CHOOSE p \in was : TRUE ELSE None]
         /\ bindings = [s \in Sources |->
                IF \E p \in was : SourceOf[RevisionOf[p]] = s
                THEN RevisionOf[CHOOSE p \in was : TRUE] ELSE None]
         /\ active = IF was = {} THEN None
                     ELSE LET p == CHOOSE p \in was : TRUE
                          IN  PointerOf([by |-> p, made |-> p])
    /\ lock = None /\ retained = None
    /\ temp = [p \in Publishers |-> "none"]
    /\ mine = [p \in Publishers |-> None] /\ deaths = 0
    /\ spared = [c \in Collectors |-> {}]
    /\ removing = [c \in Collectors |-> None]
    /\ rpc = [v \in Recoverers |-> "idle"]
    /\ rec = [v \in Recoverers |-> None]
    /\ reader = [k \in Readers |-> Fresh]

-----------------------------------------------------------------------------
(* What the lock's users share.                                             *)

Goto(u, where) == pc' = [pc EXCEPT ![u] = where]
Fail(u) == Goto(u, "failed") /\ UNCHANGED <<files, mine, spared, removing>>

\* #writeLock puts the record in place of another; without the directory it throws.
Locked == lock # None
WriteLock(record) == Locked /\ lock' = record

\* What a process held in memory goes with it.
Forget(u) ==
    /\ mine' = [p \in Publishers |-> IF p = u THEN None ELSE mine[p]]
    /\ spared' = [c \in Collectors |-> IF c = u THEN {} ELSE spared[c]]
    /\ removing' = [c \in Collectors |-> IF c = u THEN None ELSE removing[c]]

\* mkdir of the lock directory; EEXIST is PROJECTION_PUBLISH_LOCKED.
Acquire(u) ==
    /\ pc[u] = "idle" /\ lock = None
    /\ lock' = Bare /\ Goto(u, "record")
    /\ UNCHANGED <<temp, revs, active, bindings, retained, mine, spared, removing>>

\* rm -r of the lock directory: its record, then the directory.
ReleaseRecord(u) ==
    /\ pc[u] = "release" /\ Locked
    /\ lock' = Bare /\ Goto(u, "rmdir")
    /\ UNCHANGED <<temp, revs, active, bindings, retained, mine, spared, removing>>

ReleaseDirectory(u) ==
    /\ pc[u] = "rmdir"
    /\ lock' = IF lock = Bare THEN None ELSE lock
    /\ Goto(u, IF lock = Bare THEN "done" ELSE "failed") /\ Forget(u)
    /\ UNCHANGED <<temp, revs, active, bindings, retained>>

\* A call that needs the lock directory and finds it gone throws.
LockGone(u) ==
    /\ pc[u] \in {"record", "complete", "verify", "mark", "release"} /\ ~Locked
    /\ Fail(u)

\* The process stops. A call that threw left the lock to a live process too.
Die(u) ==
    /\ pc[u] \notin {"idle", "done", "dead"} /\ Goto(u, "dead") /\ Forget(u)
    /\ UNCHANGED files

-----------------------------------------------------------------------------
(* publishIdentityProjection                                                *)

\* What commits a temporary directory: rename replaces a target that is not
\* there or is an empty directory, and fails with ENOTEMPTY on another.
Free(r) == revs[r] \in {None, Empty}
\* Partway, the removal of a temporary directory has taken either file first.
Remainders(t) == IF t = "whole" THEN {"headless", "part"} ELSE {"none"}

\* #assertVerifiedTarget, of a whole target
TargetVerifies(record) ==
    LET found == revs[RevisionOf[record.by]]
    IN  found \in Publishers /\ (~record.existing => found = record.made)

\* The publisher keeps its record, and moves it and the lock on together.
Advance(p, record) == WriteLock(record) /\ mine' = [mine EXCEPT ![p] = record]

Record(p) ==
    /\ pc[p] = "record"
    /\ Advance(p, [op |-> "publish", by |-> p, phase |-> "acquired",
                   existing |-> revs[RevisionOf[p]] # None, made |-> p])
    /\ Goto(p, "write")
    /\ UNCHANGED <<temp, revs, active, bindings, retained, spared, removing>>

WriteRevision(p) ==
    /\ pc[p] = "write" /\ Goto(p, "bind")
    /\ temp' = [temp EXCEPT ![p] = "whole"]
    /\ UNCHANGED <<lock, revs, active, bindings, retained, mine, spared, removing>>

\* Mutant: a source bound to another revision is bound anew.
Binds_Anew(p) == \A q \in Present : Whole(q)

\* #claimSourceBinding, which reads every revision when the source is unbound
Binds(p) ==
    LET r == RevisionOf[p]
        b == bindings[SourceOf[r]]
    IN  \/ b = r
        \/ b = None /\ \A q \in Present :
               Whole(q) /\ (SourceOf[q] = SourceOf[r] => q = r)

ClaimSourceBinding(p) ==
    /\ pc[p] = "bind" /\ Binds(p) /\ Goto(p, "complete")
    /\ bindings' = [bindings EXCEPT ![SourceOf[RevisionOf[p]]] = RevisionOf[p]]
    /\ UNCHANGED <<lock, temp, revs, active, retained, mine, spared, removing>>

RefuseSource(p) ==
    /\ pc[p] = "bind" /\ ~Binds(p) /\ Fail(p)

Complete(p) ==
    /\ pc[p] = "complete"
    /\ Advance(p, [mine[p] EXCEPT !.phase = "temporary_revision_complete"])
    /\ Goto(p, "commit")
    /\ UNCHANGED <<temp, revs, active, bindings, retained, spared, removing>>

CommitRevision(p) ==
    /\ pc[p] = "commit" /\ Free(RevisionOf[p]) /\ Goto(p, "verify")
    /\ temp' = [temp EXCEPT ![p] = "none"]
    /\ revs' = [revs EXCEPT ![RevisionOf[p]] = p]
    /\ UNCHANGED <<lock, active, bindings, retained, mine, spared, removing>>

ReuseRevision(p) ==
    /\ pc[p] = "commit" /\ ~Free(RevisionOf[p]) /\ Goto(p, "drop")
    /\ UNCHANGED <<files, mine, spared, removing>>

DropTemporary(p) ==
    /\ pc[p] = "drop"
    /\ \E t \in Remainders(temp[p]) :
         /\ temp' = [temp EXCEPT ![p] = t]
         /\ Goto(p, IF t = "none" THEN "verify" ELSE "drop")
    /\ UNCHANGED <<lock, revs, active, bindings, retained, mine, spared, removing>>

Committed(p) ==
    /\ pc[p] = "verify" /\ TargetVerifies(mine[p])
    /\ Advance(p, [mine[p] EXCEPT !.phase = "revision_committed",
                                  !.made = revs[RevisionOf[p]]])
    /\ Goto(p, "activate")
    /\ UNCHANGED <<temp, revs, active, bindings, retained, spared, removing>>

RefuseTarget(p) ==
    /\ pc[p] = "verify" /\ ~TargetVerifies(mine[p]) /\ Fail(p)

Activate(p) ==
    /\ pc[p] = "activate" /\ Goto(p, "mark")
    /\ active' = PointerOf(mine[p])
    /\ UNCHANGED <<lock, temp, revs, bindings, retained, mine, spared, removing>>

MarkActive(p) ==
    /\ pc[p] = "mark"
    /\ Advance(p, [mine[p] EXCEPT !.phase = "active_committed"])
    /\ Goto(p, "release")
    /\ UNCHANGED <<temp, revs, active, bindings, retained, spared, removing>>

-----------------------------------------------------------------------------
(* collectOrphanRevisions. The grace period is a choice: a revision may be   *)
(* old enough or not.                                                        *)

CollectRecorded(c) ==
    /\ pc[c] = "record" /\ WriteLock([op |-> "collect", by |-> c])
    /\ Goto(c, "protect")
    /\ UNCHANGED <<temp, revs, active, bindings, retained, mine, spared, removing>>

\* Mutant: the pointer is not read.
Protected_RetainedOnly == {retained} \ {None}

Protected ==
    (IF active = None THEN {} ELSE {active.rev}) \union ({retained} \ {None})

Protect(c) ==
    /\ pc[c] = "protect" /\ Goto(c, "sweep")
    /\ spared' = [spared EXCEPT ![c] = Protected]
    /\ UNCHANGED <<files, mine, removing>>

\* verifyRevision, then rm -r: files go, then the directory.
Orphan(c, r) == pc[c] = "sweep" /\ removing[c] = None /\ r \in Present \ spared[c]

RemoveOrphan(c, r) ==
    /\ Orphan(c, r) /\ Whole(r)
    /\ removing' = [removing EXCEPT ![c] = r]
    /\ revs' = [revs EXCEPT ![r] = Torn]
    /\ UNCHANGED <<lock, temp, active, bindings, retained, pc, mine, spared>>

RemoveNext(c) ==
    /\ pc[c] = "sweep" /\ removing[c] # None
    /\ LET r == removing[c]
       IN  /\ revs' = [revs EXCEPT ![r] = IF @ = Torn THEN Empty ELSE None]
           /\ removing' = [removing EXCEPT ![c] = IF revs[r] = Torn THEN r ELSE None]
    /\ UNCHANGED <<lock, temp, active, bindings, retained, pc, mine, spared>>

OrphanRefused(c, r) ==
    /\ Orphan(c, r) /\ ~Whole(r) /\ Fail(c)

Collected(c) ==
    /\ pc[c] = "sweep" /\ removing[c] = None /\ Goto(c, "release")
    /\ UNCHANGED <<files, mine, spared, removing>>

-----------------------------------------------------------------------------
(* recoverPublication                                                       *)

RGoto(v, where) == rpc' = [rpc EXCEPT ![v] = where]
Degraded(v) ==
    /\ RGoto(v, "idle") /\ rec' = [rec EXCEPT ![v] = None]
    /\ UNCHANGED files
Acting(v, phase) == rpc[v] = "act" /\ rec[v].op = "publish" /\ rec[v].phase = phase
Target(v) == RevisionOf[rec[v].by]

\* Mutant: the owner's status is not asked.
ReadLock_AnyOwner(v) ==
    /\ rpc[v] = "idle" /\ lock \in Records
    /\ rec' = [rec EXCEPT ![v] = lock] /\ RGoto(v, "check")
    /\ UNCHANGED files

\* An empty lock directory reads as no lock: "clean". A live owner is refused.
ReadLock(v) ==
    /\ rpc[v] = "idle" /\ lock \in Records /\ pc[lock.by] = "dead"
    /\ rec' = [rec EXCEPT ![v] = lock] /\ RGoto(v, "check")
    /\ UNCHANGED files

\* Read again after the owner was found dead: it must be the same record.
RevalidateLock(v) ==
    /\ rpc[v] = "check"
    /\ IF lock = rec[v] THEN RGoto(v, "act") /\ UNCHANGED <<files, rec>> ELSE Degraded(v)

RecoverCollection(v) ==
    /\ rpc[v] = "act" /\ rec[v].op = "collect" /\ RGoto(v, "release")
    /\ UNCHANGED <<files, rec>>

RollBack(v) ==
    /\ Acting(v, "acquired") /\ RGoto(v, "release")
    /\ temp' = [temp EXCEPT ![rec[v].by] = "none"]
    /\ UNCHANGED <<lock, revs, active, bindings, retained, rec>>

\* The temporary revision verifies: commit it as the publisher would have.
RecoverCommit(v) ==
    /\ Acting(v, "temporary_revision_complete") /\ temp[rec[v].by] = "whole"
    /\ Free(Target(v)) /\ RGoto(v, "settle")
    /\ temp' = [temp EXCEPT ![rec[v].by] = "none"]
    /\ revs' = [revs EXCEPT ![Target(v)] = rec[v].by]
    /\ UNCHANGED <<lock, active, bindings, retained, rec>>

RecoverReuse(v) ==
    /\ Acting(v, "temporary_revision_complete") /\ temp[rec[v].by] = "whole"
    /\ ~Free(Target(v)) /\ RGoto(v, "drop")
    /\ UNCHANGED <<files, rec>>

RecoverDrop(v) ==
    /\ rpc[v] = "drop"
    /\ \E t \in Remainders(temp[rec[v].by]) :
         /\ temp' = [temp EXCEPT ![rec[v].by] = t]
         /\ RGoto(v, IF t = "none" THEN "settle" ELSE "drop")
    /\ UNCHANGED <<lock, revs, active, bindings, retained, rec>>

\* Mutant: a temporary revision that was renamed is not looked for at its target.
RecoverWithoutTemporary_Headless(v) ==
    /\ Acting(v, "temporary_revision_complete")
    /\ temp[rec[v].by] = "headless" /\ RGoto(v, "settle")
    /\ UNCHANGED <<files, rec>>

\* Only a missing manifest (ENOENT) sends the recovery to the target instead.
RecoverWithoutTemporary(v) ==
    /\ Acting(v, "temporary_revision_complete")
    /\ temp[rec[v].by] \in {"none", "headless"} /\ RGoto(v, "settle")
    /\ UNCHANGED <<files, rec>>

RefuseTemporary(v) ==
    /\ Acting(v, "temporary_revision_complete") /\ temp[rec[v].by] = "part"
    /\ Degraded(v)

RecoverCommitted(v) ==
    /\ rpc[v] = "settle" /\ TargetVerifies(rec[v])
    /\ LET settled == [rec[v] EXCEPT !.phase = "revision_committed",
                                     !.made = revs[Target(v)]]
       IN  WriteLock(settled) /\ rec' = [rec EXCEPT ![v] = settled]
    /\ RGoto(v, "act")
    /\ UNCHANGED <<temp, revs, active, bindings, retained>>

RecoverActivate(v) ==
    /\ Acting(v, "revision_committed") /\ revs[Target(v)] = rec[v].made
    /\ active' = PointerOf(rec[v]) /\ RGoto(v, "mark")
    /\ UNCHANGED <<lock, temp, revs, bindings, retained, rec>>

RecoverMark(v) ==
    /\ rpc[v] = "mark"
    /\ LET marked == [rec[v] EXCEPT !.phase = "active_committed"]
       IN  WriteLock(marked) /\ rec' = [rec EXCEPT ![v] = marked]
    /\ RGoto(v, "act")
    /\ UNCHANGED <<temp, revs, active, bindings, retained>>

\* The last check: the target and active.json are what the record says.
Recovered(v) ==
    /\ Acting(v, "active_committed")
    /\ revs[Target(v)] = rec[v].made /\ active = PointerOf(rec[v])
    /\ RGoto(v, "release")
    /\ UNCHANGED <<files, rec>>

RecoveryUncertain(v) ==
    /\ \/ rpc[v] = "settle" /\ ~(Locked /\ TargetVerifies(rec[v]))
       \/ Acting(v, "revision_committed") /\ revs[Target(v)] # rec[v].made
       \/ rpc[v] \in {"mark", "release"} /\ ~Locked
       \/ /\ Acting(v, "active_committed")
          /\ revs[Target(v)] # rec[v].made \/ active # PointerOf(rec[v])
    /\ Degraded(v)

RecoverRelease(v) ==
    /\ rpc[v] = "release" /\ Locked /\ lock' = Bare /\ RGoto(v, "rmdir")
    /\ UNCHANGED <<temp, revs, active, bindings, retained, rec>>

RecoverRmdir(v) ==
    /\ rpc[v] = "rmdir" /\ RGoto(v, "idle") /\ rec' = [rec EXCEPT ![v] = None]
    /\ lock' = IF lock = Bare THEN None ELSE lock
    /\ UNCHANGED <<temp, revs, active, bindings, retained>>

RecovererDies(v) ==
    /\ rpc[v] # "idle" /\ deaths < MaxDeaths /\ deaths' = deaths + 1
    /\ Degraded(v)

-----------------------------------------------------------------------------
(* The consumers: recordLastVerifiedRevision, which takes no lock, and       *)
(* readFitnessProjection.                                                    *)

At(k, where) == reader[k].at = where
Move(k, where, pointer, read) ==
    reader' = [reader EXCEPT ![k] = [at |-> where, pointer |-> pointer, read |-> read]]
Leave(k) == reader' = [reader EXCEPT ![k] = Fresh]

Vouch(k, r) ==
    /\ At(k, "idle") /\ Whole(r) /\ Move(k, "vouch", None, r)
    /\ UNCHANGED files

RecordLastVerified(k) ==
    /\ At(k, "vouch") /\ retained' = reader[k].read /\ Leave(k)
    /\ UNCHANGED <<lock, temp, revs, active, bindings>>

ReadPointer(k) ==
    /\ At(k, "idle") /\ active # None /\ Move(k, "manifest", active, None)
    /\ UNCHANGED files

\* The manifest's checksum is the pointer's, the tree and the payloads are the
\* manifest's. A missing file fails the read: it is not retried.
Manifest(k) == revs[reader[k].pointer.rev]
ManifestVerifies(k) == Manifest(k) = reader[k].pointer.made

ReadRevision(k) ==
    /\ At(k, "manifest") /\ ManifestVerifies(k)
    /\ Move(k, "again", reader[k].pointer, Manifest(k))
    /\ UNCHANGED files

ReadFails(k) ==
    /\ At(k, "manifest") /\ ~ManifestVerifies(k) /\ Leave(k)
    /\ UNCHANGED files

\* Mutant: the pointer is read once.
PointerStands_Once(k) == reader[k].pointer # None

PointerStands(k) == active = reader[k].pointer

Serve(k) ==
    /\ At(k, "again") /\ PointerStands(k) /\ Leave(k)
    /\ UNCHANGED files

\* PROJECTION_POINTER_CHANGED: read again, or give up after the third time.
PointerChanged(k) ==
    /\ At(k, "again") /\ ~PointerStands(k) /\ Leave(k)
    /\ UNCHANGED files

-----------------------------------------------------------------------------

UserStep(u) == Acquire(u) \/ ReleaseRecord(u) \/ ReleaseDirectory(u) \/ LockGone(u) \/ Die(u)

PublisherStep(p) ==
    \/ Record(p) \/ WriteRevision(p) \/ ClaimSourceBinding(p) \/ RefuseSource(p)
    \/ Complete(p) \/ CommitRevision(p) \/ ReuseRevision(p) \/ DropTemporary(p)
    \/ Committed(p) \/ RefuseTarget(p) \/ Activate(p) \/ MarkActive(p)

CollectorStep(c) ==
    \/ CollectRecorded(c) \/ Protect(c) \/ RemoveNext(c) \/ Collected(c)
    \/ \E r \in Revisions : RemoveOrphan(c, r) \/ OrphanRefused(c, r)

Recover(v) ==
    /\ \/ ReadLock(v) \/ RevalidateLock(v) \/ RecoverCollection(v) \/ RollBack(v)
       \/ RecoverCommit(v) \/ RecoverReuse(v) \/ RecoverDrop(v)
       \/ RecoverWithoutTemporary(v) \/ RefuseTemporary(v) \/ RecoverCommitted(v)
       \/ RecoverActivate(v) \/ RecoverMark(v) \/ Recovered(v)
       \/ RecoveryUncertain(v) \/ RecoverRelease(v) \/ RecoverRmdir(v)
    /\ UNCHANGED <<deaths, users, reader>>

ReaderStep(k) ==
    \/ RecordLastVerified(k) \/ ReadPointer(k) \/ ReadRevision(k) \/ ReadFails(k)
    \/ Serve(k) \/ PointerChanged(k) \/ (\E r \in Vouched : Vouch(k, r))

Next ==
    \/ /\ \/ \E u \in Users : UserStep(u)
          \/ \E p \in Publishers : PublisherStep(p)
          \/ \E c \in Collectors : CollectorStep(c)
       /\ UNCHANGED <<recoverers, reader>>
    \/ \E v \in Recoverers : Recover(v)
    \/ (\E v \in Recoverers : RecovererDies(v)) /\ UNCHANGED <<users, reader>>
    \/ (\E k \in Readers : ReaderStep(k)) /\ UNCHANGED <<users, recoverers>>

Spec == Init /\ [][Next]_vars

\* Somebody calls recoverPublication again until it succeeds, and lets it run.
FairSpec == Spec /\ \A v \in Recoverers : WF_vars(Recover(v))

-----------------------------------------------------------------------------
(* Properties                                                               *)

\* active.json always names a revision that is on disk, whole, and whose
\* manifest is the one it names: whatever stops where, reuse of a revision by
\* a second publication, recovery and collection do not take it away.
ActiveIsWhole == active # None => revs[active.rev] = active.made

\* A publisher or collector at work is the owner the lock names: recovery
\* takes the lock from dead owners only, and so no two are ever at work. (Of
\* one recoverer at a time; two of them may break it, see README.)
OwnerKeepsLock ==
    \A u \in Users :
        /\ pc[u] \in {"write", "bind", "complete", "commit", "drop", "verify",
                      "activate", "mark", "protect", "sweep", "release"}
             => lock \in Records /\ lock.by = u
        /\ pc[u] \in {"record", "rmdir"} => lock = Bare

\* No two revisions projected from one source are ever on disk together
\* (PROJECTION_SOURCE_NONDETERMINISTIC), however often publications of it
\* stop, are rolled back, recovered and collected.
OneRevisionPerSource ==
    \A q, r \in {s \in Revisions : Whole(s)} : SourceOf[q] = SourceOf[r] => q = r

\* What a reader is given is, when it is given, what active.json names, with
\* the manifest it names, and still on disk: no reader gets a revision that was
\* replaced or collected while it read.
ConsumedIsActive ==
    [][\A k \in Readers : Serve(k) =>
         active = reader[k].pointer /\ revs[active.rev] = reader[k].read]_vars

\* The record a dead owner left on the lock is cleared, by finishing or
\* undoing its publication, unless a removal was itself cut short: then the
\* recovery is PROJECTION_RECOVERY_UNCERTAIN for good.
LeftBehind == \E r \in Records : lock = r /\ pc[r.by] = "dead"
CutShort ==
    \E p \in Publishers : LeftBehind /\ lock.by = p
        /\ (temp[p] = "part" \/ revs[RevisionOf[p]] = Torn)
CrashIsRecovered == LeftBehind ~> (~LeftBehind \/ CutShort)

=============================================================================
