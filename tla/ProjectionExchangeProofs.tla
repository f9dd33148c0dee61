---------------------- MODULE ProjectionExchangeProofs ----------------------
(***************************************************************************)
(* Proofs about ProjectionExchange, for any number of publishers,          *)
(* collectors, readers, revisions and sources, and one recoverer at a      *)
(* time: mutual exclusion by the lock directory through crashes and        *)
(* recovery, and what rests on it.                                         *)
(*                                                                         *)
(* Mutual exclusion is inductive once it covers the recoverer too, which   *)
(* holds the lock by the record of a dead owner (Held). That a source has  *)
(* one revision follows from its binding, which no crash takes back        *)
(* (Bound), and from what the lock's record says once its phase is past    *)
(* acquired (Claimed); that the active revision stays whole, from what a   *)
(* sweep protects (Sweeping) and a publisher verified (Verified).          *)
(***************************************************************************)
EXTENDS ProjectionExchange, TLAPS

\* At most one process runs recoverPublication at a time.
Alone == \A v, w \in Recoverers : v = w

\* Where a user relies on the lock's record, and where a recoverer acts on it.
AtWork == {"write", "bind", "complete", "commit", "drop", "verify", "activate", "mark",
           "protect", "sweep", "release"}
Acted == {"check", "act", "drop", "settle", "mark", "release"}

\* Whoever works holds the lock: a user by its record, or alone by the bare
\* directory; a recoverer by the record of a dead owner, still the one it read.
Held ==
    /\ OwnerKeepsLock
    /\ \A u, w \in Users :
          pc[u] \in {"record", "rmdir"} /\ pc[w] \in {"record", "rmdir"} => u = w
    /\ \A v \in Recoverers :
          /\ rpc[v] \in Acted =>
                lock = rec[v] /\ lock \in Records /\ pc[lock.by] = "dead"
          /\ rpc[v] = "rmdir" =>
                lock = Bare /\ \A u \in Users : pc[u] \notin {"record", "rmdir"}

\* The source of r is bound to r.
IsBound(r) == bindings[SourceOf[r]] = r

\* What a publisher keeps of its record is what is on the lock.
Kept == \A p \in Publishers : pc[p] \in AtWork => mine[p] = lock

\* Past claimSourceBinding the source is bound to the revision, and a record past
\* its first phase says that it is.
Claimed ==
    /\ \A p \in Publishers :
          pc[p] \in AtWork \ {"write", "bind"} => IsBound(RevisionOf[p])
    /\ lock \in PublishRecord /\ lock.phase # "acquired" => IsBound(RevisionOf[lock.by])

\* The manifest a publisher is about to name is the one on disk.
Verified ==
    \A p \in Publishers : pc[p] = "activate" => revs[RevisionOf[p]] = mine[p].made

\* A recovery that settles a target is of a publication past its first phase.
Settling ==
    \A v \in Recoverers : rpc[v] \in {"drop", "settle", "mark"} =>
        rec[v] \in PublishRecord /\ rec[v].phase # "acquired"

\* What the records say.
Recorded == Kept /\ Claimed /\ Verified /\ Settling

\* A collector at its sweep protects what active.json names, and what it is
\* removing is in pieces.
Sweeping ==
    \A c \in Collectors :
        /\ pc[c] = "sweep" /\ active # None => active.rev \in spared[c]
        /\ removing[c] # None => pc[c] = "sweep" /\ revs[removing[c]] \in {Torn, Empty}

\* A reader between its reads of the pointer has the manifest the pointer named.
Reading ==
    \A k \in Readers :
        /\ reader[k].at = "vouch" => reader[k].read \in Revisions
        /\ reader[k].at \in {"manifest", "again"} => reader[k].pointer \in Pointers
        /\ reader[k].at = "again" => reader[k].read = reader[k].pointer.made

\* Every whole revision is the one its source is bound to.
Bound == \A r \in Revisions : Whole(r) => IsBound(r)

\* The inductive invariant.
PInv == TypeOK /\ Held /\ Recorded /\ Sweeping /\ Reading /\ Bound /\ ActiveIsWhole

\* A record says which operation wrote it, and who.
LEMMA RecordKinds ==
    /\ \A r \in Records : r.op = "publish" => r \in PublishRecord
    /\ \A r \in Records : r.by \in Publishers => r \in PublishRecord
    /\ \A r \in Records : r.by \in Users
    /\ \A r \in PublishRecord :
          /\ r.op = "publish" /\ r.by \in Publishers /\ r.phase \in Phases
          /\ r.existing \in BOOLEAN /\ r.made \in Publishers /\ r \in Records
    /\ \A r \in CollectRecord : r.op = "collect" /\ r.by \in Collectors
    BY RevisionAssumption DEF Records, PublishRecord, CollectRecord, Users

\* Moving a record on leaves its owner alone.
LEMMA Moved ==
    ASSUME NEW r \in PublishRecord, NEW ph \in Phases, NEW m \in Publishers
    PROVE  /\ [r EXCEPT !.phase = ph] \in PublishRecord
           /\ [r EXCEPT !.phase = ph].by = r.by
           /\ [r EXCEPT !.phase = ph].made = r.made
           /\ [r EXCEPT !.phase = ph].phase = ph
           /\ [r EXCEPT !.phase = ph, !.made = m] \in PublishRecord
           /\ [r EXCEPT !.phase = ph, !.made = m].by = r.by
           /\ [r EXCEPT !.phase = ph, !.made = m].made = m
           /\ [r EXCEPT !.phase = ph, !.made = m].phase = ph
    BY DEF PublishRecord

\* A record gives a pointer.
LEMMA Pointed ==
    ASSUME NEW r \in PublishRecord
    PROVE  /\ PointerOf(r) \in Pointers /\ PointerOf(r).rev = RevisionOf[r.by]
           /\ PointerOf(r).made = r.made
    BY RevisionAssumption DEF PublishRecord, PointerOf, Pointers

\* The record in a working publisher's or an acting recoverer's hands.
LEMMA Owned ==
    ASSUME PInv
    PROVE  /\ \A p \in Publishers : pc[p] \in AtWork =>
                 mine[p] = lock /\ mine[p] \in PublishRecord /\ mine[p].by = p
           /\ \A v \in Recoverers : rpc[v] \in Acted =>
                 /\ rec[v] = lock /\ rec[v] \in Records
                 /\ rec[v].op = "publish" =>
                       rec[v] \in PublishRecord /\ rec[v].by \in Publishers
           /\ \A v \in Recoverers : rpc[v] \in {"drop", "settle", "mark"} =>
                 rec[v] \in PublishRecord /\ rec[v].by \in Publishers
<1>1. ASSUME NEW p \in Publishers, pc[p] \in AtWork
      PROVE  mine[p] = lock /\ mine[p] \in PublishRecord /\ mine[p].by = p
  <2>1. mine[p] = lock
    BY <1>1 DEF PInv, Recorded, Kept
  <2>2. lock \in Records /\ lock.by = p
    BY <1>1 DEF PInv, Held, OwnerKeepsLock, AtWork, Users
  <2> QED BY <2>1, <2>2, RecordKinds
<1>2. ASSUME NEW v \in Recoverers, rpc[v] \in Acted
      PROVE  rec[v] = lock /\ rec[v] \in Records
    BY <1>2 DEF PInv, Held
<1>3. ASSUME NEW v \in Recoverers, rpc[v] \in {"drop", "settle", "mark"}
      PROVE  rec[v] \in PublishRecord
    BY <1>3 DEF PInv, Recorded, Settling
<1> QED BY <1>1, <1>2, <1>3, RecordKinds

\* Every step keeps the types.
LEMMA TypeStep == ASSUME PInv, [Next]_vars PROVE TypeOK'
<1> USE RevisionAssumption, RecordAssumption, DeathAssumption DEF PInv, TypeOK,
       Users, files, users, recoverers, Goto, Fail, Locked, WriteLock, Forget,
       Advance, RGoto, Degraded, Acting, Target, Move, Leave, Fresh, At, Whole,
       TargetVerifies, Remainders, Orphan, Present, Manifest, ManifestVerifies,
       AtWork, Acted, Reading, Sources, Records, Phases
<1>1. ASSUME NEW u \in Users,
             \/ Acquire(u) \/ ReleaseRecord(u) \/ ReleaseDirectory(u) \/ LockGone(u)
             \/ Die(u),
             UNCHANGED <<recoverers, reader>>
      PROVE  TypeOK'
    BY <1>1, SMTT(20) DEF Acquire, ReleaseRecord, ReleaseDirectory, LockGone,
       Die
<1>2. ASSUME NEW p \in Publishers,
             Record(p),
             UNCHANGED <<recoverers, reader>>
      PROVE  TypeOK'
    BY <1>2, SMTT(20) DEF Record, PublishRecord
<1>3. ASSUME NEW p \in Publishers,
             \/ WriteRevision(p) \/ RefuseSource(p) \/ ClaimSourceBinding(p)
             \/ CommitRevision(p) \/ ReuseRevision(p) \/ DropTemporary(p)
             \/ RefuseTarget(p),
             UNCHANGED <<recoverers, reader>>
      PROVE  TypeOK'
    BY <1>3, SMTT(20) DEF WriteRevision, RefuseSource, ClaimSourceBinding,
       CommitRevision, ReuseRevision, DropTemporary, RefuseTarget
<1>4. ASSUME NEW p \in Publishers, Complete(p),
             UNCHANGED <<recoverers, reader>>
      PROVE  TypeOK'
  <2>1. [mine[p] EXCEPT !.phase = "temporary_revision_complete"] \in PublishRecord
    BY <1>4, Owned, Moved DEF Complete
  <2> QED BY <1>4, <2>1, SMTT(20) DEF Complete
<1>5. ASSUME NEW p \in Publishers, MarkActive(p),
             UNCHANGED <<recoverers, reader>>
      PROVE  TypeOK'
  <2>1. [mine[p] EXCEPT !.phase = "active_committed"] \in PublishRecord
    BY <1>5, Owned, Moved DEF MarkActive
  <2> QED BY <1>5, <2>1, SMTT(20) DEF MarkActive
<1>6. ASSUME NEW p \in Publishers, Committed(p),
             UNCHANGED <<recoverers, reader>>
      PROVE  TypeOK'
  <2>0. pc[p] \in AtWork /\ mine[p].by = p /\ revs[RevisionOf[p]] \in Publishers
    BY <1>6, Owned DEF Committed
  <2>1. [mine[p] EXCEPT !.phase = "revision_committed", !.made = revs[RevisionOf[p]]]
          \in PublishRecord
    BY <2>0, Owned, Moved
  <2> QED BY <1>6, <2>1, SMTT(20) DEF Committed
<1>7. ASSUME NEW p \in Publishers,
             Activate(p),
             UNCHANGED <<recoverers, reader>>
      PROVE  TypeOK'
    BY <1>7, Owned, Pointed, SMTT(20) DEF Activate
<1>8. ASSUME NEW c \in Collectors,
             CollectRecorded(c) \/ RemoveNext(c) \/ Collected(c),
             UNCHANGED <<recoverers, reader>>
      PROVE  TypeOK'
    BY <1>8, SMTT(20) DEF CollectRecorded, RemoveNext, Collected, CollectRecord
<1>9. ASSUME NEW c \in Collectors, Protect(c),
             UNCHANGED <<recoverers, reader>>
      PROVE  TypeOK'
  <2>1. Protected \subseteq Revisions
    BY DEF Protected, Pointers
  <2> QED BY <1>9, <2>1, SMTT(20) DEF Protect
<1>10. ASSUME NEW c \in Collectors, NEW r \in Revisions,
             RemoveOrphan(c, r) \/ OrphanRefused(c, r),
             UNCHANGED <<recoverers, reader>>
      PROVE  TypeOK'
    BY <1>10, SMTT(20) DEF RemoveOrphan, OrphanRefused
<1>11. ASSUME NEW v \in Recoverers,
             \/ ReadLock(v) \/ RevalidateLock(v) \/ RecoverCollection(v)
             \/ RecoverReuse(v) \/ RecoverWithoutTemporary(v) \/ RefuseTemporary(v)
             \/ Recovered(v) \/ RecoveryUncertain(v) \/ RecoverRelease(v)
             \/ RecoverRmdir(v),
             UNCHANGED <<deaths, users, reader>>
      PROVE  TypeOK'
    BY <1>11, SMTT(20) DEF ReadLock, RevalidateLock, RecoverCollection,
       RecoverReuse, RecoverWithoutTemporary, RefuseTemporary, Recovered,
       RecoveryUncertain, RecoverRelease, RecoverRmdir
<1>12. ASSUME NEW v \in Recoverers,
             RollBack(v),
             UNCHANGED <<deaths, users, reader>>
      PROVE  TypeOK'
    BY <1>12, Owned, SMTT(20) DEF RollBack
<1>13. ASSUME NEW v \in Recoverers,
             RecoverCommit(v),
             UNCHANGED <<deaths, users, reader>>
      PROVE  TypeOK'
    BY <1>13, Owned, SMTT(20) DEF RecoverCommit
<1>14. ASSUME NEW v \in Recoverers,
             RecoverDrop(v),
             UNCHANGED <<deaths, users, reader>>
      PROVE  TypeOK'
    BY <1>14, Owned, SMTT(20) DEF RecoverDrop
<1>15. ASSUME NEW v \in Recoverers, RecoverMark(v),
             UNCHANGED <<deaths, users, reader>>
      PROVE  TypeOK'
  <2>1. [rec[v] EXCEPT !.phase = "active_committed"] \in PublishRecord
    BY <1>15, Owned, Moved DEF RecoverMark
  <2> QED BY <1>15, <2>1, SMTT(20) DEF RecoverMark
<1>16. ASSUME NEW v \in Recoverers, RecoverCommitted(v),
             UNCHANGED <<deaths, users, reader>>
      PROVE  TypeOK'
  <2>1. [rec[v] EXCEPT !.phase = "revision_committed", !.made = revs[Target(v)]]
          \in PublishRecord
    BY <1>16, Owned, Moved DEF RecoverCommitted
  <2> QED BY <1>16, <2>1, SMTT(20) DEF RecoverCommitted
<1>17. ASSUME NEW v \in Recoverers,
             RecoverActivate(v),
             UNCHANGED <<deaths, users, reader>>
      PROVE  TypeOK'
    BY <1>17, Owned, Pointed, SMTT(20) DEF RecoverActivate
<1>18. ASSUME NEW v \in Recoverers,
             RecovererDies(v),
             UNCHANGED <<users, reader>>
      PROVE  TypeOK'
    BY <1>18, SMTT(20) DEF RecovererDies
<1>19. ASSUME NEW k \in Readers,
             ReadPointer(k) \/ ReadFails(k) \/ Serve(k) \/ PointerChanged(k),
             UNCHANGED <<users, recoverers>>
      PROVE  TypeOK'
    BY <1>19, SMTT(20) DEF ReadPointer, ReadFails, Serve, PointerChanged
<1>20. ASSUME NEW k \in Readers,
             ReadRevision(k),
             UNCHANGED <<users, recoverers>>
      PROVE  TypeOK'
    BY <1>20, SMTT(20) DEF ReadRevision, Pointers
<1>21. ASSUME NEW k \in Readers,
             RecordLastVerified(k),
             UNCHANGED <<users, recoverers>>
      PROVE  TypeOK'
    BY <1>21, SMTT(20) DEF RecordLastVerified
<1>22. ASSUME NEW k \in Readers, NEW r \in Vouched,
             Vouch(k, r),
             UNCHANGED <<users, recoverers>>
      PROVE  TypeOK'
    BY <1>22, SMTT(20) DEF Vouch
<1>23. CASE UNCHANGED vars
    BY <1>23 DEF vars
<1> QED BY <1>1, <1>2, <1>3, <1>4, <1>5, <1>6, <1>7, <1>8, <1>9, <1>10, <1>11,
       <1>12, <1>13, <1>14, <1>15, <1>16, <1>17, <1>18, <1>19, <1>20, <1>21,
       <1>22, <1>23 DEF Next, UserStep, PublisherStep, CollectorStep, Recover,
       ReaderStep

\* The steps that put a record on the lock put one of the lock's owner.
LEMMA Written ==
    ASSUME PInv
    PROVE  /\ \A p \in Publishers :
                 Record(p) \/ Complete(p) \/ Committed(p) \/ MarkActive(p) =>
                    /\ lock' \in PublishRecord /\ lock' \in Records /\ lock'.by = p
                    /\ mine'[p] = lock' /\ lock # None
                    /\ Record(p) => lock'.phase = "acquired"
                    /\ Committed(p) => lock'.made = revs[RevisionOf[p]]
           /\ \A c \in Collectors : CollectRecorded(c) =>
                    /\ lock' \in CollectRecord /\ lock' \in Records /\ lock'.by = c
                    /\ lock # None
           /\ \A v \in Recoverers : RecoverCommitted(v) \/ RecoverMark(v) =>
                    /\ lock \in PublishRecord /\ lock' \in PublishRecord
                    /\ lock' \in Records
                    /\ lock'.by = lock.by /\ rec'[v] = lock' /\ lock' # None
<1>t. TypeOK
    BY DEF PInv
<1> USE DEF WriteLock, Locked, Advance
<1>1. ASSUME NEW p \in Publishers, Record(p)
      PROVE  /\ lock' \in PublishRecord /\ lock' \in Records /\ lock'.by = p
             /\ mine'[p] = lock' /\ lock # None /\ lock'.phase = "acquired"
    BY <1>1, <1>t DEF Record, TypeOK, PublishRecord, Records, Phases
<1>2. ASSUME NEW p \in Publishers, NEW ph \in Phases, NEW m \in Publishers,
             pc[p] \in AtWork,
             \/ Advance(p, [mine[p] EXCEPT !.phase = ph])
             \/ Advance(p, [mine[p] EXCEPT !.phase = ph, !.made = m])
      PROVE  /\ lock' \in PublishRecord /\ lock' \in Records /\ lock'.by = p
             /\ mine'[p] = lock' /\ lock # None
  <2>1. /\ mine[p] \in PublishRecord /\ mine[p].by = p
        /\ mine \in [Publishers -> PublishRecord \union {None}]
    BY <1>2, <1>t, Owned DEF TypeOK
  <2>2. ASSUME NEW r \in PublishRecord, r.by = p, Advance(p, r)
        PROVE  /\ lock' \in PublishRecord /\ lock'.by = p /\ mine'[p] = lock'
               /\ lock # None
    BY <2>1, <2>2
  <2> DEFINE one == [mine[p] EXCEPT !.phase = ph]
             two == [mine[p] EXCEPT !.phase = ph, !.made = m]
  <2>3. one \in PublishRecord /\ one.by = p /\ two \in PublishRecord /\ two.by = p
    BY <2>1 DEF PublishRecord
  <2>4. Advance(p, one) \/ Advance(p, two)
    BY <1>2
  <2> HIDE DEF one, two, Advance
  <2> QED BY <2>2, <2>3, <2>4 DEF Records
<1>3. ASSUME NEW p \in Publishers, Complete(p) \/ MarkActive(p)
      PROVE  /\ lock' \in PublishRecord /\ lock' \in Records /\ lock'.by = p
             /\ mine'[p] = lock' /\ lock # None
    BY <1>2, <1>3 DEF Complete, MarkActive, AtWork, Phases
<1>4. ASSUME NEW p \in Publishers, Committed(p)
      PROVE  /\ lock' \in PublishRecord /\ lock' \in Records /\ lock'.by = p
             /\ mine'[p] = lock' /\ lock # None /\ lock'.made = revs[RevisionOf[p]]
  <2>1. /\ pc[p] \in AtWork /\ mine[p] \in PublishRecord /\ mine[p].by = p
        /\ revs[RevisionOf[p]] \in Publishers
    BY <1>4, Owned DEF Committed, AtWork, TargetVerifies
  <2>2. Advance(p, [mine[p] EXCEPT !.phase = "revision_committed",
                                   !.made = revs[RevisionOf[p]]])
    BY <1>4 DEF Committed
  <2>3. lock'.made = revs[RevisionOf[p]]
    BY <2>1, <2>2 DEF PublishRecord
  <2> HIDE DEF Advance
  <2> QED BY <1>2, <2>1, <2>2, <2>3 DEF Phases
<1>5. ASSUME NEW c \in Collectors, CollectRecorded(c)
      PROVE  /\ lock' \in CollectRecord /\ lock' \in Records /\ lock'.by = c
             /\ lock # None
    BY <1>5 DEF CollectRecorded, CollectRecord, Records
<1>6. ASSUME NEW v \in Recoverers, RecoverCommitted(v) \/ RecoverMark(v)
      PROVE  /\ lock \in PublishRecord /\ lock' \in PublishRecord
             /\ lock' \in Records
             /\ lock'.by = lock.by /\ rec'[v] = lock' /\ lock' # None
  <2>1. rec[v] \in PublishRecord /\ rec[v] = lock
    BY <1>6, Owned DEF RecoverCommitted, RecoverMark, Acted
  <2>2. revs[Target(v)] \in Publishers \/ RecoverMark(v)
    BY <1>6 DEF RecoverCommitted, TargetVerifies, Target
  <2>3. \/ \E m \in Publishers :
              lock' = [rec[v] EXCEPT !.phase = "revision_committed", !.made = m]
        \/ lock' = [rec[v] EXCEPT !.phase = "active_committed"]
    BY <1>6, <2>2 DEF RecoverCommitted, RecoverMark
  <2>4. lock' \in PublishRecord /\ lock'.by = lock.by
    <3>1. CASE lock' = [rec[v] EXCEPT !.phase = "active_committed"]
        BY <3>1, <2>1, Moved, RevisionAssumption DEF Phases, PublishRecord
    <3>2. ASSUME NEW m \in Publishers,
                 lock' = [rec[v] EXCEPT !.phase = "revision_committed", !.made = m]
          PROVE  lock' \in PublishRecord /\ lock'.by = lock.by
        BY <3>2, <2>1 DEF Phases, PublishRecord
    <3> QED BY <2>3, <3>1, <3>2
  <2>5. rec'[v] = lock'
    BY <1>6, <1>t DEF RecoverCommitted, RecoverMark, TypeOK
  <2> QED BY <2>1, <2>4, <2>5, RecordAssumption DEF Records
<1> QED BY <1>1, <1>3, <1>4, <1>5, <1>6

\* Every step keeps the lock with who works: a user takes it from nobody, a recoverer
\* from a dead owner, and alone.
LEMMA HeldStep == ASSUME Alone, PInv, [Next]_vars PROVE Held'
<1>a. /\ \A v, w \in Recoverers : v = w
      /\ lock \in Records \union {None, Bare} /\ Bare \notin Records
      /\ None \notin Records /\ None # Bare
      /\ DOMAIN pc = Users /\ pc = [u \in Users |-> pc[u]]
      /\ DOMAIN rpc = Recoverers /\ rpc = [v \in Recoverers |-> rpc[v]]
      /\ DOMAIN rec = Recoverers /\ rec = [v \in Recoverers |-> rec[v]]
      /\ \A r \in Records : r.by \in Users
      /\ Publishers \subseteq Users /\ Collectors \subseteq Users
      /\ \A p \in Publishers, r \in PublishRecord : r \in Records
  <2>1. TypeOK
    BY DEF PInv
  <2> QED BY <2>1, RevisionAssumption, RecordAssumption, RecordKinds DEF TypeOK,
         Users, Alone, Records
<1>b. Held /\ PInv
    BY DEF PInv
<1> USE DEF Held, OwnerKeepsLock, AtWork, Acted, files, users, recoverers, Goto,
       Fail, Locked, WriteLock, RGoto, Degraded, Acting, Target, Orphan
<1>1. ASSUME NEW u \in Users,
             Acquire(u),
             UNCHANGED <<recoverers, reader>>
      PROVE  Held'
    BY <1>1, <1>a, <1>b, SMTT(20) DEF Acquire
<1>2. ASSUME NEW u \in Users,
             ReleaseRecord(u) \/ ReleaseDirectory(u) \/ LockGone(u),
             UNCHANGED <<recoverers, reader>>
      PROVE  Held'
    BY <1>2, <1>a, <1>b, SMTT(20) DEF ReleaseRecord, ReleaseDirectory, LockGone
<1>3. ASSUME NEW u \in Users,
             Die(u),
             UNCHANGED <<recoverers, reader>>
      PROVE  Held'
    BY <1>3, <1>a, <1>b, SMTT(20) DEF Die
<1>4. ASSUME NEW p \in Publishers,
             Record(p) \/ Complete(p) \/ Committed(p) \/ MarkActive(p),
             UNCHANGED <<recoverers, reader>>
      PROVE  Held'
  <2>1. lock' \in Records /\ lock'.by = p /\ lock # None
    BY <1>4, <1>b, Written
  <2> QED BY <1>4, <1>a, <1>b, <2>1, SMTT(20) DEF Record, Complete, Committed,
         MarkActive
<1>5. ASSUME NEW p \in Publishers,
             \/ WriteRevision(p) \/ RefuseSource(p) \/ ClaimSourceBinding(p)
             \/ CommitRevision(p) \/ ReuseRevision(p) \/ DropTemporary(p)
             \/ RefuseTarget(p) \/ Activate(p),
             UNCHANGED <<recoverers, reader>>
      PROVE  Held'
    BY <1>5, <1>a, <1>b, SMTT(20) DEF WriteRevision, RefuseSource,
       ClaimSourceBinding, CommitRevision, ReuseRevision, DropTemporary,
       RefuseTarget, Activate
<1>6. ASSUME NEW c \in Collectors,
             CollectRecorded(c),
             UNCHANGED <<recoverers, reader>>
      PROVE  Held'
    BY <1>6, <1>a, <1>b, Written, SMTT(20) DEF CollectRecorded
<1>7. ASSUME NEW c \in Collectors,
             RemoveNext(c) \/ Collected(c) \/ Protect(c),
             UNCHANGED <<recoverers, reader>>
      PROVE  Held'
    BY <1>7, <1>a, <1>b, SMTT(20) DEF RemoveNext, Collected, Protect
<1>8. ASSUME NEW c \in Collectors, NEW r \in Revisions,
             RemoveOrphan(c,r) \/ OrphanRefused(c,r),
             UNCHANGED <<recoverers, reader>>
      PROVE  Held'
    BY <1>8, <1>a, <1>b, SMTT(20) DEF RemoveOrphan, OrphanRefused
<1>9. ASSUME NEW v \in Recoverers,
             ReadLock(v) \/ RevalidateLock(v),
             UNCHANGED <<deaths, users, reader>>
      PROVE  Held'
    BY <1>9, <1>a, <1>b, SMTT(20) DEF ReadLock, RevalidateLock
<1>10. ASSUME NEW v \in Recoverers,
             \/ RecoverCollection(v) \/ RollBack(v) \/ RecoverCommit(v)
             \/ RecoverReuse(v) \/ RecoverDrop(v) \/ RecoverWithoutTemporary(v)
             \/ RefuseTemporary(v),
             UNCHANGED <<deaths, users, reader>>
      PROVE  Held'
    BY <1>10, <1>a, <1>b, SMTT(20) DEF RecoverCollection, RollBack,
       RecoverCommit, RecoverReuse, RecoverDrop, RecoverWithoutTemporary,
       RefuseTemporary
<1>11. ASSUME NEW v \in Recoverers, RecoverCommitted(v) \/ RecoverMark(v),
              UNCHANGED <<deaths, users, reader>>
       PROVE  Held'
  <2>1. /\ lock' \in Records /\ lock'.by = lock.by /\ rec'[v] = lock'
        /\ lock \in Records
    BY <1>11, <1>b, Written DEF Records
  <2> QED BY <1>11, <1>a, <1>b, <2>1, SMTT(20) DEF RecoverCommitted, RecoverMark
<1>12. ASSUME NEW v \in Recoverers,
             RecoverActivate(v) \/ Recovered(v) \/ RecoveryUncertain(v),
             UNCHANGED <<deaths, users, reader>>
      PROVE  Held'
    BY <1>12, <1>a, <1>b, SMTT(20) DEF RecoverActivate, Recovered,
       RecoveryUncertain
<1>13. ASSUME NEW v \in Recoverers,
             RecoverRelease(v) \/ RecoverRmdir(v),
             UNCHANGED <<deaths, users, reader>>
      PROVE  Held'
    BY <1>13, <1>a, <1>b, SMTT(20) DEF RecoverRelease, RecoverRmdir
<1>14. ASSUME NEW v \in Recoverers,
             RecovererDies(v),
             UNCHANGED <<users, reader>>
      PROVE  Held'
    BY <1>14, <1>a, <1>b, SMTT(20) DEF RecovererDies
<1>15. ASSUME NEW k \in Readers,
             \/ ReadPointer(k) \/ ReadFails(k) \/ Serve(k) \/ PointerChanged(k)
             \/ ReadRevision(k) \/ RecordLastVerified(k),
             UNCHANGED <<users, recoverers>>
      PROVE  Held'
    BY <1>15, <1>a, <1>b, SMTT(20) DEF ReadPointer, ReadFails, Serve,
       PointerChanged, ReadRevision, RecordLastVerified
<1>16. ASSUME NEW k \in Readers, NEW r \in Vouched,
             Vouch(k,r),
             UNCHANGED <<users, recoverers>>
      PROVE  Held'
    BY <1>16, <1>a, <1>b, SMTT(20) DEF Vouch
<1>17. CASE UNCHANGED vars
    BY <1>17, <1>b DEF vars
<1> QED BY <1>1, <1>2, <1>3, <1>4, <1>5, <1>6, <1>7, <1>8, <1>9, <1>10, <1>11,
       <1>12, <1>13, <1>14, <1>15, <1>16, <1>17 DEF Next, UserStep,
       PublisherStep, CollectorStep, Recover, ReaderStep

\* Who changes the revisions, the bindings and the pointer.
LEMMA Writers ==
    ASSUME [Next]_vars
    PROVE  \/ UNCHANGED <<revs, bindings, active>>
           \/ \E p \in Publishers : 
                /\ (ClaimSourceBinding(p) \/ CommitRevision(p) \/ Activate(p))
                /\ UNCHANGED <<recoverers, reader>>
           \/ \E c \in Collectors :
                /\ RemoveNext(c) \/ \E r \in Revisions : RemoveOrphan(c, r)
                /\ UNCHANGED <<recoverers, reader>>
           \/ \E v \in Recoverers : 
                /\ (RecoverCommit(v) \/ RecoverActivate(v))
                /\ UNCHANGED <<users, reader>>
BY DEF Next, UserStep, PublisherStep, CollectorStep, Recover, ReaderStep, vars,
   files, Fail, Degraded, Acquire, ReleaseRecord, ReleaseDirectory, LockGone,
   Die, Record, WriteRevision, RefuseSource, Complete, ReuseRevision,
   DropTemporary, Committed, RefuseTarget, MarkActive, CollectRecorded, Protect,
   OrphanRefused, Collected, ReadLock, RevalidateLock, RecoverCollection,
   RollBack, RecoverReuse, RecoverDrop, RecoverWithoutTemporary,
   RefuseTemporary, RecoverCommitted, RecoverMark, Recovered, RecoveryUncertain,
   RecoverRelease, RecoverRmdir, RecovererDies, RecordLastVerified, ReadPointer,
   ReadRevision, ReadFails, Serve, PointerChanged, Vouch

\* What the assumptions say of the entries of a directory.
LEMMA Entries ==
    /\ Publishers \intersect {None, Torn, Empty} = {}
    /\ Revisions \intersect {None, Torn, Empty} = {}
    /\ None # Torn /\ None # Empty /\ Torn # Empty
    /\ \A p \in Publishers : RevisionOf[p] \in Revisions /\ p \in Users
    /\ \A c \in Collectors : c \in Users /\ \A p \in Publishers : p # c
    /\ None \notin Pointers
    /\ \A q \in Pointers : q.rev \in Revisions /\ q.made \in Publishers
    /\ \A r \in Revisions : SourceOf[r] \in Sources
BY RevisionAssumption, RecordAssumption DEF Users, Pointers, Sources

\* Every step keeps whole revisions bound: one comes to be by a commit only, whose
\* source is bound, and a binding is for good.
LEMMA BoundStep == ASSUME PInv, [Next]_vars PROVE Bound'
<1> USE DEF Bound, IsBound, Whole
<1>a. /\ Bound /\ Recorded
      /\ revs \in [Revisions -> Publishers \union {None, Torn, Empty}]
      /\ bindings \in [Sources -> Revisions \union {None}]
    BY DEF PInv, TypeOK
<1>1. CASE UNCHANGED <<revs, bindings, active>>
    BY <1>1, <1>a
<1>2. ASSUME NEW p \in Publishers, ClaimSourceBinding(p) PROVE Bound'
    BY <1>2, <1>a, Entries DEF ClaimSourceBinding, Binds
<1>3. ASSUME NEW p \in Publishers, CommitRevision(p) PROVE Bound'
  <2>1. IsBound(RevisionOf[p])
    BY <1>3, <1>a DEF CommitRevision, Recorded, Claimed, AtWork
  <2> QED BY <1>3, <1>a, <2>1, Entries DEF CommitRevision
<1>4. ASSUME NEW c \in Collectors,
             RemoveNext(c) \/ \E r \in Revisions : RemoveOrphan(c, r)
      PROVE  Bound'
    BY <1>4, <1>a, Entries DEF RemoveNext, RemoveOrphan
<1>5. ASSUME NEW v \in Recoverers, RecoverCommit(v) PROVE Bound'
  <2>1. IsBound(Target(v)) /\ Target(v) \in Revisions
    BY <1>5, <1>a, Owned, Entries DEF RecoverCommit, Acting, Acted, Target,
       Recorded, Claimed
  <2> QED BY <1>5, <1>a, <2>1, Entries DEF RecoverCommit
<1>6. CASE \/ \E p \in Publishers : Activate(p)
           \/ \E v \in Recoverers : RecoverActivate(v)
    BY <1>6, <1>1, <1>a DEF Activate, RecoverActivate
<1> QED BY <1>1, <1>2, <1>3, <1>4, <1>5, <1>6, Writers

\* Every step keeps the active revision: a commit does not replace a whole one, a
\* sweep spares it, and a pointer is written for a target just verified.
LEMMA ActiveStep == ASSUME PInv, [Next]_vars PROVE ActiveIsWhole'
<1> USE DEF ActiveIsWhole
<1>a. /\ ActiveIsWhole /\ Recorded /\ Sweeping
      /\ revs \in [Revisions -> Publishers \union {None, Torn, Empty}]
      /\ active \in Pointers \union {None}
      /\ removing \in [Collectors -> Revisions \union {None}]
    BY DEF PInv, TypeOK
<1>1. CASE UNCHANGED <<revs, bindings, active>>
    BY <1>1, <1>a
<1>2. ASSUME NEW p \in Publishers, CommitRevision(p) PROVE ActiveIsWhole'
    BY <1>2, <1>a, Entries DEF CommitRevision, Free
<1>3. ASSUME NEW p \in Publishers, Activate(p) PROVE ActiveIsWhole'
  <2>1. /\ mine[p] \in PublishRecord /\ mine[p].by = p
        /\ revs[RevisionOf[p]] = mine[p].made
    BY <1>3, <1>a, Owned DEF Activate, AtWork, Recorded, Verified
  <2> QED BY <1>3, <2>1, Pointed DEF Activate
<1>4. ASSUME NEW c \in Collectors,
             RemoveNext(c) \/ \E r \in Revisions : RemoveOrphan(c, r)
      PROVE  ActiveIsWhole'
    BY <1>4, <1>a, Entries DEF RemoveNext, RemoveOrphan, Orphan, Sweeping
<1>5. ASSUME NEW v \in Recoverers, RecoverCommit(v) PROVE ActiveIsWhole'
    BY <1>5, <1>a, Entries DEF RecoverCommit, Free
<1>6. ASSUME NEW v \in Recoverers, RecoverActivate(v) PROVE ActiveIsWhole'
  <2>1. rec[v] \in PublishRecord /\ revs[RevisionOf[rec[v].by]] = rec[v].made
    BY <1>6, Owned DEF RecoverActivate, Acting, Acted, Target
  <2> QED BY <1>6, <2>1, Pointed DEF RecoverActivate
<1>7. CASE \E p \in Publishers : ClaimSourceBinding(p)
    BY <1>7, <1>a DEF ClaimSourceBinding
<1> QED BY <1>1, <1>2, <1>3, <1>4, <1>5, <1>6, <1>7, Writers

\* Every step keeps what a reader has.
LEMMA ReadingStep == ASSUME PInv, [Next]_vars PROVE Reading'
<1>a. /\ Reading /\ None \notin Pointers /\ Vouched \subseteq Revisions
      /\ active \in Pointers \union {None}
      /\ reader = [k \in Readers |-> reader[k]]
  <2>1. TypeOK
    BY DEF PInv
  <2>2. reader = [k \in Readers |-> reader[k]]
    BY <2>1 DEF TypeOK
  <2> QED BY <2>1, <2>2, RevisionAssumption, RecordAssumption DEF PInv, TypeOK
<1>1. CASE UNCHANGED reader
    BY <1>1, <1>a DEF Reading
<1>2. ASSUME NEW k \in Readers,
             \/ RecordLastVerified(k) \/ ReadPointer(k) \/ ReadRevision(k)
             \/ ReadFails(k) \/ Serve(k) \/ PointerChanged(k)
      PROVE  Reading'
    BY <1>2, <1>a DEF RecordLastVerified, ReadPointer, ReadRevision, ReadFails,
       Serve, PointerChanged, Reading, Move, Leave, Fresh, At, ManifestVerifies,
       Manifest
<1>3. ASSUME NEW k \in Readers, NEW r \in Vouched, Vouch(k, r) PROVE Reading'
    BY <1>3, <1>a DEF Vouch, Reading, Move
<1> QED BY <1>1, <1>2, <1>3 DEF Next, Recover, ReaderStep, vars

\* A user at work is alone: no other user is, and no recoverer acts.
LEMMA WorksAlone ==
    ASSUME PInv, NEW u \in Users, pc[u] \in AtWork
    PROVE  /\ \A w \in Users : w # u => pc[w] \notin AtWork \union {"record", "rmdir"}
           /\ \A v \in Recoverers : rpc[v] \notin Acted \union {"rmdir"}
           /\ lock # None /\ lock # Bare
    BY RecordAssumption DEF PInv, Held, OwnerKeepsLock, AtWork, Acted

\* Every step keeps a sweep's protection: nobody activates while it holds the lock.
LEMMA SweepingStep == ASSUME PInv, [Next]_vars PROVE Sweeping'
<1>a. /\ Sweeping /\ Held /\ OwnerKeepsLock
      /\ revs \in [Revisions -> Publishers \union {None, Torn, Empty}]
      /\ active \in Pointers \union {None} /\ DOMAIN pc = Users
      /\ pc = [u \in Users |-> pc[u]]
      /\ removing \in [Collectors -> Revisions \union {None}]
      /\ spared = [c \in Collectors |-> spared[c]]
  <2>1. TypeOK
    BY DEF PInv
  <2>2. /\ spared = [c \in Collectors |-> spared[c]] /\ pc = [u \in Users |-> pc[u]]
        /\ DOMAIN pc = Users
    BY <2>1 DEF TypeOK
  <2> QED BY <2>1, <2>2 DEF PInv, TypeOK, Held
<1> USE DEF Sweeping, files, users, recoverers, Goto, Fail, RGoto, Degraded,
       Forget, Orphan, AtWork, Acted, Acting
<1>1. ASSUME NEW u \in Users,
             \/ Acquire(u) \/ ReleaseRecord(u) \/ ReleaseDirectory(u) \/ LockGone(u)
             \/ Die(u),
             UNCHANGED <<recoverers, reader>>
      PROVE  Sweeping'
    BY <1>1, <1>a, WorksAlone, Entries, SMTT(20) DEF Acquire, ReleaseRecord,
       ReleaseDirectory, LockGone, Die
<1>2. ASSUME NEW p \in Publishers,
             \/ Record(p) \/ WriteRevision(p) \/ ClaimSourceBinding(p)
             \/ RefuseSource(p) \/ Complete(p) \/ ReuseRevision(p)
             \/ DropTemporary(p) \/ Committed(p) \/ RefuseTarget(p)
             \/ MarkActive(p),
             UNCHANGED <<recoverers, reader>>
      PROVE  Sweeping'
    BY <1>2, <1>a, Entries, SMTT(20) DEF Record, WriteRevision,
       ClaimSourceBinding, RefuseSource, Complete, ReuseRevision, DropTemporary,
       Committed, RefuseTarget, MarkActive
<1>3. ASSUME NEW p \in Publishers,
             CommitRevision(p) \/ Activate(p),
             UNCHANGED <<recoverers, reader>>
      PROVE  Sweeping'
    BY <1>3, <1>a, WorksAlone, Entries, SMTT(20) DEF CommitRevision, Activate
<1>4. ASSUME NEW c \in Collectors,
             CollectRecorded(c) \/ Collected(c),
             UNCHANGED <<recoverers, reader>>
      PROVE  Sweeping'
    BY <1>4, <1>a, Entries, SMTT(20) DEF CollectRecorded, Collected
<1>5. ASSUME NEW c \in Collectors,
             Protect(c),
             UNCHANGED <<recoverers, reader>>
      PROVE  Sweeping'
  <2>1. active # None => active.rev \in Protected
    BY DEF Protected
  <2> QED BY <1>5, <1>a, WorksAlone, <2>1, Entries, SMTT(20) DEF Protect
<1>6. ASSUME NEW c \in Collectors,
             RemoveNext(c),
             UNCHANGED <<recoverers, reader>>
      PROVE  Sweeping'
    BY <1>6, <1>a, WorksAlone, Entries, SMTT(20) DEF RemoveNext
<1>7. ASSUME NEW c \in Collectors, NEW r \in Revisions,
             RemoveOrphan(c,r) \/ OrphanRefused(c,r),
             UNCHANGED <<recoverers, reader>>
      PROVE  Sweeping'
    BY <1>7, <1>a, WorksAlone, Entries, SMTT(20) DEF RemoveOrphan, OrphanRefused
<1>8. ASSUME NEW v \in Recoverers,
             RecoverCommit(v) \/ RecoverActivate(v),
             UNCHANGED <<deaths, users, reader>>
      PROVE  Sweeping'
    BY <1>8, <1>a, WorksAlone, Entries, SMTT(20) DEF RecoverCommit,
       RecoverActivate
<1>9. CASE UNCHANGED <<users, revs, active>>
    BY <1>9, <1>a
<1>10. \/ UNCHANGED <<users, revs, active>>
       \/ /\ \/ \E u \in Users : UserStep(u)
             \/ \E p \in Publishers : PublisherStep(p)
             \/ \E c \in Collectors : CollectorStep(c)
          /\ UNCHANGED <<recoverers, reader>>
       \/ \E v \in Recoverers : 
              /\ (RecoverCommit(v) \/ RecoverActivate(v))
              /\ UNCHANGED <<deaths, users, reader>>
    BY DEF Next, Recover, ReaderStep, vars, ReadLock, RevalidateLock,
       RecoverCollection, RollBack, RecoverReuse, RecoverDrop,
       RecoverWithoutTemporary, RefuseTemporary, RecoverCommitted, RecoverMark,
       Recovered, RecoveryUncertain, RecoverRelease, RecoverRmdir,
       RecovererDies, RecordLastVerified, ReadPointer, ReadRevision, ReadFails,
       Serve, PointerChanged, Vouch
<1> QED BY <1>1, <1>2, <1>3, <1>4, <1>5, <1>6, <1>7, <1>8, <1>9, <1>10 DEF
       UserStep, PublisherStep, CollectorStep

\* Every step keeps the publisher's record equal to the lock's.
LEMMA KeptStep == ASSUME PInv, [Next]_vars PROVE Kept'
<1>a. /\ Recorded /\ Held /\ OwnerKeepsLock
      /\ revs = [r \in Revisions |-> revs[r]]
      /\ pc = [u \in Users |-> pc[u]]
      /\ rpc = [v \in Recoverers |-> rpc[v]] /\ rec = [v \in Recoverers |-> rec[v]]
      /\ mine = [p \in Publishers |-> mine[p]]
  <2>1. TypeOK
    BY DEF PInv
  <2> QED BY <2>1 DEF PInv, TypeOK, Held
<1> USE DEF Recorded, Kept, files, users, recoverers, Goto, Fail, RGoto,
       Degraded, Forget, Orphan, AtWork, Acted, Acting, Target
<1>1. ASSUME NEW u \in Users,
             \/ Acquire(u) \/ ReleaseRecord(u) \/ ReleaseDirectory(u) \/ LockGone(u)
             \/ Die(u),
             UNCHANGED <<recoverers, reader>>
      PROVE  Kept'
    BY <1>1, <1>a, WorksAlone, Entries, SMTT(20) DEF Acquire, ReleaseRecord,
       ReleaseDirectory, LockGone, Die
<1>2. ASSUME NEW p \in Publishers,
             \/ WriteRevision(p) \/ ClaimSourceBinding(p) \/ RefuseSource(p)
             \/ CommitRevision(p) \/ ReuseRevision(p) \/ DropTemporary(p)
             \/ RefuseTarget(p) \/ Activate(p),
             UNCHANGED <<recoverers, reader>>
      PROVE  Kept'
    BY <1>2, <1>a, WorksAlone, Entries, SMTT(20) DEF WriteRevision,
       ClaimSourceBinding, RefuseSource, CommitRevision, ReuseRevision,
       DropTemporary, RefuseTarget, Activate
<1>3. ASSUME NEW p \in Publishers,
             Record(p) \/ Complete(p) \/ Committed(p) \/ MarkActive(p)
      PROVE  Kept'
  <2>1. lock' = mine'[p]
    BY <1>3, Written
  <2>2. \A q \in Publishers : pc'[q] \in AtWork => q = p
    BY <1>3, <1>a, WorksAlone, Entries DEF Record, Complete, Committed,
       MarkActive
  <2> QED BY <2>1, <2>2
<1>4. ASSUME NEW c \in Collectors,
             CollectRecorded(c) \/ RemoveNext(c) \/ Collected(c) \/ Protect(c),
             UNCHANGED <<recoverers, reader>>
      PROVE  Kept'
    BY <1>4, <1>a, WorksAlone, Entries, SMTT(20) DEF CollectRecorded,
       RemoveNext, Collected, Protect
<1>5. ASSUME NEW c \in Collectors, NEW r \in Revisions,
             RemoveOrphan(c,r) \/ OrphanRefused(c,r),
             UNCHANGED <<recoverers, reader>>
      PROVE  Kept'
    BY <1>5, <1>a, WorksAlone, Entries, SMTT(20) DEF RemoveOrphan, OrphanRefused
<1>6. ASSUME NEW v \in Recoverers,
             \/ RecoverCommitted(v) \/ RecoverMark(v) \/ RecoverRelease(v)
             \/ RecoverRmdir(v),
             UNCHANGED <<deaths, users, reader>>
      PROVE  Kept'
    BY <1>6, <1>a, WorksAlone, Entries, SMTT(20) DEF RecoverCommitted,
       RecoverMark, RecoverRelease, RecoverRmdir
<1>7. CASE UNCHANGED <<pc, mine, lock>>
    BY <1>7, <1>a
<1>8. \/ UNCHANGED <<pc, mine, lock>>
      \/ /\ \/ \E u \in Users : UserStep(u)
            \/ \E p \in Publishers : PublisherStep(p)
            \/ \E c \in Collectors : CollectorStep(c)
         /\ UNCHANGED <<recoverers, reader>>
      \/ \E v \in Recoverers :
            /\ RecoverCommitted(v) \/ RecoverMark(v) \/ RecoverRelease(v) \/ RecoverRmdir(v)
            /\ UNCHANGED <<deaths, users, reader>>
    BY DEF Next, Recover, ReaderStep, vars, ReadLock, RevalidateLock,
       RecoverCollection, RollBack, RecoverReuse, RecoverDrop,
       RecoverWithoutTemporary, RefuseTemporary, RecoverCommit, RecoverActivate,
       Recovered, RecoveryUncertain, RecovererDies, RecordLastVerified,
       ReadPointer, ReadRevision, ReadFails, Serve, PointerChanged, Vouch
<1> QED BY <1>1, <1>2, <1>3, <1>4, <1>5, <1>6, <1>7, <1>8 DEF UserStep,
       PublisherStep, CollectorStep

\* Every step keeps the target a publisher has verified.
LEMMA VerifiedStep == ASSUME PInv, [Next]_vars PROVE Verified'
<1>a. /\ Recorded /\ Held /\ OwnerKeepsLock
      /\ revs = [r \in Revisions |-> revs[r]]
      /\ pc = [u \in Users |-> pc[u]]
      /\ rpc = [v \in Recoverers |-> rpc[v]] /\ rec = [v \in Recoverers |-> rec[v]]
      /\ mine = [p \in Publishers |-> mine[p]]
  <2>1. TypeOK
    BY DEF PInv
  <2> QED BY <2>1 DEF PInv, TypeOK, Held
<1> USE DEF Recorded, Verified, files, users, recoverers, Goto, Fail, RGoto,
       Degraded, Forget, Orphan, AtWork, Acted, Acting, Target
<1>1. ASSUME NEW u \in Users,
             \/ Acquire(u) \/ ReleaseRecord(u) \/ ReleaseDirectory(u) \/ LockGone(u)
             \/ Die(u),
             UNCHANGED <<recoverers, reader>>
      PROVE  Verified'
    BY <1>1, <1>a, WorksAlone, Entries, SMTT(20) DEF Acquire, ReleaseRecord,
       ReleaseDirectory, LockGone, Die
<1>2. ASSUME NEW p \in Publishers,
             \/ Record(p) \/ WriteRevision(p) \/ ClaimSourceBinding(p)
             \/ RefuseSource(p) \/ Complete(p) \/ CommitRevision(p)
             \/ ReuseRevision(p) \/ DropTemporary(p) \/ RefuseTarget(p)
             \/ Activate(p) \/ MarkActive(p),
             UNCHANGED <<recoverers, reader>>
      PROVE  Verified'
    BY <1>2, <1>a, WorksAlone, Entries, SMTT(20) DEF Record, WriteRevision,
       ClaimSourceBinding, RefuseSource, Complete, CommitRevision,
       ReuseRevision, DropTemporary, RefuseTarget, Activate, MarkActive
<1>3. ASSUME NEW p \in Publishers, Committed(p)
      PROVE  Verified'
  <2>1. mine'[p].made = revs[RevisionOf[p]] /\ revs' = revs
    BY <1>3, Written DEF Committed
  <2>2. \A q \in Publishers : pc'[q] = "activate" => q = p
    BY <1>3, <1>a, WorksAlone, Entries DEF Committed
  <2> QED BY <2>1, <2>2
<1>4. ASSUME NEW c \in Collectors,
             CollectRecorded(c) \/ RemoveNext(c) \/ Collected(c) \/ Protect(c),
             UNCHANGED <<recoverers, reader>>
      PROVE  Verified'
    BY <1>4, <1>a, WorksAlone, Entries, SMTT(20) DEF CollectRecorded,
       RemoveNext, Collected, Protect
<1>5. ASSUME NEW c \in Collectors, NEW r \in Revisions,
             RemoveOrphan(c,r) \/ OrphanRefused(c,r),
             UNCHANGED <<recoverers, reader>>
      PROVE  Verified'
    BY <1>5, <1>a, WorksAlone, Entries, SMTT(20) DEF RemoveOrphan, OrphanRefused
<1>6. ASSUME NEW v \in Recoverers,
             RecoverCommit(v),
             UNCHANGED <<deaths, users, reader>>
      PROVE  Verified'
    BY <1>6, <1>a, WorksAlone, Entries, SMTT(20) DEF RecoverCommit
<1>7. CASE UNCHANGED <<pc, mine, revs>>
    BY <1>7, <1>a
<1>8. \/ UNCHANGED <<pc, mine, revs>>
      \/ /\ \/ \E u \in Users : UserStep(u)
            \/ \E p \in Publishers : PublisherStep(p)
            \/ \E c \in Collectors : CollectorStep(c)
         /\ UNCHANGED <<recoverers, reader>>
      \/ \E v \in Recoverers : RecoverCommit(v) /\ UNCHANGED <<deaths, users, reader>>
    BY DEF Next, Recover, ReaderStep, vars, ReadLock, RevalidateLock,
       RecoverCollection, RollBack, RecoverReuse, RecoverDrop,
       RecoverWithoutTemporary, RefuseTemporary, RecoverCommitted, RecoverMark,
       RecoverRelease, RecoverRmdir, RecoverActivate, Recovered,
       RecoveryUncertain, RecovererDies, RecordLastVerified, ReadPointer,
       ReadRevision, ReadFails, Serve, PointerChanged, Vouch
<1> QED BY <1>1, <1>2, <1>3, <1>4, <1>5, <1>6, <1>7, <1>8 DEF UserStep,
       PublisherStep, CollectorStep

\* Every step keeps the recoverers' records.
LEMMA SettlingStep == ASSUME PInv, [Next]_vars PROVE Settling'
<1>a. /\ Recorded /\ Held /\ OwnerKeepsLock
      /\ revs = [r \in Revisions |-> revs[r]]
      /\ pc = [u \in Users |-> pc[u]]
      /\ rpc = [v \in Recoverers |-> rpc[v]] /\ rec = [v \in Recoverers |-> rec[v]]
      /\ mine = [p \in Publishers |-> mine[p]]
  <2>1. TypeOK
    BY DEF PInv
  <2> QED BY <2>1 DEF PInv, TypeOK, Held
<1> USE DEF Recorded, Settling, files, users, recoverers, Goto, Fail, RGoto,
       Degraded, Forget, Orphan, AtWork, Acted, Acting, Target
<1>1. ASSUME NEW v \in Recoverers,
             \/ RecoverCommit(v) \/ RecoverReuse(v) \/ RecoverWithoutTemporary(v)
             \/ RecoverActivate(v)
      PROVE  Settling'
  <2>1. rec' = rec /\ rec[v] \in PublishRecord /\ rec[v].phase # "acquired"
    BY <1>1, Owned DEF RecoverCommit, RecoverReuse, RecoverWithoutTemporary,
       RecoverActivate
  <2>2. \A w \in Recoverers : w # v => rpc'[w] = rpc[w]
    BY <1>1, <1>a DEF RecoverCommit, RecoverReuse, RecoverWithoutTemporary,
       RecoverActivate
  <2> QED BY <2>1, <2>2, <1>a
<1>2. ASSUME NEW v \in Recoverers,
             \/ ReadLock(v) \/ RevalidateLock(v) \/ RecoverCollection(v)
             \/ RollBack(v) \/ RecoverDrop(v) \/ RefuseTemporary(v)
             \/ RecoverCommitted(v) \/ RecoverMark(v) \/ Recovered(v)
             \/ RecoveryUncertain(v) \/ RecoverRelease(v) \/ RecoverRmdir(v),
             UNCHANGED <<deaths, users, reader>>
      PROVE  Settling'
    BY <1>2, <1>a, Entries, SMTT(20) DEF ReadLock, RevalidateLock,
       RecoverCollection, RollBack, RecoverDrop, RefuseTemporary,
       RecoverCommitted, RecoverMark, Recovered, RecoveryUncertain,
       RecoverRelease, RecoverRmdir
<1>3. ASSUME NEW v \in Recoverers,
             RecovererDies(v),
             UNCHANGED <<users, reader>>
      PROVE  Settling'
    BY <1>3, <1>a, Entries, SMTT(20) DEF RecovererDies
<1>4. CASE UNCHANGED recoverers
    BY <1>4, <1>a
<1> QED BY <1>1, <1>2, <1>3, <1>4 DEF Next, Recover, vars

\* Who puts a record on the lock.
LEMMA LockWriters ==
    ASSUME [Next]_vars
    PROVE  \/ lock' \in {lock, None, Bare}
           \/ \E p \in Publishers : Record(p) \/ Complete(p) \/ Committed(p) \/ MarkActive(p)
           \/ \E c \in Collectors : CollectRecorded(c)
           \/ \E v \in Recoverers : RecoverCommitted(v) \/ RecoverMark(v)
BY DEF Next, UserStep, PublisherStep, CollectorStep, Recover, ReaderStep, vars,
   files, Fail, Degraded, Acquire, ReleaseRecord, ReleaseDirectory, LockGone,
   Die, WriteRevision, RefuseSource, ClaimSourceBinding, CommitRevision,
   Activate, RecoverCommit, RecoverActivate, RemoveNext, RemoveOrphan,
   ReuseRevision, DropTemporary, RefuseTarget, Protect, OrphanRefused,
   Collected, ReadLock, RevalidateLock, RecoverCollection, RollBack,
   RecoverReuse, RecoverDrop, RecoverWithoutTemporary, RefuseTemporary,
   Recovered, RecoveryUncertain, RecoverRelease, RecoverRmdir, RecovererDies,
   RecordLastVerified, ReadPointer, ReadRevision, ReadFails, Serve,
   PointerChanged, Vouch

\* A binding, once made, is never changed.
LEMMA BindingsStay ==
    ASSUME PInv, [Next]_vars, NEW r \in Revisions, IsBound(r)
    PROVE  IsBound(r)'
<1>a. bindings \in [Sources -> Revisions \union {None}] /\ None \notin Revisions
    BY Entries DEF PInv, TypeOK
<1>1. ASSUME NEW p \in Publishers, ClaimSourceBinding(p) PROVE IsBound(r)'
    BY <1>1, <1>a, Entries DEF ClaimSourceBinding, Binds, IsBound
<1>2. bindings' = bindings \/ \E p \in Publishers : ClaimSourceBinding(p)
    BY Writers DEF CommitRevision, Activate, RemoveNext, RemoveOrphan,
       RecoverCommit, RecoverActivate
<1> QED BY <1>1, <1>2 DEF IsBound

\* Every step keeps the bindings the records and the publishers count on.
LEMMA ClaimedStep == ASSUME PInv, [Next]_vars PROVE Claimed'
<1>a. /\ Recorded /\ Held /\ OwnerKeepsLock
      /\ revs = [r \in Revisions |-> revs[r]]
      /\ pc = [u \in Users |-> pc[u]]
      /\ rpc = [v \in Recoverers |-> rpc[v]] /\ rec = [v \in Recoverers |-> rec[v]]
      /\ mine = [p \in Publishers |-> mine[p]]
  <2>1. TypeOK
    BY DEF PInv
  <2> QED BY <2>1 DEF PInv, TypeOK, Held
<1> DEFINE Committing == AtWork \ {"write", "bind"}
<1> USE DEF files, users, recoverers, Goto, Fail, RGoto, Degraded, Forget,
       Orphan, AtWork, Acted, Acting, Target
<1>1. ASSUME NEW u \in Users,
             \/ Acquire(u) \/ ReleaseRecord(u) \/ ReleaseDirectory(u) \/ LockGone(u)
             \/ Die(u)
      PROVE  \A q \in Publishers : pc'[q] \in Committing => pc[q] \in Committing
    BY <1>1, <1>a, Entries, SMTT(20) DEF Acquire, ReleaseRecord,
       ReleaseDirectory, LockGone, Die
<1>2. ASSUME NEW p \in Publishers,
             \/ Record(p) \/ WriteRevision(p) \/ RefuseSource(p) \/ Complete(p)
             \/ CommitRevision(p) \/ ReuseRevision(p) \/ DropTemporary(p)
             \/ Committed(p) \/ RefuseTarget(p) \/ Activate(p) \/ MarkActive(p)
      PROVE  \A q \in Publishers : pc'[q] \in Committing => pc[q] \in Committing
    BY <1>2, <1>a, Entries, SMTT(20) DEF Record, WriteRevision, RefuseSource,
       Complete, CommitRevision, ReuseRevision, DropTemporary, Committed,
       RefuseTarget, Activate, MarkActive
<1>3. ASSUME NEW c \in Collectors,
             CollectRecorded(c) \/ RemoveNext(c) \/ Collected(c) \/ Protect(c)
      PROVE  \A q \in Publishers : pc'[q] \in Committing => pc[q] \in Committing
    BY <1>3, <1>a, Entries, SMTT(20) DEF CollectRecorded, RemoveNext, Collected,
       Protect
<1>4. ASSUME NEW c \in Collectors, NEW r \in Revisions,
             RemoveOrphan(c,r) \/ OrphanRefused(c,r)
      PROVE  \A q \in Publishers : pc'[q] \in Committing => pc[q] \in Committing
    BY <1>4, <1>a, Entries, SMTT(20) DEF RemoveOrphan, OrphanRefused
<1>5. \/ \A q \in Publishers : pc'[q] \in Committing => pc[q] \in Committing
      \/ \E p \in Publishers : ClaimSourceBinding(p)
  <2>1. CASE pc' = pc
    BY <2>1
  <2> QED BY <2>1, <1>1, <1>2, <1>3, <1>4 DEF Next, Recover, UserStep,
         PublisherStep, CollectorStep, vars
<1>6. ASSUME NEW q \in Publishers, pc'[q] \in Committing
      PROVE  IsBound(RevisionOf[q])'
  <2>1. CASE pc[q] \in Committing
    BY <2>1, <1>a, Entries, BindingsStay DEF Recorded, Claimed
  <2>2. ASSUME NEW p \in Publishers, ClaimSourceBinding(p), pc[q] \notin Committing
        PROVE  IsBound(RevisionOf[q])'
    <3>1. q = p
        BY <2>2, <1>6, <1>a, Entries DEF ClaimSourceBinding
    <3>2. bindings \in [Sources -> Revisions \union {None}]
        BY DEF PInv, TypeOK
    <3> QED BY <2>2, <3>1, <3>2, Entries DEF ClaimSourceBinding, IsBound
  <2> QED BY <1>5, <1>6, <2>1, <2>2
<1>7. ASSUME lock' \in PublishRecord, lock'.phase # "acquired",
             NEW q \in Publishers, lock'.by = q
      PROVE  IsBound(RevisionOf[q])'
  <2>1. CASE lock' = lock
    <3>1. IsBound(RevisionOf[q])
        BY <2>1, <1>7, <1>a DEF Recorded, Claimed
    <3> QED BY <3>1, Entries, BindingsStay
  <2>2. ASSUME NEW p \in Publishers, Complete(p) \/ Committed(p) \/ MarkActive(p)
        PROVE  IsBound(RevisionOf[q])'
    <3>1. q = p /\ pc[p] \in Committing
        BY <2>2, <1>7, Written DEF Complete, Committed, MarkActive
    <3>2. IsBound(RevisionOf[q])
        BY <3>1, <1>a DEF Recorded, Claimed
    <3> QED BY <3>2, Entries, BindingsStay
  <2>3. ASSUME NEW v \in Recoverers, RecoverCommitted(v) \/ RecoverMark(v)
        PROVE  IsBound(RevisionOf[q])'
    <3>1. q = lock.by /\ lock \in PublishRecord
        BY <2>3, <1>7, Written
    <3>2. lock.phase # "acquired"
        BY <2>3, <1>a, Owned DEF RecoverCommitted, RecoverMark, Recorded,
           Settling
    <3>3. IsBound(RevisionOf[q])
        BY <3>1, <3>2, <1>a DEF Recorded, Claimed
    <3> QED BY <3>3, Entries, BindingsStay
  <2>4. ASSUME NEW p \in Publishers, Record(p) PROVE FALSE
    BY <2>4, <1>7, Written
  <2>5. ASSUME NEW c \in Collectors, CollectRecorded(c) PROVE FALSE
    <3>1. lock' \in CollectRecord
        BY <2>5, Written
    <3> QED BY <3>1, <1>7, RecordKinds
  <2>6. lock' \notin {None, Bare}
    BY <1>7, RecordAssumption DEF Records
  <2> QED BY <2>1, <2>2, <2>3, <2>4, <2>5, <2>6, LockWriters
<1>8. lock' \in PublishRecord => lock'.by \in Publishers
    BY RecordKinds
<1> QED BY <1>6, <1>7, <1>8 DEF Claimed, IsBound

\* It holds of an exchange that nobody, or one publisher, has used.
LEMMA StartsInvariant == Init => PInv
<1> SUFFICES ASSUME Init PROVE PInv
    OBVIOUS
<1>1. PICK was \in SUBSET Earlier :
         /\ pc = [u \in Users |-> IF u \in Earlier THEN "done" ELSE "idle"]
         /\ revs = [r \in Revisions |->
                IF \E p \in was : RevisionOf[p] = r THEN CHOOSE p \in was : TRUE ELSE None]
         /\ bindings = [s \in Sources |->
                IF \E p \in was : SourceOf[RevisionOf[p]] = s
                THEN RevisionOf[CHOOSE p \in was : TRUE] ELSE None]
         /\ active = IF was = {} THEN None
                     ELSE LET p == CHOOSE p \in was : TRUE
                          IN  PointerOf([by |-> p, made |-> p])
    BY DEF Init
<1>2. /\ lock = None /\ retained = None
      /\ temp = [p \in Publishers |-> "none"]
      /\ mine = [p \in Publishers |-> None] /\ deaths = 0
      /\ spared = [c \in Collectors |-> {}]
      /\ removing = [c \in Collectors |-> None]
      /\ rpc = [v \in Recoverers |-> "idle"]
      /\ rec = [v \in Recoverers |-> None]
      /\ reader = [k \in Readers |-> Fresh]
    BY DEF Init
<1>3. was \subseteq Publishers /\ \A p, q \in was : p = q
    BY RevisionAssumption
<1> DEFINE first == CHOOSE p \in was : TRUE
<1>4. was # {} => first \in was
    OBVIOUS
<1>5. /\ revs = [r \in Revisions |-> IF \E p \in was : RevisionOf[p] = r THEN first ELSE None]
      /\ bindings = [s \in Sources |-> IF \E p \in was : SourceOf[RevisionOf[p]] = s
                                       THEN RevisionOf[first] ELSE None]
      /\ active = IF was = {} THEN None
                  ELSE [rev |-> RevisionOf[first], made |-> first, by |-> first]
    BY <1>1 DEF PointerOf
<1> HIDE DEF first
<1>6. was # {} => first \in Publishers /\ RevisionOf[first] \in Revisions
    BY <1>3, <1>4, Entries
<1>7. TypeOK
  <2>1. revs \in [Revisions -> Publishers \union {None, Torn, Empty}]
    BY <1>5, <1>6
  <2>2. bindings \in [Sources -> Revisions \union {None}]
    BY <1>5, <1>6
  <2>3. active \in Pointers \union {None}
    BY <1>5, <1>6 DEF Pointers
  <2>4. pc \in [Users -> {"idle", "done"}]
    BY <1>1
  <2>5. reader \in [Readers ->
         [at : {"idle", "manifest", "again", "vouch"},
          pointer : Pointers \union {None},
          read : Publishers \union Revisions \union {None}]]
    BY <1>2 DEF Fresh
  <2> QED BY <2>1, <2>2, <2>3, <2>4, <2>5, <1>2, DeathAssumption DEF TypeOK
<1>8. Held /\ Recorded /\ Sweeping /\ Reading
  <2>1. \A u \in Users : pc[u] \in {"idle", "done"}
    BY <1>1
  <2>2. lock \notin PublishRecord
    BY <1>2, RecordAssumption DEF Records
  <2>3. (\A p \in Publishers : p \in Users) /\ (\A c \in Collectors : c \in Users)
    BY Entries
  <2>4. Held
    BY <1>2, <2>1 DEF Held, OwnerKeepsLock, Acted
  <2>5. Recorded
    BY <1>2, <2>1, <2>2, <2>3 DEF Recorded, Kept, Claimed, Verified, Settling,
       AtWork
  <2>6. Sweeping /\ Reading
    BY <1>2, <2>1, <2>3 DEF Sweeping, Reading, Fresh
  <2> QED BY <2>4, <2>5, <2>6
<1>9. ActiveIsWhole
    BY <1>4, <1>5, <1>6 DEF ActiveIsWhole
<1>10. Bound
  <2>1. ASSUME NEW r \in Revisions, Whole(r) PROVE IsBound(r)
    <3>1. PICK p \in was : RevisionOf[p] = r
        BY <2>1, <1>5, Entries DEF Whole
    <3>2. first = p
        BY <1>3, <1>4, <3>1
    <3> QED BY <2>1, <3>1, <3>2, <1>5, Entries DEF IsBound
  <2> QED BY <2>1 DEF Bound
<1> QED BY <1>7, <1>8, <1>9, <1>10 DEF PInv

\* Every step keeps the invariant.
LEMMA StepKeepsInvariant == ASSUME Alone PROVE PInv /\ [Next]_vars => PInv'
<1> SUFFICES ASSUME PInv, [Next]_vars PROVE PInv'
    OBVIOUS
<1>1. TypeOK' /\ Held' /\ Sweeping' /\ Reading' /\ Bound' /\ ActiveIsWhole'
    BY TypeStep, HeldStep, SweepingStep, ReadingStep, BoundStep, ActiveStep
<1>2. Recorded'
    BY KeptStep, ClaimedStep, VerifiedStep, SettlingStep DEF Recorded
<1> QED BY <1>1, <1>2 DEF PInv

\* With one recoverer at a time, the inductive invariant holds in every state the
\* exchange reaches.
THEOREM Invariant == ASSUME Alone PROVE Spec => []PInv
    BY StartsInvariant, StepKeepsInvariant, PTL DEF Spec

\* With one recoverer at a time, the state of the exchange has its type.
THEOREM TypeCorrect == ASSUME Alone PROVE Spec => []TypeOK
<1>1. PInv => TypeOK
    BY DEF PInv
<1> QED BY <1>1, Invariant, PTL

\* OwnerKeepsLock, under Alone: of any number of publishers, collectors and crashes, and
\* one recoverer, a publisher or collector at work is the owner the lock names
\* (recoverPublication takes it from dead owners only).
THEOREM LockKept == ASSUME Alone PROVE Spec => []OwnerKeepsLock
<1>1. PInv => OwnerKeepsLock
    BY DEF PInv, Held
<1> QED BY <1>1, Invariant, PTL

\* ActiveIsWhole, under Alone: with at most one recoverer, active.json names a whole
\* revision with the manifest it names, whatever publishes, collects and stops around
\* it, the recoverer included. Two recoverers, which nothing in recoverPublication
\* keeps apart, break it.
THEOREM ActiveWhole == ASSUME Alone PROVE Spec => []ActiveIsWhole
<1>1. PInv => ActiveIsWhole
    BY DEF PInv
<1> QED BY <1>1, Invariant, PTL

\* OneRevisionPerSource, under Alone: with at most one recoverer, two revisions of one
\* source are never on disk together; the source's binding outlives every publication
\* of it.
THEOREM OneRevision == ASSUME Alone PROVE Spec => []OneRevisionPerSource
<1>1. PInv => OneRevisionPerSource
    BY DEF PInv, Bound, IsBound, OneRevisionPerSource
<1> QED BY <1>1, Invariant, PTL

\* ConsumedIsActive, under Alone: with at most one recoverer, readFitnessProjection
\* hands out what active.json names at that moment, and it is on disk.
THEOREM ConsumedActive == ASSUME Alone PROVE Spec => ConsumedIsActive
<1>1. ASSUME PInv, [Next]_vars, NEW k \in Readers, Serve(k)
      PROVE  active = reader[k].pointer /\ revs[active.rev] = reader[k].read
  <2>1. /\ active = reader[k].pointer /\ active \in Pointers
        /\ reader[k].read = active.made
    BY <1>1 DEF Serve, PointerStands, At, PInv, Reading
  <2> QED BY <2>1, <1>1, Entries DEF PInv, ActiveIsWhole
<1>2. PInv /\ [Next]_vars =>
        [\A k \in Readers : Serve(k) =>
            active = reader[k].pointer /\ revs[active.rev] = reader[k].read]_vars
    BY <1>1
<1> QED BY <1>2, Invariant, PTL DEF Spec, ConsumedIsActive
===============================================================================
