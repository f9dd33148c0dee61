-------------------------- MODULE StateStoreProofs --------------------------
(***************************************************************************)
(* Proofs about StateStore: the log of events only grows, a correction is  *)
(* applied to the view its preview showed, a baseline lies below every     *)
(* correction, every revision answers, and a re-answer has one claimant.   *)
(*                                                                         *)
(* None of these is inductive. A correction is applied to the view it was  *)
(* previewed against because a preview is the view of a revision of this   *)
(* very log (Viewed), views depend on the log's prefix only (ViewKept) and *)
(* the log grows; a claimant is alone because claims of one row are told   *)
(* apart by their attempt, and a claim in hand is current (ClaimedOnce).   *)
(***************************************************************************)
EXTENDS StateStore, TLAPS, FiniteSetTheorems

\* A view up to a revision depends on the events up to that revision only.
LEMMA ViewKept ==
    ASSUME NEW p \in Seq(Events), NEW q \in Seq(Events), NEW n \in Nat,
           n <= Len(p), n <= Len(q), \A i \in 1 .. n : p[i] = q[i]
    PROVE  ViewAt(p, n) = ViewAt(q, n)
<1> DEFINE last(log) ==
             {j \in 1 .. n : \A k \in j + 1 .. n : StateOf[log[k]] # StateOf[log[j]]}
<1>1. last(p) = last(q)
    OBVIOUS
<1>2. {p[i] : i \in last(p)} = {q[i] : i \in last(q)}
  <2>1. \A i \in last(p) : i \in 1 .. n
    OBVIOUS
  <2> HIDE DEF last
  <2>2. \A i \in last(p) : p[i] = q[i]
    BY <2>1
  <2> QED BY <1>1, <2>2
<1> QED BY <1>2 DEF ViewAt

\* A log that holds no event twice is no longer than there are events.
LEMMA LogBounded ==
    ASSUME NEW p \in Seq(Events), IsInjective(p)
    PROVE  Cardinality(Events) \in Nat /\ Len(p) <= Cardinality(Events)
<1>1. IsFiniteSet(Events)
    BY EventAssumption
<1>2. p \in [1 .. Len(p) -> Events]
    OBVIOUS
<1>3. p \in Injection(1 .. Len(p), Events)
    BY <1>2 DEF Injection
<1>4. Cardinality(1 .. Len(p)) <= Cardinality(Events)
    BY <1>1, <1>3, FS_Injection
<1>5. Cardinality(1 .. Len(p)) = Len(p)
  <2>1. Len(p) \in Nat
    OBVIOUS
  <2>2. Cardinality(1 .. Len(p)) = IF 1 > Len(p) THEN 0 ELSE Len(p) - 1 + 1
    BY <2>1, FS_Interval
  <2> QED BY <2>1, <2>2
<1> QED BY <1>1, <1>4, <1>5, FS_CardinalityType

\* The view of a log at one of its revisions is a view of that revision.
LEMMA ViewTyped ==
    ASSUME NEW p \in Seq(Events), IsInjective(p), NEW n \in 0 .. Len(p)
    PROVE  ViewAt(p, n) \in Views /\ ViewAt(p, n).rev = n
<1>1. n \in 0 .. Cardinality(Events)
    BY LogBounded
<1>2. {p[i] : i \in {j \in 1 .. n :
              \A k \in j + 1 .. n : StateOf[p[k]] # StateOf[p[j]]}} \subseteq Events
    OBVIOUS
<1> QED BY <1>1, <1>2 DEF ViewAt, Views

\* Appending an event the log does not hold keeps it without repetition.
LEMMA Appended ==
    ASSUME NEW p \in Seq(Events), IsInjective(p), NEW e \in Events, e \notin Range(p)
    PROVE  /\ Append(p, e) \in Seq(Events) /\ IsInjective(Append(p, e))
           /\ Len(Append(p, e)) = Len(p) + 1
           /\ \A i \in 1 .. Len(p) : Append(p, e)[i] = p[i]
           /\ Range(Append(p, e)) = Range(p) \union {e}
<1> DEFINE q == Append(p, e)
<1>1. /\ q \in Seq(Events) /\ Len(q) = Len(p) + 1 /\ q[Len(p) + 1] = e
      /\ \A i \in 1 .. Len(p) : q[i] = p[i]
      /\ DOMAIN q = 1 .. Len(p) + 1 /\ DOMAIN p = 1 .. Len(p)
    OBVIOUS
<1> HIDE DEF q
<1>2. Range(q) = Range(p) \union {e}
  <2>1. \A x \in Range(q) : x \in Range(p) \union {e}
    BY <1>1 DEF Range
  <2>2. e \in Range(q)
    BY <1>1 DEF Range
  <2>3. \A x \in Range(p) : x \in Range(q)
    BY <1>1 DEF Range
  <2> QED BY <2>1, <2>2, <2>3
<1>3. IsInjective(q)
  <2>1. \A i \in 1 .. Len(p) : p[i] # e
    BY <1>1 DEF Range
  <2> QED BY <1>1, <2>1 DEF IsInjective
<1> QED BY <1>1, <1>2, <1>3 DEF q

\* A log is a prefix of another when it agrees with it along its length.
LEMMA PrefixAt ==
    ASSUME NEW s \in Seq(Events), NEW t \in Seq(Events)
    PROVE  IsPrefix(s, t) <=> Len(s) <= Len(t) /\ \A i \in 1 .. Len(s) : s[i] = t[i]
    BY DEF IsPrefix

\* state_events and its companions change together: the log holds no event
\* twice, and a correction has a row exactly when its event is in the log.
Log ==
    /\ IsInjective(events)
    /\ \A c \in Corrections : outbox[c] # NoRow <=> c \in Range(events)
    /\ DOMAIN shown = Range(events)

\* Either no revision has an activation record, and then nothing was ever planned
\* or imported, or every one up to the head has; and a preview is the view of a
\* revision the log still has, unchanged by what was appended since.
Viewed ==
    /\ history \in {{}, 0 .. ActiveSeq}
    /\ history = {} => /\ events = <<>>
                       /\ \A c \in Corrections : preview[c] = Unplanned
                       /\ \A m \in Baseline : manifest[m] = Unplanned
    /\ \A c \in Corrections :
        /\ client[c] # "idle" => preview[c] # Unplanned
        /\ preview[c] # Unplanned =>
              /\ preview[c].rev \in 0 .. ActiveSeq
              /\ preview[c] = ViewAt(events, preview[c].rev)

\* A claim is of an existing row and of no later attempt than the row counts; an
\* attempt is claimed once; a claim still in hand is the row's current one, and a
\* completed one was the row's last.
ClaimedOnce ==
    /\ \A k \in claims :
          /\ outbox[k.of] # NoRow /\ k.attempt <= outbox[k.of].attempts
          /\ k.run # PriorRun[k.of]
    /\ \A j, k \in claims : j.of = k.of /\ j.attempt = k.attempt => j = k
    /\ \A k \in held : Current(k)
    /\ \A k \in done :
          outbox[k.of].status = "completed" /\ k.attempt = outbox[k.of].attempts

\* The inductive invariant.
SInv ==
    /\ StTypeOK /\ Log /\ Viewed /\ ClaimedOnce
    /\ AppliedToPreviewedView /\ BaselineIsFirst

\* It holds when there is no database yet.
LEMMA StartsInvariant == StInit => SInv
<1> SUFFICES ASSUME StInit PROVE SInv
    OBVIOUS
<1> USE DEF StInit
<1>0. Cardinality(Events) \in Nat
    BY EventAssumption, FS_CardinalityType
<1>2. /\ Range(events) = {} /\ IsInjective(events) /\ DOMAIN shown = {}
      /\ Len(events) = 0
    BY DEF Range, IsInjective
<1>1. StTypeOK
  <2>1. events \in Seq(Events) /\ ActiveSeq <= Cardinality(Events)
    BY <1>0, <1>2 DEF ActiveSeq
  <2>2. /\ preview \in [Corrections -> Views \union {Unplanned}]
        /\ manifest \in [Baseline -> Views \union {Unplanned}]
    OBVIOUS
  <2>3. outbox \in [Corrections -> Row \union {NoRow}]
    OBVIOUS
  <2>4. client \in [Corrections -> {"idle", "compare", "commit", "repeat", "done"}]
    OBVIOUS
  <2> QED BY <2>1, <2>2, <2>3, <2>4, <1>2 DEF StTypeOK
<1>3. Log /\ AppliedToPreviewedView
    BY <1>2 DEF Log, AppliedToPreviewedView
<1>4. Viewed /\ ClaimedOnce /\ BaselineIsFirst
    BY DEF Viewed, ClaimedOnce, BaselineIsFirst
<1> QED BY <1>1, <1>3, <1>4 DEF SInv

\* The head is above what was imported.
LEMMA ImportedBelow ==
    ASSUME SInv, NEW m \in imports
    PROVE  Len(ImportLog[m]) \in Nat /\ ActiveSeq >= Len(ImportLog[m])
<1>1. /\ ImportLog[m] \in Seq(Events) /\ events \in Seq(Events)
      /\ IsPrefix(ImportLog[m], events)
    BY EventAssumption DEF SInv, StTypeOK, BaselineIsFirst, Events
<1>2. Len(ImportLog[m]) <= Len(events) /\ Len(events) \in Nat /\ Len(ImportLog[m]) \in Nat
    BY ONLY <1>1, PrefixAt
<1> QED BY <1>2 DEF ActiveSeq

\* A step that touches neither the log nor the rows and claims keeps it, when a
\* client gets past idle only with a preview, and a new preview is the current view.
LEMMA LogStays ==
    ASSUME SInv, StNext,
           UNCHANGED <<events, history, imports, outbox, reanswers, shown>>,
           served' \subseteq served \union {ActiveSeq},
           StTypeOK', manifest' # manifest => history # {},
           \A c \in Corrections :
              /\ client'[c] # "idle" => preview'[c] # Unplanned
              /\ preview'[c] = preview[c] \/ (Viewable /\ preview'[c] = View)
    PROVE  SInv'
<1> USE DEF SInv, reanswers
<1>1. Log' /\ AppliedToPreviewedView' /\ BaselineIsFirst' /\ ClaimedOnce'
  <2>1. Log' /\ AppliedToPreviewedView' /\ ClaimedOnce'
    BY DEF Log, AppliedToPreviewedView, ClaimedOnce, Current
  <2>2. ASSUME NEW n \in served', NEW m \in imports
        PROVE  n >= Len(ImportLog[m])
    BY <2>2, ImportedBelow DEF BaselineIsFirst
  <2> QED BY <2>1, <2>2 DEF BaselineIsFirst
<1>2. Viewed'
  <2>1. ActiveSeq \in Nat /\ ActiveSeq' = ActiveSeq
    BY DEF StTypeOK, ActiveSeq
  <2>2. history' \in {{}, 0 .. ActiveSeq'}
    BY <2>1 DEF Viewed
  <2>3. ASSUME NEW c \in Corrections
        PROVE  /\ preview'[c] # Unplanned =>
                    /\ preview'[c].rev \in 0 .. ActiveSeq
                    /\ preview'[c] = ViewAt(events, preview'[c].rev)
               /\ history = {} => preview'[c] = Unplanned
    <3>1. CASE preview'[c] = preview[c]
        BY <3>1 DEF Viewed
    <3>2. CASE Viewable /\ preview'[c] = View
        BY <3>2, <2>1 DEF Viewable, View, ViewAt
    <3> QED BY <3>1, <3>2
  <2>4. history = {} => manifest' = manifest
    OBVIOUS
  <2> QED BY <2>1, <2>2, <2>3, <2>4 DEF Viewed
<1> QED BY <1>1, <1>2

\* The current view is one of the head's revision.
LEMMA CurrentViewTyped ==
    ASSUME SInv
    PROVE  /\ events \in Seq(Events) /\ ActiveSeq \in Nat /\ IsInjective(events)
           /\ Cardinality(Events) \in Nat
           /\ View \in Views /\ View.rev = ActiveSeq
<1>1. events \in Seq(Events) /\ IsInjective(events)
    BY DEF SInv, StTypeOK, Log
<1>2. Len(events) \in Nat /\ Len(events) \in 0 .. Len(events)
    BY <1>1
<1> QED BY <1>1, <1>2, LogBounded, ViewTyped DEF View, ActiveSeq

\* The steps that move neither the head nor a row.
LEMMA HeadStays ==
    ASSUME SInv, StNext,
           \/ Initialize \/ InitializerStops \/ CreateFile \/ Migrate \/ InsertHead
           \/ ServeRun
           \/ \E m \in Baseline : PrepareImport(m)
           \/ \E c \in Corrections :
                  \/ PlanCorrection(c) \/ ApplyLook(c) \/ ApplyCompare(c)
                  \/ RefuseCorrection(c) \/ RepeatCorrection(c) \/ ClientStops(c)
    PROVE  SInv'
<1> USE CurrentViewTyped DEF database, contents, local, reanswers
<1>t. StTypeOK
    BY DEF SInv
<1>v. \A c \in Corrections : client[c] # "idle" => preview[c] # Unplanned
    BY DEF SInv, Viewed
<1>1. CASE \/ Initialize \/ InitializerStops \/ CreateFile \/ Migrate \/ InsertHead
           \/ ServeRun
  <2>1. /\ UNCHANGED <<events, history, imports, outbox, reanswers, shown, local>>
        /\ creator' \in BOOLEAN /\ served' \subseteq served \union {ActiveSeq}
        /\ phase' \in {"absent", "bare", "tables", "ready"}
    BY <1>1, <1>t DEF StTypeOK, Initialize, InitializerStops, CreateFile,
       Migrate, InsertHead, ServeRun
  <2>2. StTypeOK'
    BY <2>1, <1>t DEF StTypeOK, ActiveSeq
  <2> QED BY <2>1, <2>2, <1>v, LogStays
<1>2. ASSUME NEW m \in Baseline, PrepareImport(m) PROVE SInv'
  <2>1. /\ UNCHANGED <<events, history, imports, outbox, reanswers, shown, creator,
                      served, phase, client, preview>>
        /\ Viewable /\ manifest' = [manifest EXCEPT ![m] = View]
    BY <1>2 DEF PrepareImport
  <2>2. StTypeOK'
    BY <2>1, <1>t DEF StTypeOK, ActiveSeq
  <2> QED BY <2>1, <2>2, <1>v, LogStays DEF Viewable
<1>3. ASSUME NEW c \in Corrections, PlanCorrection(c) PROVE SInv'
  <2>1. /\ UNCHANGED <<events, history, imports, outbox, reanswers, shown, creator,
                      served, phase, client, manifest>>
        /\ Viewable /\ preview' = [preview EXCEPT ![c] = View]
    BY <1>3 DEF PlanCorrection
  <2>2. StTypeOK'
    BY <2>1, <1>t DEF StTypeOK, ActiveSeq
  <2>3. View # Unplanned
    BY DEF Unplanned
  <2>4. \A d \in Corrections : preview'[d] = IF d = c THEN View ELSE preview[d]
    BY <2>1, <1>t DEF StTypeOK
  <2> QED BY <2>1, <2>2, <2>3, <2>4, <1>v, LogStays
<1>4. ASSUME NEW c \in Corrections,
             \/ ApplyLook(c) \/ ApplyCompare(c)
             \/ RefuseCorrection(c) \/ RepeatCorrection(c) \/ ClientStops(c)
      PROVE  SInv'
  <2>1. /\ UNCHANGED <<events, history, imports, outbox, reanswers, shown, creator,
                      served, phase, preview, manifest>>
        /\ \E at \in {"idle", "compare", "commit", "repeat", "done"} :
              /\ client' = [client EXCEPT ![c] = at]
              /\ at # "idle" => preview[c] # Unplanned
    BY <1>4, <1>v DEF ApplyLook, ApplyCompare, RefuseCorrection,
       RepeatCorrection, ClientStops
  <2>2. StTypeOK'
    BY <2>1, <1>t DEF StTypeOK, ActiveSeq
  <2>3. \A d \in Corrections : client'[d] # "idle" => preview'[d] # Unplanned
    BY <2>1, <1>t, <1>v DEF StTypeOK
  <2> QED BY <2>1, <2>2, <2>3, LogStays
<1> QED BY <1>1, <1>2, <1>3, <1>4

\* InsertInitialHistory records revision 0, even of a database that has moved on.
LEMMA InitialHistory ==
    ASSUME SInv, InsertInitialHistory
    PROVE  SInv'
<1> USE CurrentViewTyped DEF local, reanswers, InsertInitialHistory, ActiveSeq
<1>1. history \in {{}, 0 .. ActiveSeq} /\ (history = {} => events = <<>>)
    BY DEF SInv, Viewed
<1>2. history' = 0 .. ActiveSeq
    BY <1>1
<1>3. StTypeOK'
    BY <1>2 DEF SInv, StTypeOK
<1>4. 0 \in history'
    BY <1>2
<1>5. Viewed'
    BY <1>2, <1>4 DEF SInv, Viewed
<1> QED BY <1>3, <1>5 DEF SInv, Log, ClaimedOnce, Current,
       AppliedToPreviewedView, BaselineIsFirst

\* ImportBaseline replaces an empty log: whatever was previewed was the empty view,
\* whatever was imported was empty.
LEMMA Import ==
    ASSUME SInv, NEW m \in Baseline, ImportBaseline(m)
    PROVE  SInv'
<1> USE DEF local, reanswers
<1>1. /\ events = <<>> /\ ActiveSeq = 0 /\ history = 0 .. 0 /\ manifest[m] # Unplanned
      /\ \A c \in Corrections : outbox[c] = NoRow
      /\ \A n \in imports : Len(ImportLog[n]) = 0
  <2>1. events = <<>> /\ ActiveSeq = 0
    BY CurrentViewTyped DEF ImportBaseline, ActiveSeq
  <2>2. history = 0 .. 0 /\ manifest[m] # Unplanned
    BY <2>1 DEF ImportBaseline, SInv, Viewed
  <2>3. Range(events) = {}
    BY <2>1 DEF Range
  <2>4. \A c \in Corrections : outbox[c] = NoRow
    BY <2>3 DEF SInv, Log
  <2>5. \A n \in imports :
          /\ n \in Baseline /\ ImportLog[n] \in Seq(Events)
          /\ IsPrefix(ImportLog[n], events)
    BY EventAssumption DEF SInv, StTypeOK, BaselineIsFirst, Events
  <2>6. ASSUME NEW n \in imports PROVE Len(ImportLog[n]) = 0
    <3>1. events \in Seq(Events) /\ Len(events) = 0
        BY <2>1, CurrentViewTyped DEF ActiveSeq
    <3>2. Len(ImportLog[n]) \in Nat /\ Len(ImportLog[n]) <= Len(events)
      <4>1. ImportLog[n] \in Seq(Events) /\ IsPrefix(ImportLog[n], events)
        BY <2>5
      <4>2. Len(ImportLog[n]) <= Len(events)
        BY ONLY <4>1, <3>1, PrefixAt
      <4>3. Len(ImportLog[n]) \in Nat
        BY ONLY <4>1
      <4> QED BY <4>2, <4>3
    <3> QED BY <3>1, <3>2
  <2> QED BY <2>1, <2>2, <2>4, <2>6
<1>2. /\ events' \in Seq(Events) /\ IsInjective(events')
      /\ Range(events') \subseteq Imported
      /\ ActiveSeq' \in Nat /\ ActiveSeq' = Len(ImportLog[m])
      /\ events' = ImportLog[m]
      /\ ActiveSeq' <= Cardinality(Events)
  <2>1. events' = ImportLog[m] /\ events' \in Seq(Imported) /\ IsInjective(events')
    BY EventAssumption DEF ImportBaseline
  <2>2. /\ events' \in Seq(Events) /\ Range(events') \subseteq Imported
        /\ Len(events') \in Nat
    BY <2>1 DEF Events, Range
  <2> QED BY <2>1, <2>2, LogBounded DEF ActiveSeq
<1>3. history' = 0 .. ActiveSeq'
    BY <1>1, <1>2 DEF ImportBaseline
<1>4. /\ UNCHANGED <<creator, phase, served, outbox, local, reanswers>>
      /\ imports' = imports \union {m}
    BY DEF ImportBaseline
<1>5. /\ DOMAIN shown' = Range(events')
      /\ \A e \in DOMAIN shown' : e \in Events /\ shown'[e] \in Views
  <2>1. shown' = [e \in Range(events') |-> View]
    BY <1>2 DEF ImportBaseline
  <2> QED BY <2>1, <1>2, CurrentViewTyped DEF Events
<1>6. StTypeOK'
  <2>1. StTypeOK
    BY DEF SInv
  <2>2. served' = {}
    BY <1>4 DEF ImportBaseline
  <2> QED BY <2>1, <2>2, <1>2, <1>3, <1>4, <1>5 DEF StTypeOK
<1>7. Log'
    BY <1>1, <1>2, <1>4, <1>5, EventAssumption DEF Log
<1>8. Viewed'
  <2>1. ASSUME NEW c \in Corrections, preview[c] # Unplanned
        PROVE  /\ preview[c].rev \in 0 .. ActiveSeq'
               /\ preview[c] = ViewAt(events', preview[c].rev)
    <3>1. preview[c].rev = 0 /\ preview[c] = ViewAt(events, 0)
        BY <2>1, <1>1 DEF SInv, Viewed
    <3>2. events \in Seq(Events) /\ Len(events) = 0
        BY <1>1, CurrentViewTyped DEF ActiveSeq
    <3>3. ViewAt(events, 0) = ViewAt(events', 0)
      <4>1. /\ 0 <= Len(events) /\ 0 <= Len(events') /\ events' \in Seq(Events)
            /\ \A i \in 1 .. 0 : events[i] = events'[i]
        BY <3>2, <1>2 DEF ActiveSeq
      <4> DEFINE q == events'
      <4> HIDE DEF q
      <4>2. 0 \in Nat /\ events \in Seq(Events) /\ q \in Seq(Events)
        BY <3>2, <4>1 DEF q
      <4>3. ViewAt(events, 0) = ViewAt(q, 0)
        BY ONLY <4>1, <4>2, ViewKept DEF q
      <4> QED BY <4>3 DEF q
    <3> QED BY <3>1, <3>3, <1>2
  <2>2. \A c \in Corrections : client[c] # "idle" => preview[c] # Unplanned
    BY DEF SInv, Viewed
  <2>3. history' # {}
    BY <1>2, <1>3
  <2> QED BY <2>1, <2>2, <2>3, <1>3, <1>4 DEF Viewed
<1>9. ClaimedOnce' /\ AppliedToPreviewedView'
    BY <1>1, <1>4 DEF SInv, ClaimedOnce, Current, AppliedToPreviewedView
<1>10. BaselineIsFirst'
  <2>1. ASSUME NEW n \in imports'
        PROVE  IsPrefix(ImportLog[n], events')
    <3>1. n \in Baseline /\ ImportLog[n] \in Seq(Events)
        BY <1>4, EventAssumption DEF SInv, StTypeOK, Events
    <3>2. CASE n = m
        BY <3>1, <3>2, <1>2, PrefixAt
    <3>3. CASE n \in imports
        BY <3>1, <3>3, <1>1, <1>2, PrefixAt DEF ActiveSeq
    <3> QED BY <1>4, <3>2, <3>3
  <2>2. served' = {}
    BY <1>4 DEF ImportBaseline
  <2> QED BY <2>1, <2>2, <1>1, <1>4 DEF BaselineIsFirst
<1> QED BY <1>6, <1>7, <1>8, <1>9, <1>10 DEF SInv

\* CommitCorrection: the head the preview counts on is still there, so that the
\* preview, a view of that revision of this very log, is the current view.
LEMMA Commit ==
    ASSUME SInv, NEW c \in Corrections, CommitCorrection(c)
    PROVE  SInv'
<1>1. /\ UNCHANGED <<creator, phase, imports, served, preview, manifest, reanswers>>
      /\ events' = Append(events, c) /\ history' = history \union {ActiveSeq + 1}
      /\ client[c] # "idle" /\ client' = [client EXCEPT ![c] = "done"]
      /\ outbox[c] = NoRow /\ ActiveSeq = preview[c].rev
    BY DEF CommitCorrection, HeadUnmoved
<1>2. /\ events \in Seq(Events) /\ IsInjective(events) /\ ActiveSeq \in Nat
      /\ View \in Views /\ View.rev = ActiveSeq
    BY CurrentViewTyped
<1>3. preview[c] = View /\ history = 0 .. ActiveSeq
  <2>1. preview[c] # Unplanned
    BY <1>1 DEF SInv, Viewed
  <2>2. preview[c] = ViewAt(events, ActiveSeq)
    BY <1>1, <2>1 DEF SInv, Viewed
  <2>3. history # {}
    BY <2>1 DEF SInv, Viewed
  <2> QED BY <2>2, <2>3 DEF View, SInv, Viewed
<1>4. c \in Events /\ c \notin Range(events)
    BY <1>1 DEF SInv, Log, Events
<1>5. /\ events' \in Seq(Events) /\ IsInjective(events')
      /\ ActiveSeq' = ActiveSeq + 1 /\ ActiveSeq' \in Nat
      /\ \A i \in 1 .. ActiveSeq : events'[i] = events[i]
      /\ Range(events') = Range(events) \union {c}
  <2>1. /\ Append(events, c) \in Seq(Events) /\ IsInjective(Append(events, c))
        /\ Len(Append(events, c)) = Len(events) + 1
        /\ \A i \in 1 .. Len(events) : Append(events, c)[i] = events[i]
        /\ Range(Append(events, c)) = Range(events) \union {c}
    BY ONLY <1>2, <1>4, Appended
  <2> QED BY <2>1, <1>1, <1>2 DEF ActiveSeq
<1>6. ActiveSeq' <= Cardinality(Events)
    BY <1>5, LogBounded DEF ActiveSeq
<1> DEFINE row == [status |-> "pending", attempts |-> 0, run |-> NoRow,
                   confirmed |-> preview[c]]
<1>7. outbox' = [outbox EXCEPT ![c] = row]
    BY DEF CommitCorrection
<1>8. /\ row \in Row /\ row.status = "pending" /\ row.confirmed = View
      /\ row.attempts = 0
    BY <1>2, <1>3, AttemptAssumption DEF Row
<1>9. row # NoRow
    BY <1>8, RowAssumption
<1> HIDE DEF row
<1>10. /\ outbox' \in [Corrections -> Row \union {NoRow}]
       /\ outbox'[c] # NoRow /\ outbox'[c].confirmed = View
       /\ \A d \in Corrections : d # c => outbox'[d] = outbox[d]
    BY <1>7, <1>8, <1>9 DEF SInv, StTypeOK
<1>11. /\ DOMAIN shown' = DOMAIN shown \union {c}
       /\ \A e \in DOMAIN shown' : shown'[e] = IF e \in DOMAIN shown THEN shown[e] ELSE View
    BY DEF CommitCorrection
<1>12. c \notin DOMAIN shown
    BY <1>4 DEF SInv, Log
<1>13. history' = 0 .. ActiveSeq'
    BY <1>1, <1>2, <1>3, <1>5
<1>14. StTypeOK'
  <2>1. StTypeOK
    BY DEF SInv
  <2>2. \A e \in DOMAIN shown' : e \in Events /\ shown'[e] \in Views
    BY <2>1, <1>2, <1>4, <1>11 DEF StTypeOK
  <2>3. client' \in [Corrections -> {"idle", "compare", "commit", "repeat", "done"}]
    BY <2>1, <1>1 DEF StTypeOK
  <2>4. served' \subseteq 0 .. ActiveSeq'
    <3>1. served' \subseteq 0 .. ActiveSeq
        BY <2>1, <1>1 DEF StTypeOK
    <3> QED BY <3>1, <1>2, <1>5
  <2> QED BY <2>1, <2>2, <2>3, <2>4, <1>1, <1>5, <1>6, <1>10, <1>13 DEF StTypeOK,
         reanswers
<1>15. Log'
    BY <1>5, <1>10, <1>11 DEF SInv, Log
<1>16. Viewed'
  <2>1. ASSUME NEW d \in Corrections, preview[d] # Unplanned
        PROVE  /\ preview[d].rev \in 0 .. ActiveSeq'
               /\ preview[d] = ViewAt(events', preview[d].rev)
    <3> DEFINE n == preview[d].rev
               q == events'
    <3>1. n \in 0 .. ActiveSeq /\ preview[d] = ViewAt(events, n)
        BY <2>1 DEF SInv, Viewed
    <3>2. /\ n \in Nat /\ n <= Len(events) /\ n <= Len(q) /\ q \in Seq(Events)
          /\ \A i \in 1 .. n : events[i] = q[i]
        BY <3>1, <1>2, <1>5 DEF ActiveSeq
    <3> HIDE DEF n, q
    <3>3. ViewAt(events, n) = ViewAt(q, n)
        BY ONLY <1>2, <3>2, ViewKept
    <3> QED BY <3>1, <3>3, <1>2, <1>5 DEF n, q
  <2>2. \A d \in Corrections : client'[d] # "idle" => preview[d] # Unplanned
    BY <1>1 DEF SInv, StTypeOK, Viewed
  <2>3. history' # {}
    BY <1>5, <1>13
  <2> QED BY <2>1, <2>2, <2>3, <1>1, <1>13 DEF Viewed
<1>17. ClaimedOnce'
  <2>1. \A k \in claims : k.of \in Corrections /\ k.of # c
    BY <1>1 DEF SInv, StTypeOK, ClaimedOnce, Claim
  <2>2. held \subseteq claims /\ done \subseteq claims
    BY DEF SInv, StTypeOK
  <2> QED BY <2>1, <2>2, <1>1, <1>10 DEF SInv, ClaimedOnce, Current, reanswers
<1>18. AppliedToPreviewedView'
  <2>1. ASSUME NEW d \in Corrections, outbox'[d] # NoRow
        PROVE  shown'[d] = outbox'[d].confirmed
    <3>1. CASE d = c
        BY <3>1, <1>10, <1>11, <1>12
    <3>2. CASE d # c
      <4>1. outbox[d] # NoRow /\ d \in DOMAIN shown
        BY <3>2, <2>1, <1>10 DEF SInv, Log
      <4> QED BY <3>2, <4>1, <1>10, <1>11 DEF SInv, AppliedToPreviewedView
    <3> QED BY <3>1, <3>2
  <2> QED BY <2>1 DEF AppliedToPreviewedView
<1>19. BaselineIsFirst'
  <2>1. ASSUME NEW m \in imports
        PROVE  /\ IsPrefix(ImportLog[m], events') /\ Len(ImportLog[m]) <= ActiveSeq
    <3> DEFINE q == events'
               p == ImportLog[m]
    <3>1. p \in Seq(Events) /\ IsPrefix(p, events)
        BY EventAssumption DEF SInv, StTypeOK, BaselineIsFirst, Events
    <3>2. /\ q \in Seq(Events) /\ Len(q) = Len(events) + 1
          /\ \A i \in 1 .. Len(events) : q[i] = events[i]
        BY <1>5 DEF ActiveSeq
    <3> HIDE DEF p, q
    <3>3. Len(p) <= Len(events) /\ \A i \in 1 .. Len(p) : p[i] = events[i]
        BY ONLY <1>2, <3>1, PrefixAt
    <3>4. Len(p) <= Len(q) /\ \A i \in 1 .. Len(p) : p[i] = q[i]
        BY ONLY <1>2, <3>1, <3>2, <3>3
    <3>5. IsPrefix(p, q)
        BY ONLY <3>1, <3>2, <3>4, PrefixAt
    <3> QED BY <3>3, <3>5 DEF p, q, ActiveSeq
  <2>2. ASSUME NEW d \in Corrections, NEW m \in imports, outbox'[d] # NoRow
        PROVE  outbox'[d].confirmed.rev >= Len(ImportLog[m])
    <3>1. CASE d = c
      <4>1. ImportLog[m] \in Seq(Events)
        BY EventAssumption DEF SInv, StTypeOK, Events
      <4>2. Len(ImportLog[m]) \in Nat
        BY ONLY <4>1
      <4> QED BY <3>1, <2>1, <1>2, <1>10, <4>2
    <3>2. CASE d # c
        BY <3>2, <2>2, <1>10 DEF SInv, BaselineIsFirst
    <3> QED BY <3>1, <3>2
  <2>3. \A n \in served', m \in imports' : n >= Len(ImportLog[m])
    BY <1>1 DEF SInv, BaselineIsFirst
  <2> QED BY <2>1, <2>2, <2>3, <1>1 DEF BaselineIsFirst
<1> QED BY <1>14, <1>15, <1>16, <1>17, <1>18, <1>19 DEF SInv

\* ClaimReanswer: the row was pending, so no claim of it was in hand or completed.
LEMMA Claiming ==
    ASSUME SInv, NEW c \in Corrections, NEW r \in Runs, ClaimReanswer(c, r)
    PROVE  SInv'
<1> DEFINE k == [of |-> c, run |-> r, attempt |-> outbox[c].attempts + 1]
<1>1. /\ UNCHANGED <<creator, phase, events, history, imports, served, local, done, shown>>
      /\ outbox' = [outbox EXCEPT ![c].status = "in_flight",
                                  ![c].attempts = k.attempt, ![c].run = r]
      /\ claims' = claims \union {k} /\ held' = held \union {k}
      /\ outbox[c] # NoRow /\ outbox[c].status = "pending" /\ PriorRun[c] # r
      /\ outbox[c].attempts < MaxAttempts
    BY DEF ClaimReanswer
<1>2. outbox[c] \in Row /\ outbox \in [Corrections -> Row \union {NoRow}]
    BY <1>1 DEF SInv, StTypeOK
<1>3. /\ outbox' \in [Corrections -> Row \union {NoRow}]
      /\ outbox'[c] \in Row /\ outbox'[c] # NoRow
      /\ outbox'[c].status = "in_flight" /\ outbox'[c].attempts = k.attempt
      /\ outbox'[c].run = r
      /\ outbox'[c].confirmed = outbox[c].confirmed
      /\ \A d \in Corrections : d # c => outbox'[d] = outbox[d]
  <2> DEFINE row == [outbox[c] EXCEPT !.status = "in_flight", !.run = r,
                                      !.attempts = outbox[c].attempts + 1]
  <2>1. outbox' = [outbox EXCEPT ![c] = row]
    BY <1>1, <1>2
  <2>2. /\ row \in Row /\ row.status = "in_flight" /\ row.attempts = k.attempt
        /\ row.run = r
        /\ row.confirmed = outbox[c].confirmed
    BY <1>1, <1>2, AttemptAssumption DEF Row
  <2>3. row # NoRow
    BY <2>2, RowAssumption
  <2> HIDE DEF row
  <2> QED BY <2>1, <2>2, <2>3, <1>2
<1>4. /\ k \in Claim /\ k.of = c /\ k.run = r /\ k.attempt = outbox[c].attempts + 1
      /\ outbox[c].attempts \in Nat
    BY <1>1, <1>2 DEF Row, Claim
<1> HIDE DEF k
<1>5. StTypeOK'
    BY <1>1, <1>3, <1>4 DEF SInv, StTypeOK, ActiveSeq, local
<1>6. \A d \in Corrections : /\ (outbox'[d] # NoRow) = (outbox[d] # NoRow)
                             /\ outbox[d] # NoRow => outbox'[d].confirmed = outbox[d].confirmed
    BY <1>1, <1>3
<1>7. Log' /\ AppliedToPreviewedView' /\ BaselineIsFirst'
    BY <1>1, <1>6 DEF SInv, Log, AppliedToPreviewedView, BaselineIsFirst
<1>8. Viewed'
    BY <1>1 DEF SInv, Viewed, ActiveSeq, local
<1>9. ClaimedOnce'
  <2>1. \A j \in claims :
          /\ j \in Claim
          /\ j.of = c => j.attempt <= outbox[c].attempts /\ j.attempt \in Nat
    BY DEF SInv, StTypeOK, ClaimedOnce, Claim
  <2>2. \A j \in claims' :
            /\ outbox'[j.of] # NoRow /\ j.attempt <= outbox'[j.of].attempts
            /\ j.run # PriorRun[j.of]
    <3>1. ASSUME NEW j \in claims
          PROVE  /\ outbox'[j.of] # NoRow /\ j.attempt <= outbox'[j.of].attempts
                 /\ j.run # PriorRun[j.of]
      <4>1. /\ j.of \in Corrections /\ outbox[j.of] # NoRow
            /\ j.attempt <= outbox[j.of].attempts
            /\ j.run # PriorRun[j.of] /\ j.attempt \in Nat
        BY DEF SInv, StTypeOK, ClaimedOnce, Claim
      <4>2. CASE j.of = c
        BY <4>1, <4>2, <1>3, <1>4
      <4>3. CASE j.of # c
        BY <4>1, <4>3, <1>3
      <4> QED BY <4>2, <4>3
    <3>2. /\ outbox'[k.of] # NoRow /\ k.attempt <= outbox'[k.of].attempts
          /\ k.run # PriorRun[k.of]
        BY <1>1, <1>3, <1>4
    <3> QED BY <3>1, <3>2, <1>1
  <2>3. \A i, j \in claims' : i.of = j.of /\ i.attempt = j.attempt => i = j
    BY <2>1, <1>1, <1>4 DEF SInv, ClaimedOnce
  <2>4. \A j \in held' : Current(j)'
    <3>1. \A j \in held : j.of # c /\ j.of \in Corrections /\ Current(j)
        BY <1>1 DEF SInv, StTypeOK, ClaimedOnce, Current, Claim
    <3> QED BY <3>1, <1>1, <1>3, <1>4 DEF Current
  <2>5. \A j \in done' :
          outbox'[j.of].status = "completed" /\ j.attempt = outbox'[j.of].attempts
    <3>1. \A j \in done : j.of # c /\ j.of \in Corrections
        BY <1>1 DEF SInv, StTypeOK, ClaimedOnce, Claim
    <3> QED BY <3>1, <1>1, <1>3 DEF SInv, ClaimedOnce
  <2> QED BY <2>2, <2>3, <2>4, <2>5 DEF ClaimedOnce
<1> QED BY <1>5, <1>7, <1>8, <1>9 DEF SInv

\* CompleteClaim and ReleaseClaim: a claim that is not current changes no row, and a
\* current one is the only one in hand of its row.
LEMMA Ending ==
    ASSUME SInv, NEW k \in claims, CompleteClaim(k) \/ ReleaseClaim(k)
    PROVE  SInv'
<1>1. /\ UNCHANGED <<creator, phase, events, history, imports, served, local, claims, shown>>
      /\ held' = held \ {k}
      /\ k \in Claim /\ k.of \in Corrections
    BY DEF CompleteClaim, ReleaseClaim, SInv, StTypeOK, Claim
<1> DEFINE c == k.of
<1>2. CASE ~Current(k)
  <2>1. UNCHANGED <<outbox, done>> /\ held' \subseteq held
    BY <1>1, <1>2 DEF CompleteClaim, ReleaseClaim
  <2> QED BY <1>1, <2>1 DEF SInv, StTypeOK, ActiveSeq, Log, Viewed, ClaimedOnce,
         Current, AppliedToPreviewedView, BaselineIsFirst, local
<1>3. CASE Current(k)
  <2>1. /\ outbox[c] \in Row /\ outbox \in [Corrections -> Row \union {NoRow}]
        /\ outbox[c] # NoRow
        /\ outbox[c].status = "in_flight" /\ outbox[c].attempts = k.attempt
    BY <1>1, <1>3 DEF SInv, StTypeOK, Current
  <2>2. /\ outbox' \in [Corrections -> Row \union {NoRow}]
        /\ outbox'[c] # NoRow /\ outbox'[c].attempts = k.attempt
        /\ outbox'[c].confirmed = outbox[c].confirmed
        /\ \/ outbox'[c].status = "completed" /\ done' = done \union {k}
           \/ outbox'[c].status = "pending" /\ done' = done
        /\ \A d \in Corrections : d # c => outbox'[d] = outbox[d]
    <3>1. CASE CompleteClaim(k)
      <4> DEFINE row == [outbox[c] EXCEPT !.status = "completed"]
      <4>1. outbox' = [outbox EXCEPT ![c] = row] /\ done' = done \union {k}
        BY <3>1, <2>1, <1>3 DEF CompleteClaim
      <4>2. /\ row \in Row /\ row.status = "completed" /\ row.attempts = k.attempt
            /\ row.confirmed = outbox[c].confirmed
        BY <2>1 DEF Row
      <4>3. row # NoRow
        BY <4>2, RowAssumption
      <4> HIDE DEF row
      <4> QED BY <4>1, <4>2, <4>3, <2>1, <1>1
    <3>2. CASE ReleaseClaim(k)
      <4> DEFINE row == [outbox[c] EXCEPT !.status = "pending", !.run = NoRow]
      <4>1. outbox' = [outbox EXCEPT ![c] = row] /\ done' = done
        BY <3>2, <2>1, <1>3 DEF ReleaseClaim
      <4>2. /\ row \in Row /\ row.status = "pending" /\ row.attempts = k.attempt
            /\ row.confirmed = outbox[c].confirmed
        BY <2>1 DEF Row
      <4>3. row # NoRow
        BY <4>2, RowAssumption
      <4> HIDE DEF row
      <4> QED BY <4>1, <4>2, <4>3, <2>1, <1>1
    <3> QED BY <3>1, <3>2
  <2>3. StTypeOK'
    BY <1>1, <2>2 DEF SInv, StTypeOK, ActiveSeq, local
  <2>4. \A d \in Corrections : /\ (outbox'[d] # NoRow) = (outbox[d] # NoRow)
                               /\ outbox[d] # NoRow => outbox'[d].confirmed = outbox[d].confirmed
    BY <2>1, <2>2
  <2>5. Log' /\ AppliedToPreviewedView' /\ BaselineIsFirst'
    BY <1>1, <2>4 DEF SInv, Log, AppliedToPreviewedView, BaselineIsFirst
  <2>6. Viewed'
    BY <1>1 DEF SInv, Viewed, ActiveSeq, local
  <2>7. \A j \in claims : j.of \in Corrections
    BY DEF SInv, StTypeOK, Claim
  <2>8. \A j \in held' : j.of # c /\ Current(j)'
    <3>1. \A j \in held' : j \in claims /\ j # k /\ Current(j)
        BY <1>1 DEF SInv, StTypeOK, ClaimedOnce
    <3>2. \A j \in held' : j.of # c
        BY <3>1, <1>3 DEF SInv, ClaimedOnce, Current
    <3> QED BY <3>1, <3>2, <2>2, <2>7 DEF Current
  <2>9. \A j \in done : j.of # c
    BY <2>1 DEF SInv, ClaimedOnce
  <2>10. \A j \in done' :
          outbox'[j.of].status = "completed" /\ j.attempt = outbox'[j.of].attempts
    BY <2>2, <2>7, <2>9 DEF SInv, StTypeOK, ClaimedOnce
  <2>11. \A j \in claims' :
            /\ outbox'[j.of] # NoRow /\ j.attempt <= outbox'[j.of].attempts
            /\ j.run # PriorRun[j.of]
    BY <1>1, <2>1, <2>2, <2>7 DEF SInv, ClaimedOnce
  <2> QED BY <1>1, <2>3, <2>5, <2>6, <2>8, <2>10, <2>11 DEF SInv, ClaimedOnce
<1> QED BY <1>2, <1>3

\* Every step keeps the invariant.
LEMMA StepKeepsInvariant == SInv /\ [StNext]_stVars => SInv'
<1> SUFFICES ASSUME SInv, [StNext]_stVars PROVE SInv'
    OBVIOUS
<1>1. CASE UNCHANGED stVars
    BY <1>1 DEF stVars, database, contents, SInv, StTypeOK, ActiveSeq, Log,
       Viewed, ClaimedOnce, Current, AppliedToPreviewedView, BaselineIsFirst
<1>2. CASE StNext
  <2>1. CASE \/ Initialize \/ InitializerStops \/ CreateFile \/ Migrate \/ InsertHead
             \/ ServeRun
             \/ \E m \in Baseline : PrepareImport(m)
             \/ \E c \in Corrections :
                    \/ PlanCorrection(c) \/ ApplyLook(c) \/ ApplyCompare(c)
                    \/ RefuseCorrection(c) \/ RepeatCorrection(c) \/ ClientStops(c)
    BY <2>1, <1>2, HeadStays
  <2>2. CASE InsertInitialHistory
    BY <2>2, InitialHistory
  <2>3. ASSUME NEW m \in Baseline, ImportBaseline(m) PROVE SInv'
    BY <2>3, Import
  <2>4. ASSUME NEW c \in Corrections, CommitCorrection(c) PROVE SInv'
    BY <2>4, Commit
  <2>5. ASSUME NEW c \in Corrections, NEW r \in Runs, ClaimReanswer(c, r) PROVE SInv'
    BY <2>5, Claiming
  <2>6. ASSUME NEW s \in Sessions, NEW r \in Runs, ClaimForSession(s, r) PROVE SInv'
    BY <2>6, <2>5 DEF ClaimForSession
  <2>7. ASSUME NEW k \in claims, CompleteClaim(k) \/ ReleaseClaim(k) PROVE SInv'
    BY <2>7, Ending
  <2> QED BY <1>2, <2>1, <2>2, <2>3, <2>4, <2>5, <2>6, <2>7 DEF StNext, Apply
<1> QED BY <1>1, <1>2

\* The inductive invariant holds in every state the database and its clients reach.
THEOREM Invariant == StSpec => []SInv
    BY StartsInvariant, StepKeepsInvariant, PTL DEF StSpec

\* The state of the database, its clients and claims has its type.
THEOREM TypeCorrect == StSpec => []StTypeOK
<1>1. SInv => StTypeOK
    BY DEF SInv
<1> QED BY <1>1, Invariant, PTL

\* AppliedToPreviewedView: applyCorrection and correct commit a correction on the
\* very view its preview showed, for any number of corrections, clients and imports.
THEOREM Applied == StSpec => []AppliedToPreviewedView
<1>1. SInv => AppliedToPreviewedView
    BY DEF SInv
<1> QED BY <1>1, Invariant, PTL

\* BaselineIsFirst: importBaseline puts a baseline below every correction and every
\* served Run, and never next to another one that holds events.
THEOREM BaselineBelow == StSpec => []BaselineIsFirst
<1>1. SInv => BaselineIsFirst
    BY DEF SInv
<1> QED BY <1>1, Invariant, PTL

\* EveryRevisionAnswers: once revision 0 has its record, so has every revision up to
\* the head, whichever of initialize, importBaseline and correct wrote it.
THEOREM Answers == StSpec => []EveryRevisionAnswers
<1>1. SInv => EveryRevisionAnswers
    BY DEF SInv, Viewed, EveryRevisionAnswers
<1> QED BY <1>1, Invariant, PTL

\* OneClaimant: claim, complete and release hand a re-answer to one Run at a time,
\* whatever earlier claims are used late or twice.
THEOREM Claimant == StSpec => []OneClaimant
<1>1. SInv => OneClaimant
    BY DEF SInv, StTypeOK, ClaimedOnce, Current, OneClaimant
<1> QED BY <1>1, Invariant, PTL

\* The log is append-only, and the view of a revision never changes once the head
\* has reached it (the seq of state_events, view()): a baseline is imported below an
\* empty head only, and a correction appends one event.
LogOnlyGrows == [][IsPrefix(events, events')
                   /\ \A n \in 0 .. ActiveSeq : ViewAt(events', n) = ViewAt(events, n)]_stVars

\* No step takes back an event or changes the view of a revision.
LEMMA StepGrows ==
    ASSUME SInv, [StNext]_stVars
    PROVE  /\ IsPrefix(events, events')
           /\ \A n \in 0 .. ActiveSeq : ViewAt(events', n) = ViewAt(events, n)
<1> DEFINE q == events'
<1>1. /\ events \in Seq(Events) /\ IsInjective(events) /\ q \in Seq(Events)
      /\ Len(events) \in Nat /\ Len(q) \in Nat
    BY StepKeepsInvariant, CurrentViewTyped DEF SInv, StTypeOK
<1>2. Len(events) <= Len(q) /\ \A i \in 1 .. Len(events) : events[i] = q[i]
  <2>1. CASE events' = events
    BY <2>1, <1>1
  <2>2. ASSUME NEW m \in Baseline, ImportBaseline(m) PROVE Len(events) = 0
    BY <2>2 DEF ImportBaseline, ActiveSeq
  <2>3. ASSUME NEW c \in Corrections, CommitCorrection(c)
        PROVE  Len(events) <= Len(q) /\ \A i \in 1 .. Len(events) : events[i] = q[i]
    <3>1. q = Append(events, c) /\ c \in Events
        BY <2>3 DEF CommitCorrection, Events
    <3> HIDE DEF q
    <3> QED BY ONLY <1>1, <3>1
  <2>4. \/ events' = events \/ \E m \in Baseline : ImportBaseline(m)
        \/ \E c \in Corrections : CommitCorrection(c)
    BY DEF StNext, Apply, Initialize, InitializerStops, CreateFile, Migrate,
       InsertHead, InsertInitialHistory, PrepareImport, ServeRun,
       PlanCorrection, ApplyLook, ApplyCompare, RefuseCorrection,
       RepeatCorrection, ClientStops, ClaimReanswer, ClaimForSession,
       CompleteClaim, ReleaseClaim, stVars, database, contents
  <2> HIDE DEF q
  <2>5. CASE Len(events) = 0
    BY <2>5, <1>1
  <2> QED BY <2>1, <2>2, <2>3, <2>4, <2>5
<1> HIDE DEF q
<1>3. IsPrefix(events, q)
    BY ONLY <1>1, <1>2, PrefixAt
<1>4. ASSUME NEW n \in 0 .. Len(events)
      PROVE  ViewAt(q, n) = ViewAt(events, n)
  <2>1. /\ n \in Nat /\ n <= Len(events) /\ n <= Len(q)
        /\ \A i \in 1 .. n : events[i] = q[i]
    BY ONLY <1>1, <1>2, <1>4
  <2> QED BY ONLY <1>1, <2>1, ViewKept
<1> QED BY <1>3, <1>4 DEF q, ActiveSeq

\* LogOnlyGrows holds of every behaviour of the database: no import, correction or
\* repeated call rewrites what a view already answered.
THEOREM OnlyGrows == StSpec => LogOnlyGrows
    BY Invariant, StepGrows, PTL DEF StSpec, LogOnlyGrows
===============================================================================
