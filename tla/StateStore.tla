------------------------------ MODULE StateStore ------------------------------
(***************************************************************************)
(* An instance's runtime database (src/src/state/index.ts) and the port    *)
(* that manages it (src/src/state/management.ts): the append-only state    *)
(* events under one head, the corrections planned and applied against it,  *)
(* the baseline import, and the outbox whose rows are re-answers to        *)
(* deliver, one open per session, claimed and completed by compare and     *)
(* swap.                                                                   *)
(*                                                                         *)
(* One statement or transaction of SQLite is one step; the processes that  *)
(* open the database (the state commands, the Runs that deliver a          *)
(* re-answer) interleave between them, and may stop between any two: a     *)
(* client comes back with the same preview, a claim may never be heard of  *)
(* again, or late. Checksums are the values they are taken of. Contract    *)
(* validation, timestamps and error wording are left out, and so is the    *)
(* restore lock (InstanceRecovery).                                        *)
(***************************************************************************)
EXTENDS Integers, SequencesExt

CONSTANTS
    Corrections,          \* correction ids; each is one proposed event
    Baseline, ImportLog,  \* the import manifests, and the events each holds
    StateIds, StateOf,    \* what an event changes
    Sessions, SessionOf,  \* the session a correction is to be re-answered in
    Runs, PriorRun,       \* successor Runs; the Run a correction corrects
    NoRow,
    MaxAttempts           \* bounds the claims of one re-answer

Imported == UNION {Range(ImportLog[m]) : m \in Baseline}
Events == Corrections \union Imported

ASSUME EventAssumption ==
    /\ Corrections \intersect Imported = {} /\ NoRow \notin Events \union Runs
    /\ IsFiniteSet(Events)
    /\ \A m \in Baseline : ImportLog[m] \in Seq(Imported) /\ IsInjective(ImportLog[m])
    /\ \A e \in Events : StateOf[e] \in StateIds
    /\ \A c \in Corrections : SessionOf[c] \in Sessions
    /\ \A c \in Corrections : PriorRun[c] \in Runs
ASSUME AttemptAssumption == MaxAttempts \in Nat \ {0}

VARIABLES
    creator,   \* is an initialize running that found no database
    phase,     \* how far the creation of the database has come
    events,    \* state_events, in the order of seq
    history,   \* state_view_history: the revisions with an activation record
    imports,   \* state_imports
    served,    \* runtime_served_runs: the head when its first row came, if one has
    outbox,    \* reanswer_outbox and its confirmation, by correction
    preview,   \* the preview each correction's client holds
    client,    \* where that client is
    manifest,  \* the initialized head each import was prepared against
    claims,    \* the claims handed out; their holders may use them at any time
    held,      \* those whose holder has not yet completed or released (history)
    done,      \* those that completed (history)
    shown      \* the view each committed event was applied to (history)

contents == <<events, history, imports, served, outbox>>
database == <<phase, contents>>
stVars == <<creator, database, preview, client, manifest, claims, held, done, shown>>

\* The head is the number of events: both change in one transaction.
ActiveSeq == Len(events)

\* reduceView: the last event up to a revision for each state it changed.
\* A view's checksum covers its revision and these values.
ViewAt(log, n) ==
    [rev |-> n,
     values |-> {log[i] : i \in {j \in 1 .. n :
                    \A k \in j + 1 .. n : StateOf[log[k]] # StateOf[log[j]]}}]
View == ViewAt(events, ActiveSeq)

\* Can view() be answered: the head and its activation record are there.
Viewable == phase = "ready" /\ ActiveSeq \in history
Writable == phase = "ready"

Views == [rev : 0 .. Cardinality(Events), values : SUBSET Events]
Row == [status : {"pending", "in_flight", "completed"}, attempts : 0 .. MaxAttempts,
        run : Runs \union {NoRow}, confirmed : Views]
Claim == [of : Corrections, run : Runs, attempt : 1 .. MaxAttempts]
Unplanned == [rev |-> -1, values |-> {}]

ASSUME RowAssumption == NoRow \notin Row

StTypeOK ==
    /\ creator \in BOOLEAN /\ phase \in {"absent", "bare", "tables", "ready"}
    /\ events \in Seq(Events) /\ ActiveSeq <= Cardinality(Events)
    /\ history \subseteq 0 .. ActiveSeq
    /\ imports \subseteq Baseline /\ served \subseteq 0 .. ActiveSeq
    /\ outbox \in [Corrections -> Row \union {NoRow}]
    /\ preview \in [Corrections -> Views \union {Unplanned}]
    /\ client \in [Corrections -> {"idle", "compare", "commit", "repeat", "done"}]
    /\ manifest \in [Baseline -> Views \union {Unplanned}]
    /\ claims \subseteq Claim /\ held \subseteq claims /\ done \subseteq claims
    /\ \A e \in DOMAIN shown : e \in Events /\ shown[e] \in Views

StInit ==
    /\ creator = FALSE /\ phase = "absent"
    /\ events = <<>> /\ history = {} /\ imports = {} /\ served = {}
    /\ outbox = [c \in Corrections |-> NoRow]
    /\ preview = [c \in Corrections |-> Unplanned]
    /\ client = [c \in Corrections |-> "idle"]
    /\ manifest = [m \in Baseline |-> Unplanned]
    /\ claims = {} /\ held = {} /\ done = {} /\ shown = <<>>

local == <<preview, client, manifest>>
reanswers == <<claims, held, done>>

-----------------------------------------------------------------------------
(* initialize, for a database that is not there; the constructor's          *)
(* statements commit one by one. Where the file exists already initialize   *)
(* only views it, so that what a stopped one left out stays out.            *)

Initialize ==
    /\ ~creator /\ phase = "absent" /\ creator' = TRUE
    /\ UNCHANGED <<database, local, reanswers, shown>>

InitializerStops ==
    /\ creator /\ creator' = FALSE
    /\ UNCHANGED <<database, local, reanswers, shown>>

CreateFile ==
    /\ creator /\ phase = "absent" /\ phase' = "bare"
    /\ UNCHANGED <<creator, contents, local, reanswers, shown>>

\* migrateRuntimeDatabase, one transaction, and the Run guard's table, by
\* the initializer or by any writer that finds the file.
Migrate ==
    /\ phase = "bare" /\ phase' = "tables"
    /\ UNCHANGED <<creator, contents, local, reanswers, shown>>

InsertHead ==
    /\ creator /\ phase = "tables" /\ phase' = "ready"
    /\ UNCHANGED <<creator, contents, local, reanswers, shown>>

InsertInitialHistory ==
    /\ creator /\ phase = "ready"
    /\ history' = history \union {0} /\ creator' = FALSE
    /\ UNCHANGED <<phase, events, imports, served, outbox, local, reanswers, shown>>

-----------------------------------------------------------------------------
(* import, and the record of a Run.                                        *)

\* prepareStateImportManifest: against the initialized, still empty head.
PrepareImport(m) ==
    /\ Viewable /\ ActiveSeq = 0
    /\ manifest' = [manifest EXCEPT ![m] = View]
    /\ UNCHANGED <<creator, database, preview, client, reanswers, shown>>

\* Mutant: only the imported head gets a view record.
ImportBaseline_LastView(m) ==
    /\ Writable /\ manifest[m] # Unplanned /\ m \notin imports
    /\ served = {} /\ ActiveSeq = 0 /\ View = manifest[m]
    /\ events' = ImportLog[m]
    /\ history' = history \union {Len(ImportLog[m])}
    /\ imports' = imports \union {m}
    /\ shown' = [e \in Range(ImportLog[m]) |-> View]
    /\ UNCHANGED <<creator, phase, served, outbox, local, reanswers>>

\* Mutant: nobody asks whether a Run was served meanwhile.
ImportBaseline_AfterRun(m) ==
    /\ Writable /\ manifest[m] # Unplanned
    /\ m \notin imports
    /\ ActiveSeq = 0 /\ View = manifest[m]
    /\ events' = ImportLog[m]
    /\ history' = history \union 1 .. Len(ImportLog[m]) \union {Len(ImportLog[m])}
    /\ imports' = imports \union {m}
    /\ shown' = [e \in Range(ImportLog[m]) |-> View]
    /\ UNCHANGED <<creator, phase, served, outbox, local, reanswers>>

\* importBaseline, after the manifest was checked against itself; a manifest
\* that was imported is not imported again, and says so.
ImportBaseline(m) ==
    /\ Writable /\ manifest[m] # Unplanned
    /\ m \notin imports
    /\ served = {} /\ ActiveSeq = 0 /\ View = manifest[m]
    /\ events' = ImportLog[m]
    /\ history' = history \union 1 .. Len(ImportLog[m]) \union {Len(ImportLog[m])}
    /\ imports' = imports \union {m}
    /\ shown' = [e \in Range(ImportLog[m]) |-> View]
    /\ UNCHANGED <<creator, phase, served, outbox, local, reanswers>>

\* recordServedRun, from the hook, which creates a missing file, or the port.
\* Only whether there is a row is ever asked, so a second one changes nothing; the
\* restore lock it asks for is modelled in InstanceRecovery.
ServeRun ==
    /\ served = {} /\ served' = {ActiveSeq}
    /\ phase' = IF phase = "absent" THEN "bare" ELSE phase
    /\ UNCHANGED <<creator, events, history, imports, outbox, local, reanswers, shown>>

-----------------------------------------------------------------------------
(* planCorrection and applyCorrection.                                     *)

\* A preview of the event on top of the current view. A client may plan
\* again, with the same correction id, when it got no answer.
PlanCorrection(c) ==
    /\ client[c] = "idle" /\ Viewable
    /\ preview' = [preview EXCEPT ![c] = View]
    /\ UNCHANGED <<creator, database, client, manifest, reanswers, shown>>

\* Mutant: a correction is compared before its row is looked for.
ApplyLook_Compares(c) ==
    /\ client[c] = "idle" /\ preview[c] # Unplanned /\ Writable
    /\ client' = [client EXCEPT ![c] = "compare"]
    /\ UNCHANGED <<creator, database, preview, manifest, reanswers, shown>>

\* store.get: a correction that has a row goes straight to the transaction,
\* even if its preview has expired meanwhile; an expired one is refused.
ApplyLook(c) ==
    /\ client[c] = "idle" /\ preview[c] # Unplanned /\ Writable
    /\ client' = [client EXCEPT ![c] = IF outbox[c] # NoRow THEN "repeat" ELSE "compare"]
    /\ UNCHANGED <<creator, database, preview, manifest, reanswers, shown>>

\* The preview's base must still be the current view.
ApplyCompare(c) ==
    /\ client[c] = "compare"
    /\ client' = [client EXCEPT ![c] =
                    IF Viewable /\ View = preview[c] THEN "commit" ELSE "idle"]
    /\ UNCHANGED <<creator, database, preview, manifest, reanswers, shown>>

Open(d) == outbox[d] # NoRow /\ outbox[d].status # "completed"
SessionBusy(s) == \E d \in Corrections : SessionOf[d] = s /\ Open(d)

\* Mutant: the comparison before the transaction is thought to be enough.
HeadUnmoved_Compared(c) == client[c] \in {"commit", "repeat"}

\* The head still is where the event's seq expects it.
HeadUnmoved(c) == ActiveSeq = preview[c].rev

\* correct, for a correction that has no row: the event, the view's record,
\* the head, the outbox row and the confirmation, or nothing.
CommitCorrection(c) ==
    /\ client[c] \in {"commit", "repeat"} /\ outbox[c] = NoRow
    /\ ~SessionBusy(SessionOf[c]) /\ HeadUnmoved(c)
    /\ events' = Append(events, c)
    /\ history' = history \union {ActiveSeq + 1}
    /\ outbox' = [outbox EXCEPT ![c] = [status |-> "pending", attempts |-> 0,
                                        run |-> NoRow, confirmed |-> preview[c]]]
    /\ shown' = [e \in DOMAIN shown \union {c} |-> IF e \in DOMAIN shown THEN shown[e] ELSE View]
    /\ client' = [client EXCEPT ![c] = "done"]
    /\ UNCHANGED <<creator, phase, imports, served, preview, manifest, reanswers>>

RefuseCorrection(c) ==
    /\ client[c] \in {"commit", "repeat"} /\ outbox[c] = NoRow
    /\ SessionBusy(SessionOf[c]) \/ ~HeadUnmoved(c)
    /\ client' = [client EXCEPT ![c] = "idle"]
    /\ UNCHANGED <<creator, database, preview, manifest, reanswers, shown>>

Confirmed(c) == outbox[c] # NoRow /\ outbox[c].confirmed = preview[c]

\* correct, for one that has a row: the row is returned if the confirmation
\* is the same (assertExistingConfirmation), whatever the head is by now.
RepeatCorrection(c) ==
    /\ client[c] \in {"commit", "repeat"} /\ outbox[c] # NoRow
    /\ client' = [client EXCEPT ![c] = IF Confirmed(c) THEN "done" ELSE "idle"]
    /\ UNCHANGED <<creator, database, preview, manifest, reanswers, shown>>

\* The client stops, or its answer is lost: it may ask again.
ClientStops(c) ==
    /\ client[c] # "idle"
    /\ client' = [client EXCEPT ![c] = "idle"]
    /\ UNCHANGED <<creator, database, preview, manifest, reanswers, shown>>

-----------------------------------------------------------------------------
(* The outbox: claim, complete, release.                                   *)

\* assertDistinctSuccessor, then UPDATE ... WHERE status = 'pending'. What
\* the first statement read of the row never changes.
ClaimReanswer(c, r) ==
    /\ Writable /\ outbox[c] # NoRow /\ outbox[c].status = "pending"
    /\ PriorRun[c] # r
    /\ outbox[c].attempts < MaxAttempts
    /\ LET k == [of |-> c, run |-> r, attempt |-> outbox[c].attempts + 1] IN
        /\ outbox' = [outbox EXCEPT ![c].status = "in_flight",
                                    ![c].attempts = k.attempt, ![c].run = r]
        /\ claims' = claims \union {k} /\ held' = held \union {k}
    /\ UNCHANGED <<creator, phase, events, history, imports, served, local, done, shown>>

\* claimForSession: the pending row of the session, read before it is claimed.
ClaimForSession(s, r) ==
    \E c \in Corrections : SessionOf[c] = s /\ ClaimReanswer(c, r)

\* Mutant: any claim of the Run that has the row will do.
Current_AnyAttempt(k) ==
    outbox[k.of] # NoRow /\ outbox[k.of].status = "in_flight" /\ outbox[k.of].run = k.run

\* The row the claim still answers for.
Current(k) ==
    LET row == outbox[k.of] IN
    row # NoRow /\ row.status = "in_flight" /\ row.attempts = k.attempt /\ row.run = k.run

\* A call with any claim ever handed out, be it the second with this one; one
\* that is not current changes nothing (REANSWER_CAS_FAILED).
CompleteClaim(k) ==
    /\ Current(k) \/ k \in held
    /\ outbox' = IF Current(k) THEN [outbox EXCEPT ![k.of].status = "completed"] ELSE outbox
    /\ done' = IF Current(k) THEN done \union {k} ELSE done
    /\ held' = held \ {k}
    /\ UNCHANGED <<creator, phase, events, history, imports, served, local, claims, shown>>

ReleaseClaim(k) ==
    /\ Current(k) \/ k \in held
    /\ outbox' = IF Current(k)
                 THEN [outbox EXCEPT ![k.of].status = "pending", ![k.of].run = NoRow]
                 ELSE outbox
    /\ held' = held \ {k}
    /\ UNCHANGED <<creator, phase, events, history, imports, served, local, claims, done, shown>>

-----------------------------------------------------------------------------

Apply(c) ==
    \/ ApplyLook(c) \/ ApplyCompare(c)
    \/ CommitCorrection(c) \/ RefuseCorrection(c) \/ RepeatCorrection(c)

StNext ==
    \/ Initialize \/ InitializerStops
    \/ CreateFile \/ Migrate \/ InsertHead \/ InsertInitialHistory
    \/ \E m \in Baseline : PrepareImport(m) \/ ImportBaseline(m)
    \/ ServeRun
    \/ \E c \in Corrections : PlanCorrection(c) \/ Apply(c) \/ ClientStops(c)
    \/ \E r \in Runs :
        \/ \E c \in Corrections : ClaimReanswer(c, r)
        \/ \E s \in Sessions : ClaimForSession(s, r)
    \/ \E k \in claims : CompleteClaim(k) \/ ReleaseClaim(k)

StSpec == StInit /\ [][StNext]_stVars

\* A client that holds a preview keeps applying it, and not every call of it
\* is cut off.
StFairSpec ==
    /\ StSpec
    /\ \A c \in Corrections :
        SF_stVars(ApplyLook(c)) /\ SF_stVars(RepeatCorrection(c))

-----------------------------------------------------------------------------
(* Properties.                                                             *)

\* A correction is applied to the very view its preview showed, whatever was
\* committed or imported between the plan, the comparison and the
\* transaction, and whichever process did it (applyCorrection, correct).
AppliedToPreviewedView ==
    \A c \in Corrections : outbox[c] # NoRow => shown[c] = outbox[c].confirmed

\* A re-answer has one claimant at a time: no call with an earlier claim, late
\* or repeated, frees the row while a later claimant still works on it, and it
\* is completed by the last attempt made, by a Run other than the one
\* corrected (claim, complete, release; DATA-CONTRACTS.md, section 9).
OneClaimant ==
    /\ \A j, k \in held : j.of = k.of => j = k
    /\ \A k \in done :
        /\ k.run # PriorRun[k.of] /\ outbox[k.of].status = "completed"
        /\ \A j \in claims : j.of = k.of => j.attempt <= k.attempt

\* A view once activated can be asked for again: every revision up to the
\* head keeps its activation record, whichever path moved the head.
EveryRevisionAnswers ==
    0 \in history => history = 0 .. ActiveSeq

\* A baseline lies below everything else, as it was prepared: whatever other
\* import, correction or Run commits between its preparation and its import,
\* no other baseline's events, no correction's view and no served Run's head
\* lie below it (prepareStateImportManifest, importBaseline).
BaselineIsFirst ==
    /\ \A m \in imports : IsPrefix(ImportLog[m], events)
    /\ \A c \in Corrections, m \in imports :
        outbox[c] # NoRow => outbox[c].confirmed.rev >= Len(ImportLog[m])
    /\ \A n \in served, m \in imports : n >= Len(ImportLog[m])

\* An applied correction is acknowledged to the client that holds its
\* preview, however often its answer was lost and whatever moved the head
\* since (the lookup before the comparison).
AppliedIsAcknowledged ==
    \A c \in Corrections : Confirmed(c) ~> (client[c] = "done" \/ ~Confirmed(c))
===============================================================================
