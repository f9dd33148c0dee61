----------------------------- MODULE Publication -----------------------------
(***************************************************************************)
(* ChangeSetPublicationCoordinator (src/src/publication/index.ts): an      *)
(* approval record, a publication journal and a Git commit of the consumer *)
(* change one after the other, beside the admission operations, with a     *)
(* crash or an error between any two. The lease is one SQLite lock for all *)
(* change sets, so at most one publication is under way. An exception      *)
(* leaves what a crash leaves: only what is already durable.               *)
(*                                                                         *)
(* A commit is known by its place in log. The checksum of the checkout is  *)
(* what it is made of: the version of every target and the rest. A         *)
(* journal's expectedTreeChecksum is known by the tree the change set was  *)
(* validated against. Others may commit too, and what they do may bring    *)
(* back an earlier tree, as a revert does.                                 *)
(***************************************************************************)
EXTENDS CandidateAdmission, FiniteSets

CONSTANTS
    Rests,          \* contents of the repository outside the targets
    NoJournal, NoChangeSet, NoTree,
    MaxEdits        \* bound on commits that are not ours

ASSUME EditsAssumption == MaxEdits \in Nat

VARIABLES
    log,      \* change sets committed to the authority repository
    rest,     \* its contents outside the targets
    journal,  \* publication journal of each change set
    pc, cs,   \* the publication that holds the lease, and its change set
    expected, \* tree validated against, until the journal has it
    found,    \* commit id while resuming, 0 for none
    edits     \* commits that were not ours

work == <<pc, cs, expected, found>>
vars == <<auth, owner, revs, conf, rcpt, head, log, rest, journal,
          pc, cs, expected, found, edits>>

Trees == [Cands -> Versions] \X Rests
Tree == <<head, rest>>
Prepared == [status: {"prepared"}, tree: Trees, commit: {0}]
Recorded == [status: {"committed", "completed"}, tree: Trees, commit: Nat \ {0}]
PCs == {"idle", "reprepare", "validate", "prepare", "write", "resume", "revalidate",
        "commit", "record", "finalize", "complete"}

ASSUME JournalAssumption == NoJournal \notin Prepared \union Recorded
ASSUME ChangeSetAssumption == NoChangeSet \notin ChangeSets

Logged(c) == \E i \in DOMAIN log : log[i] = c

\* findCommit, 0 when there is none.
FindCommit(c) == IF Logged(c) THEN CHOOSE i \in DOMAIN log : log[i] = c ELSE 0

\* validatePublication: the target is still at the version that was reviewed.
BaseMatches(c) == BaseOf(c.receipt) = head[rcpt[c.receipt].cand]

Init ==
    /\ AdmissionInit
    /\ log = <<>> /\ rest \in Rests
    /\ journal = [c \in ChangeSets |-> NoJournal]
    /\ pc = "idle" /\ cs = NoChangeSet /\ expected = NoTree /\ found = 0
    /\ edits = 0

-----------------------------------------------------------------------------
(* The calls.                                                              *)

\* createChangeSet refuses a rejected receipt, and nothing else here.
Publish(c) ==
    /\ pc = "idle" /\ Approved(c.receipt)
    /\ pc' = IF journal[c] = NoJournal THEN "validate" ELSE "reprepare"
    /\ cs' = c /\ found' = 0
    /\ UNCHANGED <<admission, head, log, rest, journal, expected, edits>>

Recover(c) ==
    /\ pc = "idle" /\ journal[c] # NoJournal
    /\ pc' = "resume" /\ cs' = c /\ found' = 0
    /\ UNCHANGED <<admission, head, log, rest, journal, expected, edits>>

-----------------------------------------------------------------------------
(* What each step accepts; otherwise it throws.                            *)

Preparable_Revoked(c) ==
    /\ Approved(c.receipt)
    /\ \/ rcpt[c.receipt].artifact = c.ops
       \/ rcpt[c.receipt].artifact = NoOps /\ auth[rcpt[c.receipt].auth] = "active"
Preparable(c) ==
    /\ Approved(c.receipt) /\ ~rcpt[c.receipt].invalidated
    /\ \/ rcpt[c.receipt].artifact = c.ops
       \/ rcpt[c.receipt].artifact = NoOps /\ auth[rcpt[c.receipt].auth] = "active"

Resumable_Authorized(c) ==
    /\ Issued(c.receipt) /\ rcpt[c.receipt].artifact = c.ops
    /\ auth[rcpt[c.receipt].auth] = "active"
Resumable(c) ==
    /\ Issued(c.receipt) /\ rcpt[c.receipt].artifact = c.ops
    /\ rcpt[c.receipt].finalization # 0 => FindCommit(c) # 0
    /\ journal[c].commit # 0 => FindCommit(c) = journal[c].commit

Finalizable(c) ==
    /\ Issued(c.receipt) /\ ~rcpt[c.receipt].invalidated
    /\ rcpt[c.receipt].artifact = c.ops
    /\ rcpt[c.receipt].finalization \in {0, found}

Accepts_AnyValidation ==
    CASE pc \in {"prepare", "reprepare"} -> Preparable(cs)
      [] pc = "resume" -> Resumable(cs)
      [] pc \in {"revalidate", "commit"} -> Tree = journal[cs].tree
      [] pc = "finalize" -> Finalizable(cs)
      [] OTHER -> TRUE
Accepts ==
    CASE pc = "validate" -> BaseMatches(cs)
      [] pc \in {"prepare", "reprepare"} -> Preparable(cs)
      [] pc = "resume" -> Resumable(cs)
      [] pc = "revalidate" -> BaseMatches(cs) /\ Tree = journal[cs].tree
      [] pc = "commit" -> Tree = journal[cs].tree
      [] pc = "finalize" -> Finalizable(cs)
      [] OTHER -> TRUE

-----------------------------------------------------------------------------
(* The steps, under the lease.                                             *)

\* inspectCheckout and validatePublication before anything is written.
Validate ==
    /\ pc = "validate" /\ Accepts
    /\ pc' = "prepare" /\ expected' = Tree
    /\ UNCHANGED <<admission, head, log, rest, journal, cs, found, edits>>

\* preparePublication: claims the approval for this list of operations.
Claimed(c) == rcpt' = [rcpt EXCEPT ![c.receipt].artifact = c.ops]
PreparePublication ==
    /\ pc \in {"prepare", "reprepare"} /\ Accepts
    /\ Claimed(cs)
    /\ pc' = IF pc = "prepare" THEN "write" ELSE "resume"
    /\ UNCHANGED <<auth, owner, revs, conf, head, log, rest, journal, cs, expected,
                   found, edits>>

WriteJournal ==
    /\ pc = "write"
    /\ journal' = [journal EXCEPT ![cs] =
                    [status |-> "prepared", tree |-> expected, commit |-> 0]]
    /\ pc' = "resume" /\ expected' = NoTree
    /\ UNCHANGED <<admission, head, log, rest, cs, found, edits>>

\* loadPreparedPublication and findCommit.
Resume_JournalOnly ==
    /\ pc = "resume" /\ Accepts
    /\ found' = journal[cs].commit
    /\ pc' = IF found' = 0 THEN "revalidate" ELSE "finalize"
    /\ UNCHANGED <<admission, head, log, rest, journal, cs, expected, edits>>
Resume ==
    /\ pc = "resume" /\ Accepts
    /\ found' = FindCommit(cs)
    /\ pc' = CASE found' = 0 -> "revalidate"
               [] found' # 0 /\ journal[cs].commit = 0 -> "record"
               [] OTHER -> "finalize"
    /\ UNCHANGED <<admission, head, log, rest, journal, cs, expected, edits>>

Revalidate ==
    /\ pc = "revalidate" /\ Accepts
    /\ pc' = "commit"
    /\ UNCHANGED <<admission, head, log, rest, journal, cs, expected, found, edits>>

\* commitPublication, which compares the tree itself.
Commit ==
    /\ pc = "commit" /\ Accepts
    /\ log' = Append(log, cs)
    /\ head' = [head EXCEPT ![rcpt[cs.receipt].cand] = cs]
    /\ found' = Len(log) + 1 /\ pc' = "record"
    /\ UNCHANGED <<admission, rest, journal, cs, expected, edits>>

RecordCommit_StatusOnly ==
    /\ pc = "record"
    /\ journal' = [journal EXCEPT ![cs].status = "committed"]
    /\ pc' = "finalize"
    /\ UNCHANGED <<admission, head, log, rest, cs, expected, found, edits>>
RecordCommit ==
    /\ pc = "record"
    /\ journal' = [journal EXCEPT ![cs].status = "committed", ![cs].commit = found]
    /\ pc' = "finalize"
    /\ UNCHANGED <<admission, head, log, rest, cs, expected, found, edits>>

\* finalizePublication: the commit consumes the approval.
FinalizePublication_NotConsumed ==
    /\ pc = "finalize" /\ Accepts
    /\ rcpt' = rcpt
    /\ pc' = "complete"
    /\ UNCHANGED <<auth, owner, revs, conf, head, log, rest, journal, cs, expected,
                   found, edits>>
FinalizePublication ==
    /\ pc = "finalize" /\ Accepts
    /\ rcpt' = [rcpt EXCEPT ![cs.receipt].consumed = TRUE,
                            ![cs.receipt].finalization = found]
    /\ pc' = "complete"
    /\ UNCHANGED <<auth, owner, revs, conf, head, log, rest, journal, cs, expected,
                   found, edits>>

Complete ==
    /\ pc = "complete"
    /\ journal' = [journal EXCEPT ![cs].status = "completed"]
    /\ pc' = "idle" /\ cs' = NoChangeSet /\ found' = 0
    /\ UNCHANGED <<admission, head, log, rest, expected, edits>>

Step == \/ Validate \/ PreparePublication \/ WriteJournal \/ Resume \/ Revalidate
        \/ Commit \/ RecordCommit \/ FinalizePublication \/ Complete

Stops == /\ pc # "idle" /\ pc' = "idle" /\ cs' = NoChangeSet
         /\ expected' = NoTree /\ found' = 0
         /\ UNCHANGED <<admission, head, log, rest, journal, edits>>

\* A check fails and the call throws.
Throws == ~Accepts /\ Stops

\* A crash, or an error of the file system, the store or the consumer.
Fails == Accepts /\ Stops

\* Commits to the authority repository that do not come from here: a new
\* version of a target, a return to an earlier one, or something else.
Known(c) == {Original, Foreign} \union
            {log[i] : i \in {j \in DOMAIN log : rcpt[log[j].receipt].cand = c}}
OthersCommit ==
    /\ rest' \in Rests
    /\ \E c \in Cands, v \in Versions :
           v \in Known(c) /\ head' = [head EXCEPT ![c] = v]
    /\ edits < MaxEdits /\ edits' = edits + 1
    /\ UNCHANGED <<admission, log, journal, work>>

Admission == AdmissionNext /\ UNCHANGED <<log, rest, journal, work, edits>>

Next ==
    \/ Admission
    \/ \E c \in ChangeSets : Publish(c) \/ Recover(c)
    \/ Step \/ Throws \/ Fails \/ OthersCommit

Spec == Init /\ [][Next]_vars

\* A call goes on once it is made, whoever publishes recovers what a journal
\* says is under way, and there is an end to crashes and errors. (The last
\* step of a publication that was complete already looks like an error.)
RetrySpec ==
    /\ Spec /\ WF_vars(Step \/ Throws)
    /\ <>[][Fails => Complete]_vars
    /\ \A c \in ChangeSets : SF_vars(Recover(c))

-----------------------------------------------------------------------------
(* Types: the journal satisfies FilePublicationJournal's own validation    *)
(* (status prepared exactly while there is no commit).                     *)
TypeOK ==
    /\ AdmissionTypeOK
    /\ log \in Seq(ChangeSets)
    /\ rest \in Rests
    /\ journal \in [ChangeSets -> Prepared \union Recorded \union {NoJournal}]
    /\ pc \in PCs
    /\ cs \in ChangeSets \union {NoChangeSet}
    /\ expected \in Trees \union {NoTree}
    /\ found \in Nat
    /\ edits \in 0..MaxEdits

\* An approval authorizes at most one commit, whatever is retried after
\* whichever crash (resume looks for the commit before it makes one).
OneCommitPerApproval ==
    \A i, j \in DOMAIN log : log[i].receipt = log[j].receipt => i = j

\* A finalized approval names the commit of what it was claimed for, and a
\* completed journal belongs to a finalized approval with the same commit.
SettledMeansCommitted ==
    /\ \A q \in Requests :
        Issued(q) /\ rcpt[q].finalization # 0 =>
            /\ rcpt[q].finalization \in DOMAIN log
            /\ log[rcpt[q].finalization] = [receipt |-> q, ops |-> rcpt[q].artifact]
            /\ rcpt[q].consumed
    /\ \A c \in ChangeSets :
        journal[c] # NoJournal /\ journal[c].status = "completed" =>
            rcpt[c.receipt].finalization = journal[c].commit

\* A commit is made only on top of the version the owner reviewed, although
\* others commit to the same repository between validation and commit.
PublishedOnReviewedBase ==
    [][log' # log => BaseOf(cs.receipt) = head[rcpt[cs.receipt].cand]]_vars

\* Publication and admission implement the ledger of approvals. (Use of an
\* approval without a publication, consumeApprovalReceipt, is no step of it.)
Committed(q) == {i \in DOMAIN log : log[i].receipt = q}
StageOf(q) ==
    CASE ~Approved(q) -> "none"
      [] Approved(q) /\ rcpt[q].invalidated -> "revoked"
      [] Approved(q) /\ ~rcpt[q].invalidated /\ rcpt[q].artifact = NoOps -> "live"
      [] OTHER -> IF rcpt[q].finalization # 0 THEN "settled"
                  ELSE IF Committed(q) # {} THEN "published" ELSE "claimed"
Ledger == INSTANCE ApprovalLedger WITH
    Approvals <- Requests,
    stage <- [q \in Requests |-> StageOf(q)],
    claim <- [q \in Requests |-> IF Issued(q) THEN rcpt[q].artifact ELSE NoOps],
    commits <- [q \in Requests |-> Cardinality(Committed(q))]
ImplementsLedger == Ledger!Spec

\* What is committed ends up consumed and completed.
PublishedGetsSettled ==
    \A c \in ChangeSets :
        Logged(c) ~> /\ journal[c] # NoJournal /\ journal[c].status = "completed"
                     /\ rcpt[c.receipt].finalization # 0

\* An approval that was used up without a publication is never published
\* ("to be published once", "enforces single-use publication semantics").
SpentApprovalStaysSpent ==
    \A i \in DOMAIN log :
        rcpt[log[i].receipt].consumed => rcpt[log[i].receipt].finalization # 0
=============================================================================
