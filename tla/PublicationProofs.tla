-------------------------- MODULE PublicationProofs --------------------------
(***************************************************************************)
(* Safety of governed publication for every set of authorizations,         *)
(* candidates, requests, operations and repository contents, and any       *)
(* number of crashes, errors and commits of others; and the refinement:    *)
(* admission and publication together implement ApprovalLedger.            *)
(***************************************************************************)
EXTENDS Publication, CandidateAdmissionProofs, FiniteSetTheorems

\* The approval is claimed for what this change set does.
Holds(c) == Issued(c.receipt) /\ rcpt[c.receipt].artifact = c.ops

\* The tree t has the target of c at the version c was reviewed on.
OnBase(t, c) == t[1][rcpt[c.receipt].cand] = BaseOf(c.receipt)

\* What a journal says, finished or not, is so.
Journalled ==
    \A c \in ChangeSets : journal[c] # NoJournal =>
        /\ Holds(c)
        /\ OnBase(journal[c].tree, c)
        /\ journal[c].commit # 0 =>
            journal[c].commit \in DOMAIN log /\ log[journal[c].commit] = c

\* Every commit was made for a claimed approval.
Commits == \A i \in DOMAIN log : Holds(log[i])

\* What the publication under way has established so far.
Journals == {"resume", "revalidate", "commit", "record", "finalize", "complete"}
AtWork ==
    /\ pc # "idle" => cs \in ChangeSets /\ Issued(cs.receipt)
    /\ pc \in {"prepare", "write"} => expected \in Trees /\ OnBase(expected, cs)
    /\ pc = "write" => Holds(cs)
    /\ pc \in Journals \union {"reprepare"} => journal[cs] # NoJournal
    /\ pc \in {"revalidate", "commit"} => ~Logged(cs)
    /\ pc \in {"record", "finalize", "complete"} => found \in DOMAIN log /\ log[found] = cs
    /\ pc = "record" => journal[cs].commit = 0
    /\ pc \in {"finalize", "complete"} => journal[cs].commit = found
    /\ pc = "complete" => rcpt[cs.receipt].finalization = found

IInv == /\ TypeOK /\ Fresh /\ Reviewed /\ LiveApprovalIsLatest
        /\ Journalled /\ Commits /\ AtWork
        /\ OneCommitPerApproval /\ SettledMeansCommitted

-----------------------------------------------------------------------------
(* The initial states.                                                     *)
LEMMA InitInv == Init => IInv
<1> SUFFICES ASSUME Init PROVE IInv
    OBVIOUS
<1>1. AdmissionInv /\ \A q \in Requests : ~Issued(q)
    BY AdmissionInitInv DEF Init, AdmissionInit, Issued
<1>2. TypeOK
    BY <1>1, EditsAssumption DEF Init, TypeOK, AdmissionInv, PCs
<1>3. Journalled /\ Commits /\ AtWork
    BY DEF Init, Journalled, Commits, AtWork, Journals
<1>4. OneCommitPerApproval /\ SettledMeansCommitted
    BY <1>1 DEF Init, OneCommitPerApproval, SettledMeansCommitted
<1> QED
    BY <1>1, <1>2, <1>3, <1>4 DEF IInv, AdmissionInv

(* A claim survives whatever leaves the receipt untouched, and so does the *)
(* base of a tree.                                                         *)
LEMMA Kept ==
    ASSUME TypeOK, Reviewed, Grown, \A q \in Requests : Untouched(q),
           NEW c \in ChangeSets, Issued(c.receipt)
    PROVE  /\ Issued(c.receipt)'
           /\ rcpt'[c.receipt].finalization = rcpt[c.receipt].finalization
           /\ Holds(c) => Holds(c)'
           /\ \A t \in Trees : OnBase(t, c) => t[1][rcpt'[c.receipt].cand] = BaseOf(c.receipt)'
<1>1. /\ c.receipt \in Requests /\ rcpt[c.receipt] \in Receipt
      /\ rcpt[c.receipt].cand \in Cands
    BY DEF ChangeSets, TypeOK, AdmissionTypeOK, Issued, Receipt
<1>2. rcpt[c.receipt].rev \in 1..Latest(rcpt[c.receipt].cand)
    BY <1>1 DEF Reviewed
<1>3. revs'[rcpt[c.receipt].cand][rcpt[c.receipt].rev] = BaseOf(c.receipt)
    BY <1>1, <1>2 DEF Grown, BaseOf
<1> QED
    BY <1>1, <1>3 DEF Untouched, Issued, Holds, OnBase, BaseOf

(* Admission beside a publication.                                         *)
LEMMA AdmissionStep ==
    ASSUME IInv, Admission
    PROVE  IInv'
<1>1. AdmissionInv /\ AdmissionNext /\ UNCHANGED <<log, rest, journal, work, edits>>
    BY DEF IInv, TypeOK, AdmissionInv, Admission
<1>2. AdmissionInv' /\ Grown /\ (\A q \in Requests : Untouched(q)) /\ head' = head
    BY <1>1, AdmissionKeeps
<1>3. TypeOK'
    BY <1>1, <1>2 DEF IInv, TypeOK, AdmissionInv, work
<1>4. ASSUME NEW c \in ChangeSets, Issued(c.receipt)
      PROVE  /\ Issued(c.receipt)'
             /\ rcpt'[c.receipt].finalization = rcpt[c.receipt].finalization
             /\ Holds(c) => Holds(c)'
             /\ \A t \in Trees : OnBase(t, c) => t[1][rcpt'[c.receipt].cand] = BaseOf(c.receipt)'
    BY <1>2, <1>4, Kept DEF IInv
<1>5. \A c \in ChangeSets : journal[c] # NoJournal => journal[c].tree \in Trees
    BY DEF IInv, TypeOK, Prepared, Recorded
<1>6. Journalled'
    BY <1>1, <1>4, <1>5 DEF IInv, Journalled, Holds, OnBase
<1>7. Commits'
    BY <1>1, <1>4 DEF IInv, Commits, Holds, TypeOK
<1>8. AtWork'
    BY <1>1, <1>4 DEF IInv, AtWork, Logged, OnBase, work, Holds
<1>9. OneCommitPerApproval' /\ SettledMeansCommitted'
    <2>1. OneCommitPerApproval'
        BY <1>1 DEF IInv, OneCommitPerApproval
    <2>2. ASSUME NEW q \in Requests, Issued(q)', rcpt'[q].finalization # 0
          PROVE  /\ rcpt'[q].finalization \in DOMAIN log'
                 /\ log'[rcpt'[q].finalization] = [receipt |-> q, ops |-> rcpt'[q].artifact]
                 /\ rcpt'[q].consumed
        <3>1. CASE Issued(q)
            BY <1>1, <1>2, <2>2, <3>1 DEF IInv, SettledMeansCommitted, Untouched
        <3>2. CASE ~Issued(q)
            BY <1>1, <2>2, <3>2, FreshReceipt DEF AdmissionInv
        <3> QED
            BY <3>1, <3>2
    <2>3. ASSUME NEW c \in ChangeSets, journal[c] # NoJournal
          PROVE  rcpt'[c.receipt].finalization = rcpt[c.receipt].finalization
        BY <1>4, <2>3 DEF IInv, Journalled, Holds
    <2> QED
        BY <1>1, <2>1, <2>2, <2>3 DEF IInv, SettledMeansCommitted
<1> QED
    BY <1>2, <1>3, <1>6, <1>7, <1>8, <1>9 DEF IInv, AdmissionInv

(* Steps that write nothing durable of ours.                               *)
LEMMA Quiet ==
    ASSUME IInv, UNCHANGED <<admission, log, journal>>
    PROVE  /\ Fresh' /\ Reviewed' /\ LiveApprovalIsLatest'
           /\ Journalled' /\ Commits' /\ OneCommitPerApproval' /\ SettledMeansCommitted'
<1>1. Fresh' /\ Reviewed' /\ LiveApprovalIsLatest'
    BY DEF IInv, admission, Fresh, Reviewed, LiveApprovalIsLatest, Issued, IsPending, Live,
           Approved, Latest
<1>2. Journalled' /\ Commits'
    BY DEF IInv, admission, Journalled, Commits, Holds, OnBase, BaseOf, Issued
<1>3. OneCommitPerApproval' /\ SettledMeansCommitted'
    BY DEF IInv, admission, OneCommitPerApproval, SettledMeansCommitted, Issued
<1> QED
    BY <1>1, <1>2, <1>3

LEMMA CallStep ==
    ASSUME IInv, NEW c \in ChangeSets, Publish(c) \/ Recover(c)
    PROVE  IInv'
<1>1. UNCHANGED <<admission, log, journal>>
    BY DEF Publish, Recover
<1>2. TypeOK'
    BY DEF IInv, TypeOK, AdmissionTypeOK, admission, Publish, Recover, PCs
<1>3. Issued(c.receipt)'
    BY DEF IInv, Publish, Recover, Approved, Issued, Journalled, Holds, admission
<1>4. AtWork'
    BY <1>3 DEF AtWork, Publish, Recover, Journals
<1> QED
    BY <1>1, <1>2, <1>4, Quiet DEF IInv

LEMMA StopStep ==
    ASSUME IInv, Stops
    PROVE  IInv'
<1>1. UNCHANGED <<admission, log, journal>>
    BY DEF Stops
<1>2. TypeOK'
    BY DEF IInv, TypeOK, AdmissionTypeOK, admission, Stops, PCs
<1>3. AtWork'
    BY DEF AtWork, Stops, Journals
<1> QED
    BY <1>1, <1>2, <1>3, Quiet DEF IInv

LEMMA OthersStep ==
    ASSUME IInv, OthersCommit
    PROVE  IInv'
<1>1. UNCHANGED <<admission, log, journal, work>>
    BY DEF OthersCommit
<1>2. TypeOK'
    BY EditsAssumption DEF IInv, TypeOK, AdmissionTypeOK, admission, work, OthersCommit
<1>3. AtWork'
    BY <1>1 DEF IInv, AtWork, Logged, OnBase, Holds, BaseOf, Issued, work, admission
<1> QED
    BY <1>1, <1>2, <1>3, Quiet DEF IInv

(* Validation establishes that the tree has the reviewed base.             *)
LEMMA ValidateStep ==
    ASSUME IInv, Validate
    PROVE  IInv'
<1>1. UNCHANGED <<admission, log, journal>>
    BY DEF Validate
<1>2. Tree \in Trees /\ cs \in ChangeSets /\ Issued(cs.receipt)
    BY DEF IInv, TypeOK, AdmissionTypeOK, Tree, Trees, AtWork, Validate
<1>3. TypeOK'
    BY <1>2 DEF IInv, TypeOK, AdmissionTypeOK, admission, Validate, PCs
<1>4. OnBase(Tree, cs)
    BY DEF Validate, Accepts, BaseMatches, OnBase, Tree
<1>5. AtWork'
    BY <1>1, <1>2, <1>4
    DEF Validate, AtWork, Journals, OnBase, BaseOf, Issued, admission
<1> QED
    BY <1>1, <1>3, <1>5, Quiet DEF IInv

(* Resuming finds the commit, or there is none.                            *)
LEMMA Found ==
    ASSUME TypeOK, NEW c \in ChangeSets
    PROVE  /\ FindCommit(c) \in Nat
           /\ Logged(c) => FindCommit(c) \in DOMAIN log /\ log[FindCommit(c)] = c
           /\ FindCommit(c) = 0 <=> ~Logged(c)
<1>1. DOMAIN log \subseteq Nat \ {0}
    BY DEF TypeOK
<1> QED
    BY <1>1 DEF FindCommit, Logged

LEMMA ResumeStep ==
    ASSUME IInv, Resume
    PROVE  IInv'
<1>1. UNCHANGED <<admission, log, journal, cs>>
    BY DEF Resume
<1>2. /\ cs \in ChangeSets /\ Issued(cs.receipt) /\ journal[cs] # NoJournal
      /\ found' = FindCommit(cs) /\ Resumable(cs)
    BY DEF IInv, AtWork, Resume, Journals, Accepts
<1>3. TypeOK'
    BY <1>2, Found DEF IInv, TypeOK, AdmissionTypeOK, admission, Resume, PCs
<1>4. /\ found' # 0 => found' \in DOMAIN log /\ log[found'] = cs
      /\ found' = 0 => ~Logged(cs)
      /\ journal[cs].commit # 0 => found' = journal[cs].commit
    BY <1>2, Found DEF IInv, Resumable
<1>5. pc' = "revalidate" \/ pc' = "record" \/ pc' = "finalize"
    BY DEF Resume
<1>6. /\ pc' = "revalidate" => found' = 0
      /\ pc' = "record" => found' # 0 /\ journal[cs].commit = 0
      /\ pc' = "finalize" => found' # 0 /\ journal[cs].commit # 0
    BY DEF Resume
<1>7. AtWork'
    BY <1>1, <1>2, <1>4, <1>5, <1>6 DEF AtWork, Journals, Logged, Issued, admission
<1> QED
    BY <1>1, <1>3, <1>7, Quiet DEF IInv

LEMMA RevalidateStep ==
    ASSUME IInv, Revalidate
    PROVE  IInv'
<1>1. UNCHANGED <<admission, log, journal, cs>>
    BY DEF Revalidate
<1>2. TypeOK'
    BY DEF IInv, TypeOK, AdmissionTypeOK, admission, Revalidate, PCs
<1>3. AtWork'
    BY <1>1 DEF IInv, AtWork, Revalidate, Journals, Logged, Issued, admission
<1> QED
    BY <1>1, <1>2, <1>3, Quiet DEF IInv

(* Steps that write the journal of the change set under way.               *)
LEMMA JournalStep ==
    ASSUME IInv, UNCHANGED <<admission, log>>, cs \in ChangeSets, Holds(cs),
           NEW j \in Prepared \union Recorded, journal' = [journal EXCEPT ![cs] = j],
           OnBase(j.tree, cs),
           j.commit # 0 => j.commit \in DOMAIN log /\ log[j.commit] = cs,
           j.status = "completed" => rcpt[cs.receipt].finalization = j.commit
    PROVE  /\ Fresh' /\ Reviewed' /\ LiveApprovalIsLatest'
           /\ Journalled' /\ Commits' /\ OneCommitPerApproval' /\ SettledMeansCommitted'
           /\ journal' \in [ChangeSets -> Prepared \union Recorded \union {NoJournal}]
           /\ journal'[cs] = j /\ j # NoJournal
<1>1. Fresh' /\ Reviewed' /\ LiveApprovalIsLatest'
    BY DEF IInv, admission, Fresh, Reviewed, LiveApprovalIsLatest, Issued, IsPending, Live,
           Approved, Latest
<1>2. /\ journal' \in [ChangeSets -> Prepared \union Recorded \union {NoJournal}]
      /\ journal'[cs] = j /\ \A c \in ChangeSets : c # cs => journal'[c] = journal[c]
      /\ j # NoJournal
    BY JournalAssumption DEF IInv, TypeOK
<1>3. Journalled' /\ Commits'
    BY <1>2 DEF IInv, admission, Journalled, Commits, Holds, OnBase, BaseOf, Issued
<1>4. OneCommitPerApproval' /\ SettledMeansCommitted'
    BY <1>2 DEF IInv, admission, OneCommitPerApproval, SettledMeansCommitted, Issued
<1> QED
    BY <1>1, <1>2, <1>3, <1>4

LEMMA WriteJournalStep ==
    ASSUME IInv, WriteJournal
    PROVE  IInv'
<1> DEFINE j == [status |-> "prepared", tree |-> expected, commit |-> 0]
<1>1. /\ UNCHANGED <<admission, log, cs>> /\ cs \in ChangeSets /\ Holds(cs)
      /\ expected \in Trees /\ OnBase(expected, cs) /\ Issued(cs.receipt)
    BY DEF IInv, AtWork, WriteJournal
<1>2. /\ j \in Prepared /\ j.tree = expected /\ j.commit = 0 /\ j.status = "prepared"
      /\ journal' = [journal EXCEPT ![cs] = j]
    BY <1>1 DEF Prepared, WriteJournal
<1> HIDE DEF j
<1>3. /\ Fresh' /\ Reviewed' /\ LiveApprovalIsLatest'
      /\ Journalled' /\ Commits' /\ OneCommitPerApproval' /\ SettledMeansCommitted'
      /\ journal' \in [ChangeSets -> Prepared \union Recorded \union {NoJournal}]
      /\ journal'[cs] # NoJournal
    BY <1>1, <1>2, JournalStep
<1>4. TypeOK'
    BY <1>3 DEF IInv, TypeOK, AdmissionTypeOK, admission, WriteJournal, PCs
<1>5. AtWork'
    BY <1>1, <1>3 DEF WriteJournal, AtWork, Journals, Issued, admission
<1> QED
    BY <1>3, <1>4, <1>5 DEF IInv

\* The journal under way, with a new status and commit.
LEMMA RecordedIs ==
    ASSUME NEW j \in Prepared \union Recorded, NEW s \in {"committed", "completed"},
           NEW n \in Nat \ {0}
    PROVE  /\ [j EXCEPT !.status = s, !.commit = n] \in Recorded
           /\ [j EXCEPT !.status = s, !.commit = n].tree = j.tree
           /\ [j EXCEPT !.status = s, !.commit = n].commit = n
           /\ [j EXCEPT !.status = s, !.commit = n].status = s
           /\ j.commit = n => [j EXCEPT !.status = s] = [j EXCEPT !.status = s, !.commit = n]
    BY DEF Prepared, Recorded

LEMMA RecordCommitStep ==
    ASSUME IInv, RecordCommit
    PROVE  IInv'
<1> DEFINE j == [journal[cs] EXCEPT !.status = "committed", !.commit = found]
<1>1. /\ UNCHANGED <<admission, log, cs, found>> /\ cs \in ChangeSets
      /\ journal[cs] # NoJournal /\ found \in DOMAIN log /\ log[found] = cs
      /\ Issued(cs.receipt) /\ journal[cs] \in Prepared \union Recorded
      /\ found \in Nat \ {0}
    BY DEF IInv, AtWork, Journals, RecordCommit, TypeOK
<1>2. Holds(cs) /\ OnBase(journal[cs].tree, cs)
    BY <1>1 DEF IInv, Journalled
<1>3. /\ j \in Recorded /\ j.tree = journal[cs].tree /\ j.commit = found
      /\ j.status = "committed"
    BY <1>1, RecordedIs
<1>4. journal' = [journal EXCEPT ![cs] = j]
    BY <1>1 DEF RecordCommit
<1> HIDE DEF j
<1>5. /\ Fresh' /\ Reviewed' /\ LiveApprovalIsLatest'
      /\ Journalled' /\ Commits' /\ OneCommitPerApproval' /\ SettledMeansCommitted'
      /\ journal' \in [ChangeSets -> Prepared \union Recorded \union {NoJournal}]
      /\ journal'[cs] = j /\ j # NoJournal
    BY <1>1, <1>2, <1>3, <1>4, JournalStep
<1>6. TypeOK'
    BY <1>5 DEF IInv, TypeOK, AdmissionTypeOK, admission, RecordCommit, PCs
<1>7. AtWork'
    BY <1>1, <1>3, <1>5 DEF RecordCommit, AtWork, Journals, Issued, admission
<1> QED
    BY <1>5, <1>6, <1>7 DEF IInv

LEMMA CompleteStep ==
    ASSUME IInv, Complete
    PROVE  IInv'
<1> DEFINE j == [journal[cs] EXCEPT !.status = "completed", !.commit = found]
<1>1. /\ UNCHANGED <<admission, log>> /\ cs \in ChangeSets
      /\ journal[cs] # NoJournal /\ found \in DOMAIN log /\ log[found] = cs
      /\ journal[cs] \in Prepared \union Recorded
      /\ found \in Nat \ {0} /\ journal[cs].commit = found
      /\ rcpt[cs.receipt].finalization = found
    BY DEF IInv, AtWork, Journals, Complete, TypeOK
<1>2. Holds(cs) /\ OnBase(journal[cs].tree, cs)
    BY <1>1 DEF IInv, Journalled
<1>3. /\ j \in Recorded /\ j.tree = journal[cs].tree /\ j.commit = found
      /\ j.status = "completed" /\ j = [journal[cs] EXCEPT !.status = "completed"]
    BY <1>1, RecordedIs
<1> HIDE DEF j
<1>4. journal' = [journal EXCEPT ![cs] = j]
    BY <1>1, <1>3 DEF Complete
<1>5. /\ Fresh' /\ Reviewed' /\ LiveApprovalIsLatest'
      /\ Journalled' /\ Commits' /\ OneCommitPerApproval' /\ SettledMeansCommitted'
      /\ journal' \in [ChangeSets -> Prepared \union Recorded \union {NoJournal}]
    BY <1>1, <1>2, <1>3, <1>4, JournalStep
<1>6. TypeOK'
    BY <1>5 DEF IInv, TypeOK, AdmissionTypeOK, admission, Complete, PCs
<1>7. AtWork'
    BY DEF Complete, AtWork, Journals
<1> QED
    BY <1>5, <1>6, <1>7 DEF IInv

(* The commit itself: the one step that appends to the repository's log.   *)
LEMMA CommitStep ==
    ASSUME IInv, Commit
    PROVE  IInv'
<1>1. /\ UNCHANGED <<admission, journal, cs>> /\ cs \in ChangeSets /\ ~Logged(cs)
      /\ journal[cs] # NoJournal /\ Issued(cs.receipt) /\ found' = Len(log) + 1
    BY DEF IInv, AtWork, Journals, Commit
<1>2. /\ Holds(cs) /\ log \in Seq(ChangeSets) /\ log' = Append(log, cs)
      /\ journal[cs].commit = 0
    BY <1>1 DEF IInv, Journalled, TypeOK, Logged, Commit
<1>3. /\ DOMAIN log' = DOMAIN log \union {found'} /\ log'[found'] = cs
      /\ found' \in Nat /\ found' \notin DOMAIN log
      /\ \A i \in DOMAIN log : log'[i] = log[i] /\ log[i] \in ChangeSets
      /\ log' \in Seq(ChangeSets)
    BY <1>1, <1>2
<1>4. Fresh' /\ Reviewed' /\ LiveApprovalIsLatest'
    BY <1>1 DEF IInv, admission, Fresh, Reviewed, LiveApprovalIsLatest, Issued, IsPending,
                Live, Approved, Latest
<1>5. Journalled' /\ Commits'
    BY <1>1, <1>2, <1>3
    DEF IInv, admission, Journalled, Commits, Holds, OnBase, BaseOf, Issued
<1>6. OneCommitPerApproval'
    <2>1. ASSUME NEW i \in DOMAIN log, log[i].receipt = cs.receipt
          PROVE  FALSE
        <3>1. log[i].ops = cs.ops
            BY <1>2, <2>1 DEF IInv, Commits, Holds
        <3>2. log[i] = cs
            BY <1>1, <1>3, <2>1, <3>1 DEF ChangeSets
        <3> QED
            BY <1>1, <3>2 DEF Logged
    <2> QED
        BY <1>3, <2>1 DEF IInv, OneCommitPerApproval
<1>7. SettledMeansCommitted'
    BY <1>1, <1>3 DEF IInv, admission, SettledMeansCommitted, Issued
<1>8. head' \in [Cands -> Versions]
    BY <1>1 DEF Commit, IInv, TypeOK, AdmissionTypeOK, Versions
<1>9. TypeOK'
    BY <1>1, <1>3, <1>8 DEF IInv, TypeOK, AdmissionTypeOK, admission, Commit, PCs
<1>10. AtWork'
    BY <1>1, <1>2, <1>3 DEF Commit, AtWork, Journals, Issued, admission
<1> QED
    BY <1>4, <1>5, <1>6, <1>7, <1>9, <1>10 DEF IInv

(* Steps that write the receipt of the change set under way: its artifact  *)
(* and finalization, never what was decided.                               *)
LEMMA ReceiptStep ==
    ASSUME IInv, UNCHANGED <<auth, owner, revs, conf, head, log, journal, cs>>,
           cs \in ChangeSets, Issued(cs.receipt), NEW r \in Receipt,
           rcpt' = [rcpt EXCEPT ![cs.receipt] = r],
           r.auth = rcpt[cs.receipt].auth, r.cand = rcpt[cs.receipt].cand,
           r.rev = rcpt[cs.receipt].rev, r.artifact = cs.ops,
           rcpt[cs.receipt].artifact \in {NoOps, cs.ops}
    PROVE  /\ AdmissionTypeOK' /\ Fresh' /\ Reviewed' /\ LiveApprovalIsLatest'
           /\ Journalled' /\ Commits' /\ OneCommitPerApproval' /\ Holds(cs)'
           /\ rcpt'[cs.receipt] = r /\ Issued(cs.receipt)'
           /\ \A t \in Trees : OnBase(t, cs) =>
                t[1][rcpt'[cs.receipt].cand] = BaseOf(cs.receipt)'
<1>1. /\ cs.receipt \in Requests /\ cs.ops \in Ops
      /\ rcpt'[cs.receipt] = r /\ r # NoReceipt
      /\ \A q \in Requests : q # cs.receipt => rcpt'[q] = rcpt[q]
    BY ReceiptAssumption DEF IInv, TypeOK, AdmissionTypeOK, ChangeSets
<1>2. AdmissionTypeOK'
    BY <1>1 DEF IInv, TypeOK, AdmissionTypeOK
<1>3. Fresh' /\ Reviewed'
    BY <1>1 DEF IInv, Fresh, Reviewed, Issued, IsPending, Latest
<1>4. \A q \in Requests : Live(q)' => q # cs.receipt /\ Live(q)
    BY <1>1, AdmissionAssumption DEF Live, Approved, Issued
<1>5. LiveApprovalIsLatest'
    BY <1>1, <1>4 DEF IInv, LiveApprovalIsLatest, IsPending, Latest
<1>6. ASSUME NEW c \in ChangeSets
      PROVE  /\ Holds(c) => Holds(c)'
             /\ \A t : OnBase(t, c) => t[1][rcpt'[c.receipt].cand] = BaseOf(c.receipt)'
    <2>1. Holds(c) => Holds(c)'
        <3>1. c.receipt \in Requests /\ c.ops \in Ops
            BY DEF ChangeSets
        <3> QED
            BY <1>1, <3>1, AdmissionAssumption DEF Holds, Issued
    <2>2. c.receipt \in Requests
        BY DEF ChangeSets
    <2> QED
        BY <1>1, <2>1, <2>2 DEF OnBase, BaseOf
<1>7. Journalled'
    BY <1>6 DEF IInv, Journalled, OnBase
<1>8. Commits' /\ OneCommitPerApproval'
    BY <1>6 DEF IInv, Commits, OneCommitPerApproval, TypeOK
<1>9. Issued(cs.receipt)' /\ Holds(cs)'
    BY <1>1 DEF Issued, Holds
<1> QED
    BY <1>1, <1>2, <1>3, <1>5, <1>6, <1>7, <1>8, <1>9

LEMMA PrepareStep ==
    ASSUME IInv, PreparePublication
    PROVE  IInv'
<1> DEFINE r == [rcpt[cs.receipt] EXCEPT !.artifact = cs.ops]
<1>1. /\ UNCHANGED <<auth, owner, revs, conf, head, log, rest, journal, cs, expected,
                     found, edits>>
      /\ cs \in ChangeSets /\ Issued(cs.receipt)
      /\ rcpt[cs.receipt].artifact \in {NoOps, cs.ops}
    BY DEF IInv, AtWork, PreparePublication, Accepts, Preparable
<1>2. rcpt[cs.receipt] \in Receipt /\ cs.receipt \in Requests /\ cs.ops \in Ops
    BY <1>1 DEF IInv, TypeOK, AdmissionTypeOK, ChangeSets, Issued
<1>3. /\ r \in Receipt /\ r.auth = rcpt[cs.receipt].auth /\ r.cand = rcpt[cs.receipt].cand
      /\ r.rev = rcpt[cs.receipt].rev /\ r.artifact = cs.ops
      /\ r.finalization = rcpt[cs.receipt].finalization
      /\ r.consumed = rcpt[cs.receipt].consumed
    BY <1>2 DEF Receipt
<1>4. rcpt' = [rcpt EXCEPT ![cs.receipt] = r]
    BY DEF PreparePublication, Claimed
<1> HIDE DEF r
<1>5. /\ AdmissionTypeOK' /\ Fresh' /\ Reviewed' /\ LiveApprovalIsLatest'
      /\ Journalled' /\ Commits' /\ OneCommitPerApproval' /\ Holds(cs)'
      /\ rcpt'[cs.receipt] = r /\ Issued(cs.receipt)'
      /\ \A t \in Trees : OnBase(t, cs) => t[1][rcpt'[cs.receipt].cand] = BaseOf(cs.receipt)'
    BY <1>1, <1>3, <1>4, ReceiptStep
<1>6. \A q \in Requests : q # cs.receipt => rcpt'[q] = rcpt[q]
    BY <1>2, <1>4 DEF IInv, TypeOK, AdmissionTypeOK
<1>7. SettledMeansCommitted'
    <2>1. ASSUME rcpt[cs.receipt].finalization # 0
          PROVE  rcpt[cs.receipt].artifact = cs.ops
        <3>1. /\ log[rcpt[cs.receipt].finalization].ops = rcpt[cs.receipt].artifact
              /\ rcpt[cs.receipt].finalization \in DOMAIN log
            <4>1. log[rcpt[cs.receipt].finalization] =
                    [receipt |-> cs.receipt, ops |-> rcpt[cs.receipt].artifact]
                  /\ rcpt[cs.receipt].finalization \in DOMAIN log
                BY <1>1, <1>2, <2>1 DEF IInv, SettledMeansCommitted
            <4> QED
                BY <4>1
        <3>2. log[rcpt[cs.receipt].finalization] \in ChangeSets
            BY <3>1 DEF IInv, TypeOK
        <3> QED
            BY <1>1, <3>1, <3>2, AdmissionAssumption DEF ChangeSets
    <2>2. \A c \in ChangeSets : rcpt'[c.receipt].finalization = rcpt[c.receipt].finalization
        BY <1>3, <1>5, <1>6 DEF ChangeSets
    <2> QED
        BY <1>1, <1>2, <1>3, <1>5, <1>6, <2>1, <2>2 DEF IInv, SettledMeansCommitted, Issued
<1>8. TypeOK'
    BY <1>1, <1>5 DEF IInv, TypeOK, PreparePublication, PCs
<1>9. AtWork'
    <2>1. pc = "prepare" => expected \in Trees /\ OnBase(expected, cs)
        BY DEF IInv, AtWork
    <2>2. pc = "reprepare" => journal[cs] # NoJournal
        BY DEF IInv, AtWork
    <2> QED
        BY <1>1, <1>5, <2>1, <2>2 DEF PreparePublication, AtWork, Journals, OnBase
<1> QED
    BY <1>5, <1>7, <1>8, <1>9 DEF IInv

LEMMA FinalizeStep ==
    ASSUME IInv, FinalizePublication
    PROVE  IInv'
<1> DEFINE r == [rcpt[cs.receipt] EXCEPT !.consumed = TRUE, !.finalization = found]
<1>1. /\ UNCHANGED <<auth, owner, revs, conf, head, log, rest, journal, cs, expected,
                     found, edits>>
      /\ cs \in ChangeSets /\ Issued(cs.receipt) /\ journal[cs] # NoJournal
      /\ rcpt[cs.receipt].artifact = cs.ops
      /\ rcpt[cs.receipt].finalization \in {0, found}
      /\ found \in DOMAIN log /\ log[found] = cs /\ journal[cs].commit = found
      /\ pc' = "complete" /\ found \in Nat
    BY DEF IInv, AtWork, Journals, FinalizePublication, Accepts, Finalizable, TypeOK
<1>2. rcpt[cs.receipt] \in Receipt /\ cs.receipt \in Requests /\ cs.ops \in Ops
    BY <1>1 DEF IInv, TypeOK, AdmissionTypeOK, ChangeSets, Issued
<1>3. /\ r \in Receipt /\ r.auth = rcpt[cs.receipt].auth /\ r.cand = rcpt[cs.receipt].cand
      /\ r.rev = rcpt[cs.receipt].rev /\ r.artifact = cs.ops
      /\ r.finalization = found /\ r.consumed
    BY <1>1, <1>2 DEF Receipt
<1>4. rcpt' = [rcpt EXCEPT ![cs.receipt] = r]
    BY DEF FinalizePublication
<1> HIDE DEF r
<1>5. /\ AdmissionTypeOK' /\ Fresh' /\ Reviewed' /\ LiveApprovalIsLatest'
      /\ Journalled' /\ Commits' /\ OneCommitPerApproval'
      /\ rcpt'[cs.receipt] = r /\ Issued(cs.receipt)'
    BY <1>1, <1>3, <1>4, ReceiptStep
<1>6. \A q \in Requests : q # cs.receipt => rcpt'[q] = rcpt[q]
    BY <1>2, <1>4 DEF IInv, TypeOK, AdmissionTypeOK
<1>7. SettledMeansCommitted'
    <2>1. log[found] = [receipt |-> cs.receipt, ops |-> cs.ops]
        BY <1>1 DEF ChangeSets
    <2>2. ASSUME NEW c \in ChangeSets, journal[c] # NoJournal, c.receipt = cs.receipt
          PROVE  c = cs
        BY <1>1, <2>2 DEF IInv, Journalled, Holds, ChangeSets
    <2>3. \A q \in Requests :
            Issued(q)' /\ rcpt'[q].finalization # 0 =>
                /\ rcpt'[q].finalization \in DOMAIN log
                /\ log[rcpt'[q].finalization] = [receipt |-> q, ops |-> rcpt'[q].artifact]
                /\ rcpt'[q].consumed
        BY <1>1, <1>3, <1>5, <1>6, <2>1 DEF IInv, SettledMeansCommitted, Issued
    <2>4. \A c \in ChangeSets :
            journal[c] # NoJournal /\ journal[c].status = "completed" =>
                rcpt'[c.receipt].finalization = journal[c].commit
        <3>1. ASSUME NEW c \in ChangeSets
              PROVE  c.receipt \in Requests
            BY DEF ChangeSets
        <3> QED
            BY <1>1, <1>3, <1>5, <1>6, <2>2, <3>1 DEF IInv, SettledMeansCommitted
    <2> QED
        BY <1>1, <2>3, <2>4 DEF SettledMeansCommitted
<1>8. TypeOK'
    BY <1>1, <1>5 DEF IInv, TypeOK, PCs
<1>9. AtWork'
    BY <1>1, <1>3, <1>5 DEF AtWork, Journals
<1> QED
    BY <1>5, <1>7, <1>8, <1>9 DEF IInv

-----------------------------------------------------------------------------
(* Every step keeps the invariant.                                         *)
LEMMA StepInv == IInv /\ [Next]_vars => IInv'
<1> SUFFICES ASSUME IInv, [Next]_vars PROVE IInv'
    OBVIOUS
<1>1. CASE Admission
    BY <1>1, AdmissionStep
<1>2. ASSUME NEW c \in ChangeSets, Publish(c) \/ Recover(c) PROVE IInv'
    BY <1>2, CallStep
<1>3. CASE Step
    BY <1>3, ValidateStep, PrepareStep, WriteJournalStep, ResumeStep, RevalidateStep,
       CommitStep, RecordCommitStep, FinalizeStep, CompleteStep DEF Step
<1>4. CASE Throws \/ Fails
    BY <1>4, StopStep DEF Throws, Fails
<1>5. CASE OthersCommit
    BY <1>5, OthersStep
<1>6. CASE UNCHANGED vars
    <2>1. UNCHANGED <<admission, log, journal>> /\ UNCHANGED <<head, rest, work, edits>>
        BY <1>6 DEF vars, admission, work
    <2>2. TypeOK'
        BY <2>1 DEF IInv, TypeOK, AdmissionTypeOK, admission, work
    <2>3. AtWork'
        BY <2>1 DEF IInv, AtWork, Logged, OnBase, Holds, BaseOf, Issued, work, admission
    <2> QED
        BY <2>1, <2>2, <2>3, Quiet DEF IInv
<1> QED
    BY <1>1, <1>2, <1>3, <1>4, <1>5, <1>6 DEF Next

\* The inductive invariant holds in every reachable state.
THEOREM PublicationInvariant == Spec => []IInv
BY InitInv, StepInv, PTL DEF Spec

\* Types, the journal's own validity among them.
THEOREM PublicationTypes == Spec => []TypeOK
<1>1. IInv => TypeOK
    BY DEF IInv
<1> QED
    BY <1>1, PublicationInvariant, PTL

\* Nothing that can still be approved or claimed is out of date.
THEOREM LiveApprovals == Spec => []LiveApprovalIsLatest
<1>1. IInv => LiveApprovalIsLatest
    BY DEF IInv
<1> QED
    BY <1>1, PublicationInvariant, PTL

\* No approval is published twice.
THEOREM SinglePublication == Spec => []OneCommitPerApproval
<1>1. IInv => OneCommitPerApproval
    BY DEF IInv
<1> QED
    BY <1>1, PublicationInvariant, PTL

\* Finalized means committed, completed means finalized.
THEOREM Settlement == Spec => []SettledMeansCommitted
<1>1. IInv => SettledMeansCommitted
    BY DEF IInv
<1> QED
    BY <1>1, PublicationInvariant, PTL

\* Our commits are made on the version the owner reviewed.
THEOREM ReviewedBase == Spec => PublishedOnReviewedBase
<1>1. IInv /\ [Next]_vars => [log' # log => BaseOf(cs.receipt) = head[rcpt[cs.receipt].cand]]_vars
    <2> SUFFICES ASSUME IInv, Next, log' # log
                 PROVE  BaseOf(cs.receipt) = head[rcpt[cs.receipt].cand]
        OBVIOUS
    <2>1. Commit
        BY DEF Next, Admission, Publish, Recover, Step, Validate, PreparePublication,
               WriteJournal, Resume, Revalidate, RecordCommit, FinalizePublication, Complete,
               Throws, Fails, Stops, OthersCommit
    <2>2. Tree = journal[cs].tree /\ OnBase(journal[cs].tree, cs)
        BY <2>1 DEF Commit, Accepts, IInv, AtWork, Journals, Journalled
    <2> QED
        BY <2>2 DEF OnBase, Tree
<1> QED
    BY <1>1, PublicationInvariant, PTL DEF Spec, PublishedOnReviewedBase

------------------------------------------------------------------------------
(* The refinement: Spec => Ledger!Spec.                                     *)

\* What is claimed was approved and stays valid.
ClaimedIsValid ==
    \A q \in Requests : Issued(q) /\ rcpt[q].artifact # NoOps =>
        rcpt[q].decision = "approved" /\ ~rcpt[q].invalidated

\* The four things admission does to receipts.
Issues(q, r) ==
    /\ ~Issued(q) /\ rcpt' = [rcpt EXCEPT ![q] = r]
    /\ ~r.invalidated /\ r.artifact = NoOps /\ r.finalization = 0
Spends(q) ==
    /\ Issued(q) /\ rcpt[q].artifact = NoOps
    /\ rcpt' = [rcpt EXCEPT ![q].consumed = TRUE]

LEMMA ReceiptMoves ==
    ASSUME IInv, AdmissionNext
    PROVE  \/ rcpt' = rcpt
           \/ \E asked \in SUBSET Requests, decided \in SUBSET Requests :
                Invalidate(asked, decided)
           \/ \E q \in Requests, r \in Receipt : Issues(q, r)
           \/ \E q \in Requests : Spends(q)
<1>1. ASSUME NEW q \in Requests, NEW action \in {"accept", "reject", "request-rewrite"},
             Decide(q, action)
      PROVE  rcpt' = rcpt \/ \E r \in Receipt : Issues(q, r)
    <2> DEFINE r == [auth |-> conf[q].auth, cand |-> conf[q].cand, rev |-> conf[q].rev,
                     decision |-> IF action = "reject" THEN "rejected" ELSE "approved",
                     consumed |-> FALSE, invalidated |-> FALSE,
                     artifact |-> NoOps, finalization |-> 0]
    <2>1. conf[q] \in Pending /\ ~Issued(q)
        BY <1>1 DEF IInv, TypeOK, AdmissionTypeOK, Decide, IsPending, Fresh
    <2>2. r \in Receipt
        BY <2>1 DEF Pending, Receipt
    <2>3. rcpt' = rcpt \/ rcpt' = [rcpt EXCEPT ![q] = r]
        BY <1>1 DEF Decide
    <2> QED
        BY <2>1, <2>2, <2>3 DEF Issues
<1>2. ASSUME NEW q \in Requests, ConsumeApprovalReceipt(q)
      PROVE  Spends(q)
    BY <1>2 DEF ConsumeApprovalReceipt, Spends, Approved
<1>3. ASSUME NEW c \in Cands, InvalidateCandidateApprovals(c)
      PROVE  \E asked \in SUBSET Requests, decided \in SUBSET Requests :
                Invalidate(asked, decided)
    BY <1>3 DEF InvalidateCandidateApprovals
<1>4. ASSUME NEW a \in Auths, EndDiscovery(a)
      PROVE  \E asked \in SUBSET Requests, decided \in SUBSET Requests :
                Invalidate(asked, decided)
    BY <1>4 DEF EndDiscovery
<1> QED
    BY <1>1, <1>2, <1>3, <1>4
    DEF AdmissionNext, AuthorizeDiscovery, AuthorizationExpires, CreateCandidate,
        ReviseCandidate, PrepareConfirmation, BindConfirmationMessage, WithdrawConfirmation

\* The refinement mapping.
Stage == [q \in Requests |-> StageOf(q)]
Claim == [q \in Requests |-> IF Issued(q) THEN rcpt[q].artifact ELSE NoOps]
Count == [q \in Requests |-> Cardinality(Committed(q))]

(* The stages read off a receipt and the log.                              *)
LEMMA Stages ==
    ASSUME NEW q \in Requests
    PROVE  /\ Stage[q] = "none" <=> ~Approved(q)
           /\ Stage[q] = "revoked" <=> Approved(q) /\ rcpt[q].invalidated
           /\ Stage[q] = "live" <=> /\ Approved(q) /\ ~rcpt[q].invalidated
                                    /\ rcpt[q].artifact = NoOps
    BY DEF Stage, StageOf

LEMMA InitLedger == Init => Ledger!Init
<1> SUFFICES ASSUME Init PROVE Ledger!Init
    OBVIOUS
<1>1. \A q \in Requests : ~Issued(q) /\ ~Approved(q)
    BY DEF Init, AdmissionInit, Issued, Approved
<1>2. Stage = [q \in Requests |-> "none"] /\ Claim = [q \in Requests |-> NoOps]
    BY <1>1 DEF Stage, StageOf, Claim
<1>3. \A q \in Requests : Committed(q) = {}
    BY DEF Committed, Init
<1>4. Count = [q \in Requests |-> 0]
    BY <1>3, FS_EmptySet DEF Count
<1> QED
    BY <1>2, <1>4 DEF Ledger!Init, Stage, Claim, Count

-----------------------------------------------------------------------------
\* The step leaves alone what the mapping reads of the receipt of q.
Alike(q) ==
    /\ Issued(q)' <=> Issued(q)
    /\ Issued(q) => /\ rcpt'[q].decision = rcpt[q].decision
                    /\ rcpt'[q].invalidated = rcpt[q].invalidated
                    /\ rcpt'[q].artifact = rcpt[q].artifact
                    /\ rcpt'[q].finalization = rcpt[q].finalization

(* Such a step does not move q in the ledger, unless it is a commit.       *)
LEMMA AlikeStays ==
    ASSUME NEW q \in Requests, Alike(q), Committed(q)' = Committed(q)
    PROVE  Stage'[q] = Stage[q] /\ Claim'[q] = Claim[q] /\ Count'[q] = Count[q]
<1>1. Approved(q)' <=> Approved(q)
    BY DEF Alike, Approved
<1>2. Approved(q) => Issued(q)
    BY DEF Approved
<1>3. StageOf(q)' = StageOf(q)
    BY <1>1, <1>2 DEF Alike, StageOf
<1> QED
    BY <1>3 DEF Alike, Stage, Claim, Count

LEMMA Stutters ==
    ASSUME log' = log, \A q \in Requests : Alike(q)
    PROVE  UNCHANGED Ledger!ledger
<1>1. \A q \in Requests : Committed(q)' = Committed(q)
    BY DEF Committed
<1>2. \A q \in Requests :
        Stage'[q] = Stage[q] /\ Claim'[q] = Claim[q] /\ Count'[q] = Count[q]
    BY <1>1, AlikeStays
<1>3. Stage' = Stage /\ Claim' = Claim /\ Count' = Count
    BY <1>2 DEF Stage, Claim, Count
<1> QED
    BY <1>3 DEF Ledger!ledger, Stage, Claim, Count

(* One receipt changes and the log does not.                               *)
LEMMA OneMoves ==
    ASSUME log' = log, NEW q \in Requests, NEW r, rcpt' = [rcpt EXCEPT ![q] = r],
           AdmissionTypeOK
    PROVE  /\ rcpt'[q] = r
           /\ Stage' = [Stage EXCEPT ![q] = StageOf(q)']
           /\ Claim' = [Claim EXCEPT ![q] = IF Issued(q)' THEN r.artifact ELSE NoOps]
           /\ Count' = Count
           /\ \A p \in Requests : p # q => Alike(p)
<1>1. /\ rcpt'[q] = r /\ \A p \in Requests : p # q => rcpt'[p] = rcpt[p]
    BY DEF AdmissionTypeOK
<1>2. \A p \in Requests : p # q => Alike(p)
    BY <1>1 DEF Alike, Issued
<1>3. \A p \in Requests : Committed(p)' = Committed(p)
    BY DEF Committed
<1>4. \A p \in Requests : p # q => Stage'[p] = Stage[p] /\ Claim'[p] = Claim[p]
    BY <1>2, <1>3, AlikeStays
<1>5. \A p \in Requests : Stage'[p] = [Stage EXCEPT ![q] = StageOf(q)'][p]
    BY <1>4 DEF Stage
<1>6. Stage' = [Stage EXCEPT ![q] = StageOf(q)']
    BY <1>5 DEF Stage
<1>7. Claim' = [Claim EXCEPT ![q] = IF Issued(q)' THEN r.artifact ELSE NoOps]
    <2> DEFINE v == IF Issued(q)' THEN r.artifact ELSE NoOps
    <2>1. Claim'[q] = v
        BY <1>1 DEF Claim
    <2> HIDE DEF v
    <2>2. \A p \in Requests : Claim'[p] = [Claim EXCEPT ![q] = v][p]
        BY <1>4, <2>1 DEF Claim
    <2>3. Claim' = [Claim EXCEPT ![q] = v]
        BY <2>2 DEF Claim
    <2> QED
        BY <2>3 DEF v
<1>8. Count' = Count
    BY <1>3 DEF Count
<1> QED
    BY <1>1, <1>2, <1>6, <1>7, <1>8

-----------------------------------------------------------------------------
(* What is claimed stays valid: it is valid when it is claimed, and it is  *)
(* not revocable any more.                                                 *)
LEMMA ClaimedInv ==
    ASSUME IInv, ClaimedIsValid, [Next]_vars
    PROVE  ClaimedIsValid'
<1> USE DEF ClaimedIsValid
<1>0. AdmissionTypeOK
    BY DEF IInv, TypeOK
<1>1. ASSUME UNCHANGED rcpt PROVE ClaimedIsValid'
    BY <1>1 DEF Issued
<1>2. ASSUME NEW asked, NEW decided, Invalidate(asked, decided) PROVE ClaimedIsValid'
    <2>1. ASSUME NEW q \in Requests
          PROVE  \/ rcpt'[q] = rcpt[q]
                 \/ Issued(q) /\ rcpt'[q].artifact = NoOps
        <3>1. \/ rcpt'[q] = rcpt[q]
              \/ /\ Issued(q) /\ rcpt[q].artifact = NoOps
                 /\ rcpt'[q] = [rcpt[q] EXCEPT !.invalidated = TRUE]
            BY <1>2 DEF Invalidate, Revocable
        <3>2. Issued(q) => rcpt[q] \in Receipt
            BY <1>0 DEF AdmissionTypeOK, Issued
        <3> QED
            BY <3>1, <3>2 DEF Receipt
    <2> QED
        BY <2>1 DEF Issued
<1>3. ASSUME NEW q \in Requests, NEW r \in Receipt, Issues(q, r) PROVE ClaimedIsValid'
    BY <1>0, <1>3 DEF Issues, AdmissionTypeOK, Issued
<1>4. ASSUME NEW q \in Requests, Spends(q) PROVE ClaimedIsValid'
    BY <1>0, <1>4 DEF Spends, AdmissionTypeOK, Issued, Receipt
<1>5. CASE PreparePublication
    <2>1. /\ cs \in ChangeSets /\ cs.receipt \in Requests /\ Approved(cs.receipt)
          /\ ~rcpt[cs.receipt].invalidated
          /\ rcpt' = [rcpt EXCEPT ![cs.receipt].artifact = cs.ops]
        BY <1>5 DEF PreparePublication, Accepts, Preparable, Claimed, IInv, AtWork, ChangeSets
    <2> QED
        BY <1>0, <2>1 DEF AdmissionTypeOK, Issued, Receipt, Approved
<1>6. CASE FinalizePublication
    <2>1. /\ cs \in ChangeSets /\ cs.receipt \in Requests /\ Issued(cs.receipt)
          /\ rcpt' = [rcpt EXCEPT ![cs.receipt].consumed = TRUE,
                                  ![cs.receipt].finalization = found]
        BY <1>6 DEF FinalizePublication, IInv, AtWork, ChangeSets
    <2> QED
        BY <1>0, <2>1 DEF AdmissionTypeOK, Issued, Receipt
<1>7. ASSUME Admission PROVE ClaimedIsValid'
    BY <1>1, <1>2, <1>3, <1>4, <1>7, ReceiptMoves DEF Admission
<1> QED
    BY <1>1, <1>5, <1>6, <1>7
    DEF Next, vars, Publish, Recover, Step, Throws, Fails, Stops, OthersCommit, admission,
        Validate, WriteJournal, Resume, Revalidate, Commit, RecordCommit, Complete

(* Revocation takes back live approvals only.                              *)
LEMMA RevokeStep ==
    ASSUME IInv, log' = log, NEW asked, NEW decided, Invalidate(asked, decided)
    PROVE  [Ledger!Next]_(Ledger!ledger)
<1> DEFINE out == {q \in Requests : Stage[q] = "live" /\ Stage'[q] # "live"}
<1>0. AdmissionTypeOK
    BY DEF IInv, TypeOK
<1>1. ASSUME NEW q \in Requests
      PROVE  \/ Alike(q) /\ rcpt'[q] = rcpt[q]
             \/ /\ Issued(q) /\ Issued(q)' /\ rcpt[q].artifact = NoOps
                /\ rcpt'[q] = [rcpt[q] EXCEPT !.invalidated = TRUE]
                /\ rcpt'[q].artifact = rcpt[q].artifact
                /\ rcpt'[q].decision = rcpt[q].decision
                /\ rcpt'[q].invalidated
    BY <1>0, ReceiptAssumption
    DEF Invalidate, Revocable, AdmissionTypeOK, Issued, Receipt, Alike
<1>2. \A q \in Requests : Committed(q)' = Committed(q)
    BY DEF Committed
<1>3. ASSUME NEW q \in Requests
      PROVE  /\ Claim'[q] = Claim[q] /\ Count'[q] = Count[q]
             /\ Stage'[q] = Stage[q] \/ (Stage[q] = "live" /\ Stage'[q] = "revoked")
    <2>1. CASE Alike(q)
        BY <1>2, <2>1, AlikeStays
    <2>2. CASE ~Alike(q)
        <3>1. /\ Issued(q) /\ Issued(q)' /\ rcpt[q].artifact = NoOps
              /\ rcpt'[q].artifact = rcpt[q].artifact
              /\ rcpt'[q].decision = rcpt[q].decision
              /\ rcpt'[q].invalidated
            BY <1>1, <2>2
        <3>2. Approved(q)' <=> Approved(q)
            BY <3>1 DEF Approved
        <3>3. StageOf(q)' = IF Approved(q) THEN "revoked" ELSE "none"
            BY <3>1, <3>2 DEF StageOf
        <3>4. StageOf(q) = IF ~Approved(q) THEN "none"
                           ELSE IF rcpt[q].invalidated THEN "revoked" ELSE "live"
            BY <3>1 DEF StageOf
        <3> QED
            BY <1>2, <3>1, <3>3, <3>4 DEF Stage, Claim, Count
    <2> QED
        BY <2>1, <2>2
<1>4. /\ Stage' = [q \in Requests |-> IF q \in out THEN "revoked" ELSE Stage[q]]
      /\ Claim' = Claim /\ Count' = Count
    <2>1. \A q \in Requests : Stage'[q] = IF q \in out THEN "revoked" ELSE Stage[q]
        BY <1>3
    <2> QED
        BY <1>3, <2>1 DEF Stage, Claim, Count
<1>5. out \in SUBSET Requests /\ \A q \in out : Stage[q] = "live"
    OBVIOUS
<1> HIDE DEF out
<1>6. CASE out = {}
    <2>1. Stage' = Stage
        BY <1>4, <1>6 DEF Stage
    <2> QED
        BY <1>4, <2>1 DEF Ledger!ledger, Stage, Claim, Count
<1>7. CASE out # {}
    <2>1. Ledger!Revoke(out)
        BY <1>4, <1>5, <1>7 DEF Ledger!Revoke, Stage, Claim, Count
    <2> QED
        BY <1>5, <2>1 DEF Ledger!Next
<1> QED
    BY <1>6, <1>7

(* A decision enters an approval, or nothing when it is a rejection.       *)
LEMMA ApproveStep ==
    ASSUME IInv, log' = log, NEW q \in Requests, NEW r \in Receipt, Issues(q, r)
    PROVE  [Ledger!Next]_(Ledger!ledger)
<1>1. AdmissionTypeOK /\ rcpt' = [rcpt EXCEPT ![q] = r]
    BY DEF IInv, TypeOK, Issues
<1>2. /\ rcpt'[q] = r
      /\ Stage' = [Stage EXCEPT ![q] = StageOf(q)']
      /\ Claim' = [Claim EXCEPT ![q] = IF Issued(q)' THEN r.artifact ELSE NoOps]
      /\ Count' = Count
    BY <1>1, OneMoves
<1>3. Stage[q] = "none" /\ Claim[q] = NoOps /\ r.artifact = NoOps
    BY DEF Issues, Stage, StageOf, Approved, Claim
<1>4. Claim' = Claim
    BY <1>2, <1>3 DEF Claim
<1>5. StageOf(q)' = IF r.decision = "approved" THEN "live" ELSE "none"
    BY <1>2, ReceiptAssumption DEF StageOf, Approved, Issued, Issues
<1>6. CASE r.decision = "approved"
    <2>1. Ledger!Approve(q)
        BY <1>2, <1>3, <1>4, <1>5, <1>6 DEF Ledger!Approve, Stage, Claim, Count
    <2> QED
        BY <2>1 DEF Ledger!Next
<1>7. CASE r.decision # "approved"
    <2>1. Stage' = Stage
        BY <1>2, <1>3, <1>5, <1>7 DEF Stage
    <2> QED
        BY <1>2, <1>4, <2>1 DEF Ledger!ledger, Stage, Claim, Count
<1> QED
    BY <1>6, <1>7

(* Use without publication is not seen by the ledger.                      *)
LEMMA SpendStep ==
    ASSUME IInv, log' = log, NEW q \in Requests, Spends(q)
    PROVE  UNCHANGED Ledger!ledger
<1>1. AdmissionTypeOK
    BY DEF IInv, TypeOK
<1>2. \A p \in Requests : Alike(p)
    BY <1>1, ReceiptAssumption DEF Spends, Alike, AdmissionTypeOK, Issued, Receipt
<1> QED
    BY <1>2, Stutters

LEMMA AdmissionLedger ==
    ASSUME IInv, Admission
    PROVE  [Ledger!Next]_(Ledger!ledger)
<1>1. AdmissionNext /\ log' = log
    BY DEF Admission
<1>2. ASSUME UNCHANGED rcpt PROVE UNCHANGED Ledger!ledger
    BY <1>1, <1>2, Stutters DEF Alike, Issued
<1> QED
    BY <1>1, <1>2, ReceiptMoves, RevokeStep, ApproveStep, SpendStep

-----------------------------------------------------------------------------
(* Preparing a live approval claims it; preparing it again does nothing.   *)
LEMMA ClaimStep ==
    ASSUME IInv, ClaimedIsValid, PreparePublication
    PROVE  [Ledger!Next]_(Ledger!ledger)
<1>0. PICK q \in Requests, ops \in Ops : cs = [receipt |-> q, ops |-> ops]
    BY DEF IInv, AtWork, ChangeSets, PreparePublication
<1>1. /\ AdmissionTypeOK /\ log' = log
      /\ rcpt[q] \in Receipt /\ Approved(q) /\ ~rcpt[q].invalidated
      /\ rcpt[q].artifact \in {NoOps, ops} /\ rcpt' = [rcpt EXCEPT ![q].artifact = ops]
    BY <1>0 DEF IInv, TypeOK, AdmissionTypeOK, PreparePublication, Accepts, Preparable,
                Claimed, Approved, Issued
<1>2. PICK r \in Receipt :
        /\ rcpt' = [rcpt EXCEPT ![q] = r]
        /\ r.artifact = ops /\ r.decision = "approved" /\ ~r.invalidated
        /\ r.finalization = rcpt[q].finalization /\ r # NoReceipt
    <2> DEFINE r == [rcpt[q] EXCEPT !.artifact = ops]
    <2>1. /\ r \in Receipt /\ r.artifact = ops /\ r.decision = "approved" /\ ~r.invalidated
          /\ r.finalization = rcpt[q].finalization /\ r # NoReceipt
        BY <1>1, ReceiptAssumption DEF Receipt, Approved
    <2>2. rcpt' = [rcpt EXCEPT ![q] = r]
        BY <1>1
    <2> QED
        BY <2>1, <2>2
<1>3. /\ rcpt'[q] = r
      /\ Stage' = [Stage EXCEPT ![q] = StageOf(q)']
      /\ Claim' = [Claim EXCEPT ![q] = IF Issued(q)' THEN r.artifact ELSE NoOps]
      /\ Count' = Count
      /\ \A p \in Requests : p # q => Alike(p)
    BY <1>1, <1>2, OneMoves
<1>4. CASE rcpt[q].artifact = NoOps
    <2>1. Stage[q] = "live"
        BY <1>1, <1>4 DEF Stage, StageOf
    <2>2. r.finalization = 0 /\ Committed(q) = {} /\ Committed(q)' = {}
        <3>1. ASSUME NEW i \in DOMAIN log
              PROVE  log[i].receipt # q
            <4>1. log[i] \in ChangeSets /\ Holds(log[i])
                BY DEF IInv, Commits, TypeOK
            <4> QED
                BY <1>4, <4>1, AdmissionAssumption DEF Holds, ChangeSets
        <3>2. rcpt[q].finalization = 0
            <4>1. rcpt[q].finalization # 0 =>
                    /\ rcpt[q].finalization \in DOMAIN log
                    /\ log[rcpt[q].finalization] = [receipt |-> q, ops |-> rcpt[q].artifact]
                BY <1>1 DEF IInv, SettledMeansCommitted, Approved
            <4> QED
                BY <3>1, <4>1
        <3> QED
            BY <1>1, <1>2, <3>1, <3>2 DEF Committed
    <2>3. StageOf(q)' = "claimed" /\ Issued(q)'
        BY <1>1, <1>2, <1>3, <2>2, AdmissionAssumption DEF StageOf, Approved, Issued
    <2>4. Claim' = [Claim EXCEPT ![q] = ops]
        BY <1>2, <1>3, <2>3
    <2>5. Ledger!Claim(q, ops)
        BY <1>1, <1>3, <2>1, <2>3, <2>4 DEF Ledger!Claim, Stage, Claim, Count
    <2> QED
        BY <1>1, <2>5 DEF Ledger!Next
<1>5. CASE rcpt[q].artifact = ops
    <2>1. Alike(q)
        BY <1>1, <1>2, <1>3, <1>5 DEF Alike, Issued, Approved
    <2> QED
        BY <1>1, <1>3, <2>1, Stutters
<1> QED
    BY <1>1, <1>4, <1>5

(* The commit publishes an approval that is claimed and has no commit yet. *)
LEMMA PublishStep ==
    ASSUME IInv, ClaimedIsValid, Commit
    PROVE  Ledger!Next
<1>0. PICK q \in Requests, ops \in Ops : cs = [receipt |-> q, ops |-> ops]
    BY DEF IInv, AtWork, ChangeSets, Commit
<1>1. /\ cs \in ChangeSets /\ Holds(cs) /\ ~Logged(cs)
      /\ log' = Append(log, cs) /\ rcpt' = rcpt /\ log \in Seq(ChangeSets)
    BY DEF IInv, TypeOK, AtWork, Journals, Journalled, Commit, admission
<1>2. /\ Issued(q) /\ rcpt[q].artifact = ops /\ ops # NoOps
      /\ Approved(q) /\ ~rcpt[q].invalidated
    BY <1>0, <1>1, AdmissionAssumption DEF Holds, ClaimedIsValid, Approved
<1>3. Committed(q) = {}
    <2> SUFFICES ASSUME NEW i \in DOMAIN log, log[i].receipt = q
                 PROVE  FALSE
        BY DEF Committed
    <2>1. log[i] \in ChangeSets /\ log[i].ops = ops
        BY <1>1, <1>2 DEF IInv, Commits, Holds
    <2>2. log[i] = cs
        BY <1>0, <2>1 DEF ChangeSets
    <2> QED
        BY <1>1, <2>2 DEF Logged
<1>4. rcpt[q].finalization = 0
    <2>1. rcpt[q].finalization # 0 =>
            rcpt[q].finalization \in DOMAIN log /\ log[rcpt[q].finalization] = cs
        BY <1>0, <1>2 DEF IInv, SettledMeansCommitted
    <2> QED
        BY <1>1, <2>1 DEF Logged
<1>5. /\ Committed(q)' = {Len(log) + 1}
      /\ \A p \in Requests : p # q => Committed(p)' = Committed(p)
    <2>1. /\ DOMAIN log' = DOMAIN log \union {Len(log) + 1} /\ Len(log) \in Nat
          /\ Len(log) + 1 \notin DOMAIN log /\ log'[Len(log) + 1] = cs
          /\ \A i \in DOMAIN log : log'[i] = log[i]
        BY <1>1
    <2> QED
        BY <1>0, <1>3, <2>1 DEF Committed
<1>6. /\ Cardinality(Committed(q)) = 0 /\ Cardinality(Committed(q)') = 1
    BY <1>3, <1>5, FS_EmptySet, FS_Singleton
<1>7. StageOf(q) = "claimed" /\ StageOf(q)' = "published"
    BY <1>1, <1>2, <1>3, <1>4, <1>5 DEF StageOf, Approved, Issued
<1>8. \A p \in Requests : p # q =>
        Stage'[p] = Stage[p] /\ Claim'[p] = Claim[p] /\ Count'[p] = Count[p]
    BY <1>1, <1>5, AlikeStays DEF Alike, Issued
<1>9. /\ Stage[q] = "claimed" /\ Stage' = [Stage EXCEPT ![q] = "published"]
      /\ Claim' = Claim /\ Count' = [Count EXCEPT ![q] = @ + 1]
    <2>1. Stage[q] = "claimed" /\ Stage'[q] = "published" /\ Count[q] = 0 /\ Count'[q] = 1
        BY <1>6, <1>7 DEF Stage, Count
    <2>2. Stage' = [Stage EXCEPT ![q] = "published"]
        BY <1>8, <2>1 DEF Stage
    <2>3. Claim' = Claim
        BY <1>1 DEF Claim, Issued
    <2>4. \A p \in Requests : Count'[p] = [Count EXCEPT ![q] = @ + 1][p]
        BY <1>8, <2>1 DEF Count
    <2>5. Count' = [Count EXCEPT ![q] = @ + 1]
        BY <2>4 DEF Count
    <2> QED
        BY <2>1, <2>2, <2>3, <2>5
<1>10. Ledger!Publish(q)
    BY <1>9 DEF Ledger!Publish, Stage, Claim, Count
<1> QED
    BY <1>1, <1>10 DEF Ledger!Next

(* Finalization settles an approval that is published; again, nothing.     *)
LEMMA SettleStep ==
    ASSUME IInv, ClaimedIsValid, FinalizePublication
    PROVE  [Ledger!Next]_(Ledger!ledger)
<1>0. PICK q \in Requests, ops \in Ops : cs = [receipt |-> q, ops |-> ops]
    BY DEF IInv, AtWork, ChangeSets, FinalizePublication
<1>1. /\ AdmissionTypeOK /\ log' = log
      /\ rcpt[q] \in Receipt /\ Issued(q) /\ ~rcpt[q].invalidated
      /\ rcpt[q].artifact = ops /\ rcpt[q].finalization \in {0, found}
      /\ rcpt' = [rcpt EXCEPT ![q].consumed = TRUE, ![q].finalization = found]
      /\ found \in DOMAIN log /\ found # 0 /\ found \in Nat /\ log[found] = cs
    BY <1>0 DEF IInv, TypeOK, AdmissionTypeOK, AtWork, FinalizePublication, Accepts,
                Finalizable, Issued
<1>2. Approved(q)
    BY <1>1, AdmissionAssumption DEF ClaimedIsValid, Approved
<1>3. PICK r \in Receipt :
        /\ rcpt' = [rcpt EXCEPT ![q] = r]
        /\ r.artifact = ops /\ r.decision = "approved" /\ ~r.invalidated
        /\ r.finalization = found /\ r # NoReceipt
    <2> DEFINE r == [rcpt[q] EXCEPT !.consumed = TRUE, !.finalization = found]
    <2>1. /\ r \in Receipt /\ r.artifact = ops /\ r.decision = "approved" /\ ~r.invalidated
          /\ r.finalization = found /\ r # NoReceipt
        BY <1>1, <1>2, ReceiptAssumption DEF Receipt, Approved
    <2>2. rcpt' = [rcpt EXCEPT ![q] = r]
        BY <1>1 DEF AdmissionTypeOK
    <2> QED
        BY <2>1, <2>2
<1>4. /\ rcpt'[q] = r
      /\ Stage' = [Stage EXCEPT ![q] = StageOf(q)']
      /\ Claim' = [Claim EXCEPT ![q] = IF Issued(q)' THEN r.artifact ELSE NoOps]
      /\ Count' = Count
      /\ \A p \in Requests : p # q => Alike(p)
    BY <1>1, <1>3, OneMoves
<1>5. found \in Committed(q)
    BY <1>0, <1>1 DEF Committed
<1>6. CASE rcpt[q].finalization = 0
    <2>1. Stage[q] = "published"
        BY <1>1, <1>2, <1>5, <1>6, AdmissionAssumption DEF Stage, StageOf
    <2>2. StageOf(q)' = "settled" /\ Issued(q)'
        BY <1>1, <1>3, <1>4, AdmissionAssumption DEF StageOf, Approved, Issued
    <2>3. Claim' = Claim
        BY <1>1, <1>3, <1>4, <2>2 DEF Claim
    <2>4. Ledger!Settle(q)
        BY <1>4, <2>1, <2>2, <2>3 DEF Ledger!Settle, Stage, Claim, Count
    <2> QED
        BY <1>1, <2>4 DEF Ledger!Next
<1>7. CASE rcpt[q].finalization = found
    <2>1. Alike(q)
        <3>1. Issued(q) /\ Issued(q)'
            BY <1>1, <1>3, <1>4 DEF Issued
        <3>2. rcpt[q].decision = "approved"
            BY <1>2 DEF Approved
        <3> QED
            BY <1>1, <1>3, <1>4, <1>7, <3>1, <3>2 DEF Alike, Receipt
    <2> QED
        BY <1>1, <1>4, <2>1, Stutters
<1> QED
    BY <1>1, <1>6, <1>7

LEMMA LedgerStep ==
    ASSUME IInv, ClaimedIsValid, [Next]_vars
    PROVE  [Ledger!Next]_(Ledger!ledger)
<1>1. CASE Admission
    BY <1>1, AdmissionLedger
<1>2. CASE PreparePublication
    BY <1>2, ClaimStep
<1>3. CASE Commit
    BY <1>3, PublishStep
<1>4. CASE FinalizePublication
    BY <1>4, SettleStep
<1>5. ASSUME UNCHANGED <<rcpt, log>> PROVE UNCHANGED Ledger!ledger
    BY <1>5, Stutters DEF Alike, Issued
<1> QED
    BY <1>1, <1>2, <1>3, <1>4, <1>5
    DEF Next, vars, Publish, Recover, Step, Throws, Fails, Stops, OthersCommit, admission,
        Validate, WriteJournal, Resume, Revalidate, RecordCommit, Complete

(* Whatever admission, publication, crashes and others do, an approval     *)
(* goes from live to revoked or claimed, from claimed to one commit and    *)
(* only then to consumed (preparePublication to finalizePublication).      *)
THEOREM LedgerImplemented == Spec => ImplementsLedger
<1>1. Init => ClaimedIsValid
    BY DEF Init, AdmissionInit, ClaimedIsValid, Issued
<1>2. IInv /\ ClaimedIsValid /\ [Next]_vars => ClaimedIsValid'
    BY ClaimedInv
<1>3. IInv /\ ClaimedIsValid /\ [Next]_vars => [Ledger!Next]_(Ledger!ledger)
    BY LedgerStep
<1> QED
    BY <1>1, <1>2, <1>3, InitLedger, PublicationInvariant, PTL
    DEF Spec, ImplementsLedger, Ledger!Spec
=============================================================================
