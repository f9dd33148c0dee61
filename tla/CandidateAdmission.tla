------------------------- MODULE CandidateAdmission -------------------------
(***************************************************************************)
(* Candidates, confirmations and Decision Receipts                         *)
(* (src/src/admission/index.ts) as FileCandidateAdmissionStore keeps them  *)
(* (src/src/admission/persistence.ts): every operation is one SQLite       *)
(* transaction over the whole snapshot, hence one step here, and one that  *)
(* throws is rolled back, hence no step.                                   *)
(*                                                                         *)
(* A Candidate is known by its target; a revision is the Authority version *)
(* it is based on. A confirmation request, its routing token and the       *)
(* receipt decided with it share one name, since a token is deleted when   *)
(* it is used. Contents, diffs, message references and senders are left    *)
(* out: a mismatch of theirs throws.                                       *)
(***************************************************************************)
EXTENDS Naturals, Sequences

CONSTANTS
    Auths,          \* discovery authorizations
    Cands,          \* candidates, one per target
    Requests,       \* confirmation requests
    Ops,            \* operation lists a change set may carry
    Original,       \* version of a target before anything is published
    Foreign,        \* version of a target published by someone else
    NoAuth, Unused, Gone, NoReceipt, NoOps,
    MaxRevisions    \* bound on the revisions of a candidate

ASSUME AdmissionAssumption ==
    /\ MaxRevisions \in Nat
    /\ NoAuth \notin Auths /\ NoOps \notin Ops
    /\ Original # Foreign
    /\ Unused # Gone

VARIABLES
    auth,   \* status of each authorization, expired when its time is over
    owner,  \* authorization under which each candidate was last created
    revs,   \* revisions of each candidate, as the versions they are based on
    conf,   \* confirmation requests: Unused, pending or Gone
    rcpt,   \* receipts: the decision and what became of it
    head    \* Authority version of each target (owned by the consumer)

\* A version of a target is known by the change set that published it.
ChangeSets == [receipt: Requests, ops: Ops]
Versions == ChangeSets \union {Original, Foreign}

admission == <<auth, owner, revs, conf, rcpt>>

Pending == [auth: Auths, cand: Cands, rev: Nat, bound: BOOLEAN]
Receipt == [auth: Auths, cand: Cands, rev: Nat, decision: {"approved", "rejected"},
            consumed: BOOLEAN, invalidated: BOOLEAN,
            artifact: Ops \union {NoOps}, finalization: Nat]

ASSUME ReceiptAssumption ==
    Unused \notin Pending /\ Gone \notin Pending /\ NoReceipt \notin Receipt

IsPending(q) == conf[q] \notin {Unused, Gone}
Issued(q) == rcpt[q] # NoReceipt
Approved(q) == Issued(q) /\ rcpt[q].decision = "approved"
Latest(c) == Len(revs[c])
BaseOf(q) == revs[rcpt[q].cand][rcpt[q].rev]

\* What can still be taken back.
Revocable_Prepared(q) == Issued(q) /\ ~rcpt[q].consumed
Revocable(q) == Issued(q) /\ ~rcpt[q].consumed /\ rcpt[q].artifact = NoOps

Invalidate_PendingOnly(asked, decided) ==
    /\ conf' = [q \in Requests |-> IF q \in asked THEN Gone ELSE conf[q]]
    /\ rcpt' = rcpt
Invalidate(asked, decided) ==
    /\ conf' = [q \in Requests |-> IF q \in asked THEN Gone ELSE conf[q]]
    /\ rcpt' = [q \in Requests |-> IF q \in decided /\ Revocable(q)
                                   THEN [rcpt[q] EXCEPT !.invalidated = TRUE]
                                   ELSE rcpt[q]]

\* invalidateCandidateApprovals
InvalidateCandidateApprovals(c) ==
    Invalidate({q \in Requests : IsPending(q) /\ conf[q].cand = c},
               {q \in Requests : Issued(q) /\ rcpt[q].cand = c})

-----------------------------------------------------------------------------
AdmissionInit ==
    /\ auth = [a \in Auths |-> "none"]
    /\ owner = [c \in Cands |-> NoAuth]
    /\ revs = [c \in Cands |-> <<>>]
    /\ conf = [q \in Requests |-> Unused]
    /\ rcpt = [q \in Requests |-> NoReceipt]
    /\ head = [c \in Cands |-> Original]

AuthorizeDiscovery(a) ==
    /\ auth[a] = "none" /\ auth' = [auth EXCEPT ![a] = "active"]
    /\ UNCHANGED <<owner, revs, conf, rcpt, head>>

AuthorizationExpires(a) ==
    /\ auth[a] = "active" /\ auth' = [auth EXCEPT ![a] = "expired"]
    /\ UNCHANGED <<owner, revs, conf, rcpt, head>>

\* An authorization whose time is over may still be ended.
EndDiscovery(a) ==
    /\ auth[a] \in {"active", "expired"}
    /\ auth' = [auth EXCEPT ![a] = "ended"]
    /\ Invalidate({q \in Requests : IsPending(q) /\ conf[q].auth = a},
                  {q \in Requests : Issued(q) /\ rcpt[q].auth = a})
    /\ UNCHANGED <<owner, revs, head>>

\* A first revision, or the first one under a new authorization.
CreateCandidate(a, c) ==
    /\ auth[a] = "active" /\ owner[c] # a /\ Latest(c) < MaxRevisions
    /\ owner' = [owner EXCEPT ![c] = a]
    /\ revs' = [revs EXCEPT ![c] = Append(@, head[c])]
    /\ InvalidateCandidateApprovals(c)
    /\ UNCHANGED <<auth, head>>

ReviseCandidate(c) ==
    /\ owner[c] # NoAuth /\ auth[owner[c]] = "active" /\ Latest(c) < MaxRevisions
    /\ revs' = [revs EXCEPT ![c] = Append(@, head[c])]
    /\ InvalidateCandidateApprovals(c)
    /\ UNCHANGED <<auth, owner, head>>

\* Only the latest revision can be put to the owner, as often as one likes.
PrepareConfirmation(q, c) ==
    /\ conf[q] = Unused /\ owner[c] # NoAuth /\ auth[owner[c]] = "active"
    /\ conf' = [conf EXCEPT ![q] = [auth |-> owner[c], cand |-> c, rev |-> Latest(c),
                                    bound |-> FALSE]]
    /\ UNCHANGED <<auth, owner, revs, rcpt, head>>

BindConfirmationMessage(q) ==
    /\ IsPending(q) /\ auth[conf[q].auth] = "active" /\ ~conf[q].bound
    /\ conf' = [conf EXCEPT ![q].bound = TRUE]
    /\ UNCHANGED <<auth, owner, revs, rcpt, head>>

WithdrawConfirmation(q) ==
    /\ IsPending(q) /\ conf' = [conf EXCEPT ![q] = Gone]
    /\ UNCHANGED <<auth, owner, revs, rcpt, head>>

Decide(q, action) ==
    /\ IsPending(q) /\ conf[q].bound /\ auth[conf[q].auth] = "active"
    /\ conf' = [conf EXCEPT ![q] = Gone]
    /\ rcpt' = IF action = "request-rewrite" THEN rcpt
               ELSE [rcpt EXCEPT ![q] =
                      [auth |-> conf[q].auth, cand |-> conf[q].cand, rev |-> conf[q].rev,
                       decision |-> IF action = "reject" THEN "rejected" ELSE "approved",
                       consumed |-> FALSE, invalidated |-> FALSE,
                       artifact |-> NoOps, finalization |-> 0]]
    /\ UNCHANGED <<auth, owner, revs, head>>

\* consumeApprovalReceipt: use of an approval without a publication.
ConsumeApprovalReceipt(q) ==
    /\ Approved(q) /\ ~rcpt[q].invalidated /\ ~rcpt[q].consumed
    /\ rcpt[q].artifact = NoOps
    /\ auth[rcpt[q].auth] = "active" /\ BaseOf(q) = head[rcpt[q].cand]
    /\ rcpt' = [rcpt EXCEPT ![q].consumed = TRUE]
    /\ UNCHANGED <<auth, owner, revs, conf, head>>

AdmissionNext ==
    \/ \E a \in Auths : AuthorizeDiscovery(a) \/ AuthorizationExpires(a) \/ EndDiscovery(a)
    \/ \E a \in Auths, c \in Cands : CreateCandidate(a, c)
    \/ \E c \in Cands : ReviseCandidate(c)
    \/ \E q \in Requests, c \in Cands : PrepareConfirmation(q, c)
    \/ \E q \in Requests : \/ BindConfirmationMessage(q) \/ WithdrawConfirmation(q)
                           \/ ConsumeApprovalReceipt(q)
    \/ \E q \in Requests, action \in {"accept", "reject", "request-rewrite"} :
           Decide(q, action)

AdmissionTypeOK ==
    /\ auth \in [Auths -> {"none", "active", "expired", "ended"}]
    /\ owner \in [Cands -> Auths \union {NoAuth}]
    /\ revs \in [Cands -> Seq(Versions)]
    /\ conf \in [Requests -> Pending \union {Unused, Gone}]
    /\ rcpt \in [Requests -> Receipt \union {NoReceipt}]
    /\ head \in [Cands -> Versions]

Live(q) ==
    /\ Approved(q) /\ ~rcpt[q].invalidated /\ ~rcpt[q].consumed
    /\ rcpt[q].artifact = NoOps

\* What can still be approved, or is approved and not claimed yet, is the
\* latest revision under the authorization that owns it now, and that
\* authorization was not ended (invalidateCandidateApprovals, endDiscovery).
LiveApprovalIsLatest ==
    \A q \in Requests :
        /\ IsPending(q) => /\ conf[q].rev = Latest(conf[q].cand)
                           /\ conf[q].auth = owner[conf[q].cand]
                           /\ auth[conf[q].auth] # "ended"
        /\ Live(q) => /\ rcpt[q].rev = Latest(rcpt[q].cand)
                      /\ rcpt[q].auth = owner[rcpt[q].cand]
                      /\ auth[rcpt[q].auth] # "ended"
=============================================================================
