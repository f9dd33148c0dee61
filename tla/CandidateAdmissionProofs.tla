---------------------- MODULE CandidateAdmissionProofs ----------------------
(***************************************************************************)
(* What every admission operation preserves, for any number of             *)
(* authorizations, candidates, revisions and requests, and what it leaves  *)
(* alone of a receipt that publication works with.                         *)
(***************************************************************************)
EXTENDS CandidateAdmission, TLAPS

\* A token is gone once it is decided, and only then is there a receipt.
Fresh == \A q \in Requests : Issued(q) => conf[q] = Gone

\* Requests and receipts are for revisions that exist.
Reviewed ==
    /\ \A c \in Cands : owner[c] # NoAuth => Latest(c) >= 1
    /\ \A q \in Requests :
        /\ IsPending(q) => conf[q].rev \in 1..Latest(conf[q].cand)
        /\ Issued(q) => rcpt[q].rev \in 1..Latest(rcpt[q].cand)

AdmissionInv == AdmissionTypeOK /\ Fresh /\ Reviewed /\ LiveApprovalIsLatest

\* What no admission operation touches of a receipt. Only a receipt that is
\* not claimed is invalidated.
Untouched(q) ==
    Issued(q) =>
        /\ rcpt'[q] # NoReceipt
        /\ rcpt'[q].cand = rcpt[q].cand /\ rcpt'[q].rev = rcpt[q].rev
        /\ rcpt'[q].artifact = rcpt[q].artifact
        /\ rcpt'[q].finalization = rcpt[q].finalization
        /\ rcpt[q].consumed => rcpt'[q].consumed

-----------------------------------------------------------------------------
(* The initial state of admission.                                         *)
LEMMA AdmissionInitInv == AdmissionInit => AdmissionInv
BY AdmissionAssumption, ReceiptAssumption
DEF AdmissionInit, AdmissionInv, AdmissionTypeOK, Fresh, Reviewed, LiveApprovalIsLatest,
    Issued, IsPending, Live, Approved, Latest, Versions

(* A revocation keeps the types and touches of a receipt only whether it is *)
(* still valid.                                                            *)
LEMMA InvalidateKeeps ==
    ASSUME AdmissionTypeOK, NEW asked, NEW decided, Invalidate(asked, decided)
    PROVE  /\ conf' \in [Requests -> Pending \union {Unused, Gone}]
           /\ rcpt' \in [Requests -> Receipt \union {NoReceipt}]
           /\ \A q \in Requests :
                /\ conf'[q] = IF q \in asked THEN Gone ELSE conf[q]
                /\ Issued(q)' <=> Issued(q)
                /\ Issued(q) => /\ rcpt'[q].auth = rcpt[q].auth
                                /\ rcpt'[q].decision = rcpt[q].decision
                                /\ rcpt'[q].consumed = rcpt[q].consumed
                /\ Untouched(q)
                /\ Live(q)' => Live(q) /\ q \notin decided
<1>1. ASSUME NEW q \in Requests, Issued(q)
      PROVE  /\ [rcpt[q] EXCEPT !.invalidated = TRUE] \in Receipt
             /\ rcpt[q] \in Receipt
    BY <1>1 DEF AdmissionTypeOK, Receipt, Issued
<1>2. rcpt' \in [Requests -> Receipt \union {NoReceipt}]
    BY <1>1 DEF AdmissionTypeOK, Invalidate, Revocable
<1>3. conf' \in [Requests -> Pending \union {Unused, Gone}]
    BY DEF AdmissionTypeOK, Invalidate
<1>4. ASSUME NEW q \in Requests
      PROVE  /\ conf'[q] = IF q \in asked THEN Gone ELSE conf[q]
             /\ Issued(q)' <=> Issued(q)
             /\ Issued(q) => /\ rcpt'[q].auth = rcpt[q].auth
                             /\ rcpt'[q].decision = rcpt[q].decision
                             /\ rcpt'[q].consumed = rcpt[q].consumed
             /\ Untouched(q)
             /\ Live(q)' => Live(q) /\ q \notin decided
    <2>1. CASE q \in decided /\ Revocable(q)
        <3>1. Issued(q) /\ rcpt'[q] = [rcpt[q] EXCEPT !.invalidated = TRUE]
            BY <2>1 DEF Invalidate, Revocable
        <3>2. rcpt'[q] \in Receipt /\ rcpt[q] \in Receipt /\ rcpt'[q].invalidated
            BY <1>1, <3>1 DEF Receipt
        <3> QED
            BY <3>1, <3>2, ReceiptAssumption
            DEF Issued, Untouched, Live, Approved, Receipt, Invalidate
    <2>2. CASE ~(q \in decided /\ Revocable(q))
        <3>1. rcpt'[q] = rcpt[q]
            BY <2>2 DEF Invalidate
        <3> QED
            BY <2>2, <3>1 DEF Issued, Untouched, Live, Approved, Revocable, Invalidate
    <2> QED
        BY <2>1, <2>2
<1> QED
    BY <1>2, <1>3, <1>4

(* Revisions are only added, so a receipt's base stays what it was.        *)
Grown == \A c \in Cands : \A n \in 1..Latest(c) :
             n \in 1..Latest(c)' /\ revs'[c][n] = revs[c][n]

LEMMA RevsGrow ==
    ASSUME AdmissionTypeOK, NEW c \in Cands,
           revs' = [revs EXCEPT ![c] = Append(@, head[c])]
    PROVE  /\ revs' \in [Cands -> Seq(Versions)]
           /\ Grown
           /\ Latest(c)' = Latest(c) + 1
           /\ \A d \in Cands \ {c} : Latest(d)' = Latest(d)
           /\ \A d \in Cands : Latest(d) \in Nat /\ Latest(d)' \in Nat
<1>1. revs \in [Cands -> Seq(Versions)] /\ head[c] \in Versions
    BY DEF AdmissionTypeOK
<1>2. /\ revs[c] \in Seq(Versions) /\ revs'[c] = Append(revs[c], head[c])
      /\ \A d \in Cands \ {c} : revs'[d] = revs[d]
    BY <1>1
<1>3. revs' \in [Cands -> Seq(Versions)]
    BY <1>1
<1>4. Latest(c)' = Latest(c) + 1 /\ \A d \in Cands \ {c} : Latest(d)' = Latest(d)
    BY <1>2 DEF Latest
<1>5. \A d \in Cands : Latest(d) \in Nat /\ Latest(d)' \in Nat
    BY <1>1, <1>3 DEF Latest
<1>6. Grown
    <2>1. \A n \in 1..Latest(c) : revs'[c][n] = revs[c][n]
        BY <1>2 DEF Latest
    <2> QED
        BY <1>2, <1>4, <1>5, <2>1 DEF Grown, Latest
<1> QED
    BY <1>3, <1>4, <1>5, <1>6

(* A new revision of c revokes what was asked or decided about c.          *)
LEMMA NewRevision ==
    ASSUME AdmissionInv, NEW c \in Cands, auth' = auth, head' = head,
           \/ owner' = owner /\ owner[c] # NoAuth
           \/ \E a \in Auths : owner' = [owner EXCEPT ![c] = a],
           revs' = [revs EXCEPT ![c] = Append(@, head[c])],
           InvalidateCandidateApprovals(c)
    PROVE  AdmissionInv' /\ Grown /\ \A q \in Requests : Untouched(q)
<1> DEFINE asked == {q \in Requests : IsPending(q) /\ conf[q].cand = c}
           decided == {q \in Requests : Issued(q) /\ rcpt[q].cand = c}
<1>1. AdmissionTypeOK /\ Invalidate(asked, decided)
    BY DEF AdmissionInv, InvalidateCandidateApprovals
<1>2. /\ conf' \in [Requests -> Pending \union {Unused, Gone}]
      /\ rcpt' \in [Requests -> Receipt \union {NoReceipt}]
    BY <1>1, InvalidateKeeps
<1>3. ASSUME NEW q \in Requests
      PROVE  /\ conf'[q] = IF q \in asked THEN Gone ELSE conf[q]
             /\ Issued(q)' <=> Issued(q)
             /\ Issued(q) => rcpt'[q].auth = rcpt[q].auth
             /\ Untouched(q)
             /\ Live(q)' => Live(q) /\ q \notin decided
    BY <1>1, InvalidateKeeps
<1> HIDE DEF asked, decided
<1>4. /\ revs' \in [Cands -> Seq(Versions)] /\ Grown
      /\ Latest(c)' = Latest(c) + 1
      /\ \A d \in Cands \ {c} : Latest(d)' = Latest(d)
      /\ \A d \in Cands : Latest(d) \in Nat /\ Latest(d)' \in Nat
    BY <1>1, RevsGrow
<1>5. AdmissionTypeOK'
    BY <1>1, <1>2, <1>4 DEF AdmissionTypeOK
<1>6. Fresh'
    BY <1>3 DEF AdmissionInv, Fresh
<1>7. \A d \in Cands : Latest(d)' >= Latest(d) /\ (owner'[d] # NoAuth => Latest(d)' >= 1)
    <2>1. ASSUME NEW d \in Cands, d # c
          PROVE  owner'[d] = owner[d]
        BY <1>1, <2>1 DEF AdmissionTypeOK
    <2> QED
        BY <1>4, <2>1 DEF AdmissionInv, Reviewed
<1>8. ASSUME NEW q \in Requests
      PROVE  /\ IsPending(q)' => IsPending(q) /\ conf'[q] = conf[q] /\ conf[q].cand # c
             /\ IsPending(q) => conf[q].cand \in Cands /\ conf[q].rev \in Nat
             /\ Issued(q) => rcpt[q].cand \in Cands /\ rcpt[q].rev \in Nat
             /\ Live(q)' => Issued(q) /\ rcpt[q].cand # c
    BY <1>1, <1>3
    DEF asked, decided, IsPending, AdmissionTypeOK, Pending, Receipt, Issued, Live, Approved
<1>9. Reviewed'
    <2>1. ASSUME NEW q \in Requests, IsPending(q)'
          PROVE  conf'[q].rev \in 1..Latest(conf[q].cand)'
        <3>1. conf'[q].rev \in 1..Latest(conf[q].cand) /\ conf[q].cand \in Cands
            BY <1>8, <2>1 DEF AdmissionInv, Reviewed
        <3> QED
            BY <1>4, <1>7, <1>8, <2>1, <3>1 DEF Latest
    <2>2. ASSUME NEW q \in Requests, Issued(q)'
          PROVE  rcpt'[q].rev \in 1..Latest(rcpt[q].cand)'
        <3>1. /\ rcpt'[q].rev = rcpt[q].rev /\ rcpt'[q].cand = rcpt[q].cand
              /\ rcpt[q].rev \in 1..Latest(rcpt[q].cand) /\ rcpt[q].cand \in Cands
            BY <1>3, <1>8, <2>2 DEF AdmissionInv, Reviewed, Untouched
        <3> QED
            BY <1>4, <1>7, <1>8, <3>1 DEF Latest
    <2> QED
        BY <1>7, <2>1, <2>2 DEF Reviewed
<1>10. LiveApprovalIsLatest'
    <2>1. \A d \in Cands : d # c => owner'[d] = owner[d]
        BY <1>1 DEF AdmissionTypeOK
    <2> QED
        BY <1>3, <1>4, <1>8, <2>1
        DEF AdmissionInv, LiveApprovalIsLatest, Untouched, Live, Approved, Issued
<1> QED
    BY <1>3, <1>4, <1>5, <1>6, <1>9, <1>10 DEF AdmissionInv

(* Ending an authorization revokes what was asked or decided under it.     *)
LEMMA EndKeeps ==
    ASSUME AdmissionInv, NEW a \in Auths, EndDiscovery(a)
    PROVE  AdmissionInv' /\ \A q \in Requests : Untouched(q)
<1> DEFINE asked == {q \in Requests : IsPending(q) /\ conf[q].auth = a}
           decided == {q \in Requests : Issued(q) /\ rcpt[q].auth = a}
<1>1. AdmissionTypeOK /\ Invalidate(asked, decided)
    BY DEF AdmissionInv, EndDiscovery
<1>2. /\ conf' \in [Requests -> Pending \union {Unused, Gone}]
      /\ rcpt' \in [Requests -> Receipt \union {NoReceipt}]
    BY <1>1, InvalidateKeeps
<1>3. ASSUME NEW q \in Requests
      PROVE  /\ conf'[q] = IF q \in asked THEN Gone ELSE conf[q]
             /\ Issued(q)' <=> Issued(q)
             /\ Issued(q) => rcpt'[q].auth = rcpt[q].auth
             /\ Untouched(q)
             /\ Live(q)' => Live(q) /\ q \notin decided
    BY <1>1, InvalidateKeeps
<1> HIDE DEF asked, decided
<1>4. AdmissionTypeOK' /\ \A b \in Auths : b # a => auth'[b] = auth[b]
    BY <1>1, <1>2 DEF AdmissionTypeOK, EndDiscovery
<1>5. ASSUME NEW q \in Requests
      PROVE  /\ IsPending(q)' => /\ IsPending(q) /\ conf'[q] = conf[q]
                                 /\ conf[q].auth \in Auths \ {a}
             /\ Live(q)' => Issued(q) /\ rcpt[q].auth \in Auths \ {a}
    BY <1>1, <1>3
    DEF asked, decided, IsPending, AdmissionTypeOK, Pending, Receipt, Issued, Live, Approved
<1>6. Fresh'
    BY <1>3 DEF AdmissionInv, Fresh
<1>7. Reviewed'
    BY <1>3, <1>5 DEF AdmissionInv, Reviewed, Untouched, Latest, Issued, EndDiscovery
<1>8. LiveApprovalIsLatest'
    BY <1>3, <1>4, <1>5
    DEF AdmissionInv, LiveApprovalIsLatest, Untouched, Latest, EndDiscovery, Issued, Live,
        Approved
<1> QED
    BY <1>3, <1>4, <1>6, <1>7, <1>8 DEF AdmissionInv

(* A request changes hands: asked, bound or withdrawn.                     *)
LEMMA RequestKeeps ==
    ASSUME AdmissionInv, NEW q \in Requests, rcpt[q] = NoReceipt,
           UNCHANGED <<auth, owner, revs, rcpt, head>>,
           NEW r \in Pending \union {Gone}, conf' = [conf EXCEPT ![q] = r],
           r # Gone => /\ r.rev = Latest(r.cand) /\ r.rev >= 1
                       /\ r.auth = owner[r.cand] /\ auth[r.auth] # "ended"
    PROVE  AdmissionInv'
<1>1. AdmissionTypeOK'
    BY DEF AdmissionInv, AdmissionTypeOK
<1>2. conf'[q] = r /\ \A p \in Requests : p # q => conf'[p] = conf[p]
    BY DEF AdmissionInv, AdmissionTypeOK
<1>3. r # Gone => r.rev \in 1..Latest(r.cand)
    BY DEF Pending
<1>4. Fresh' /\ Reviewed'
    BY <1>2, <1>3 DEF AdmissionInv, Fresh, Reviewed, Issued, IsPending, Latest
<1>5. LiveApprovalIsLatest'
    BY <1>2
    DEF AdmissionInv, LiveApprovalIsLatest, Issued, IsPending, Latest, Live, Approved
<1> QED
    BY <1>1, <1>4, <1>5 DEF AdmissionInv

(* A receipt is written or used up; authorizations start or expire.        *)
LEMMA DecideKeeps ==
    ASSUME AdmissionInv, NEW q \in Requests,
           NEW action \in {"accept", "reject", "request-rewrite"}, Decide(q, action)
    PROVE  AdmissionInv' /\ \A p \in Requests : Untouched(p)
<1>1. AdmissionTypeOK /\ conf[q] \in Pending /\ ~Issued(q)
    BY DEF AdmissionInv, AdmissionTypeOK, Decide, IsPending, Fresh
<1>2. CASE action = "request-rewrite"
    <2>1. AdmissionInv'
        BY <1>1, <1>2, RequestKeeps DEF Decide, Issued
    <2> QED
        BY <1>2, <2>1 DEF Decide, Untouched, Issued
<1>3. CASE action # "request-rewrite"
    <2>1. PICK r \in Receipt :
            /\ rcpt' = [rcpt EXCEPT ![q] = r]
            /\ r.auth = conf[q].auth /\ r.cand = conf[q].cand /\ r.rev = conf[q].rev
        <3> DEFINE r == [auth |-> conf[q].auth, cand |-> conf[q].cand, rev |-> conf[q].rev,
                         decision |-> IF action = "reject" THEN "rejected" ELSE "approved",
                         consumed |-> FALSE, invalidated |-> FALSE,
                         artifact |-> NoOps, finalization |-> 0]
        <3>1. r \in Receipt
            BY <1>1 DEF Pending, Receipt
        <3>2. rcpt' = [rcpt EXCEPT ![q] = r]
            BY <1>3 DEF Decide
        <3> QED
            BY <3>1, <3>2
    <2>2. /\ rcpt'[q] = r /\ conf'[q] = Gone
          /\ \A p \in Requests : p # q => rcpt'[p] = rcpt[p] /\ conf'[p] = conf[p]
        BY <1>1, <2>1 DEF AdmissionTypeOK, Decide
    <2>3. AdmissionTypeOK'
        BY <1>1, <2>1 DEF AdmissionTypeOK, Decide
    <2>4. Fresh' /\ Reviewed'
        BY <1>1, <2>1, <2>2
        DEF AdmissionInv, Fresh, Reviewed, Issued, IsPending, Latest, Decide
    <2>5. LiveApprovalIsLatest'
        BY <1>1, <2>1, <2>2
        DEF AdmissionInv, LiveApprovalIsLatest, Issued, IsPending, Latest, Live, Approved,
            Decide
    <2>6. \A p \in Requests : Untouched(p)
        BY <1>1, <2>2 DEF Untouched, Issued
    <2> QED
        BY <2>3, <2>4, <2>5, <2>6 DEF AdmissionInv
<1> QED
    BY <1>2, <1>3

LEMMA ConsumeKeeps ==
    ASSUME AdmissionInv, NEW q \in Requests, ConsumeApprovalReceipt(q)
    PROVE  AdmissionInv' /\ \A p \in Requests : Untouched(p)
<1>1. AdmissionTypeOK /\ rcpt[q] \in Receipt
    BY DEF AdmissionInv, AdmissionTypeOK, ConsumeApprovalReceipt, Approved, Issued
<1>2. PICK r \in Receipt :
        /\ rcpt' = [rcpt EXCEPT ![q] = r] /\ r = [rcpt[q] EXCEPT !.consumed = TRUE]
    <2>1. [rcpt[q] EXCEPT !.consumed = TRUE] \in Receipt
        BY <1>1 DEF Receipt
    <2> QED
        BY <2>1 DEF ConsumeApprovalReceipt
<1>3. /\ rcpt'[q] = r /\ \A p \in Requests : p # q => rcpt'[p] = rcpt[p]
      /\ r.cand = rcpt[q].cand /\ r.rev = rcpt[q].rev /\ r.artifact = rcpt[q].artifact
      /\ r.finalization = rcpt[q].finalization /\ r.consumed
      /\ r # NoReceipt /\ rcpt[q] # NoReceipt
    BY <1>1, <1>2, ReceiptAssumption DEF AdmissionTypeOK, Receipt
<1>4. AdmissionTypeOK'
    BY <1>1, <1>2 DEF AdmissionTypeOK, ConsumeApprovalReceipt
<1>5. Fresh' /\ Reviewed'
    BY <1>3
    DEF AdmissionInv, Fresh, Reviewed, Issued, IsPending, Latest, ConsumeApprovalReceipt
<1>6. LiveApprovalIsLatest'
    BY <1>3
    DEF AdmissionInv, LiveApprovalIsLatest, Issued, IsPending, Latest, Live, Approved,
        ConsumeApprovalReceipt
<1>7. \A p \in Requests : Untouched(p)
    BY <1>3 DEF Untouched, Issued
<1> QED
    BY <1>4, <1>5, <1>6, <1>7 DEF AdmissionInv

LEMMA AuthorizationKeeps ==
    ASSUME AdmissionInv, NEW a \in Auths, AuthorizeDiscovery(a) \/ AuthorizationExpires(a)
    PROVE  AdmissionInv'
<1>1. AdmissionTypeOK' /\ \A b \in Auths : auth'[b] = "ended" => auth[b] = "ended"
    BY DEF AdmissionInv, AdmissionTypeOK, AuthorizeDiscovery, AuthorizationExpires
<1>2. \A q \in Requests : /\ IsPending(q) => conf[q].auth \in Auths
                          /\ Live(q) => rcpt[q].auth \in Auths
    BY DEF AdmissionInv, AdmissionTypeOK, IsPending, Live, Approved, Issued, Pending, Receipt
<1>3. UNCHANGED <<owner, revs, conf, rcpt, head>>
    BY DEF AuthorizeDiscovery, AuthorizationExpires
<1>4. Fresh' /\ Reviewed'
    BY <1>3 DEF AdmissionInv, Fresh, Reviewed, Issued, IsPending, Latest
<1>5. LiveApprovalIsLatest'
    BY <1>1, <1>2, <1>3
    DEF AdmissionInv, LiveApprovalIsLatest, Issued, IsPending, Latest, Live, Approved
<1> QED
    BY <1>1, <1>4, <1>5 DEF AdmissionInv

(* Every admission operation keeps the invariant, leaves alone what others *)
(* know of a receipt, and only adds revisions.                             *)
LEMMA AdmissionKeeps ==
    ASSUME AdmissionInv, AdmissionNext
    PROVE  AdmissionInv' /\ Grown /\ (\A q \in Requests : Untouched(q)) /\ head' = head
<1>1. ASSUME NEW a \in Auths, AuthorizeDiscovery(a) \/ AuthorizationExpires(a)
      PROVE  AdmissionInv' /\ UNCHANGED <<revs, rcpt, head>>
    BY <1>1, AuthorizationKeeps DEF AuthorizeDiscovery, AuthorizationExpires
<1>2. ASSUME NEW a \in Auths, EndDiscovery(a)
      PROVE  AdmissionInv' /\ (\A q \in Requests : Untouched(q)) /\ UNCHANGED <<revs, head>>
    BY <1>2, EndKeeps DEF EndDiscovery
<1>3. ASSUME NEW a \in Auths, NEW c \in Cands, CreateCandidate(a, c)
      PROVE  AdmissionInv' /\ Grown /\ (\A q \in Requests : Untouched(q)) /\ head' = head
    BY <1>3, NewRevision DEF CreateCandidate
<1>4. ASSUME NEW c \in Cands, ReviseCandidate(c)
      PROVE  AdmissionInv' /\ Grown /\ (\A q \in Requests : Untouched(q)) /\ head' = head
    BY <1>4, NewRevision DEF ReviseCandidate
<1>5. ASSUME NEW q \in Requests, NEW c \in Cands, PrepareConfirmation(q, c)
      PROVE  AdmissionInv' /\ UNCHANGED <<revs, rcpt, head>>
    <2> DEFINE r == [auth |-> owner[c], cand |-> c, rev |-> Latest(c), bound |-> FALSE]
    <2>1. r \in Pending /\ r.rev >= 1 /\ Latest(c) \in Nat
        BY <1>5
        DEF AdmissionInv, AdmissionTypeOK, Reviewed, Latest, Pending, PrepareConfirmation
    <2>2. conf' = [conf EXCEPT ![q] = r] /\ rcpt[q] = NoReceipt
        BY <1>5, ReceiptAssumption, AdmissionAssumption
        DEF PrepareConfirmation, AdmissionInv, Fresh, Issued
    <2> QED
        BY <1>5, <2>1, <2>2, RequestKeeps DEF PrepareConfirmation
<1>6. ASSUME NEW q \in Requests, BindConfirmationMessage(q)
      PROVE  AdmissionInv' /\ UNCHANGED <<revs, rcpt, head>>
    <2>1. conf[q] \in Pending /\ rcpt[q] = NoReceipt
        BY <1>6
        DEF BindConfirmationMessage, AdmissionInv, AdmissionTypeOK, IsPending, Fresh, Issued
    <2>2. PICK r \in Pending :
            /\ conf' = [conf EXCEPT ![q] = r]
            /\ r.auth = conf[q].auth /\ r.cand = conf[q].cand /\ r.rev = conf[q].rev
        <3>1. [conf[q] EXCEPT !.bound = TRUE] \in Pending
            BY <2>1 DEF Pending
        <3> QED
            BY <1>6, <2>1, <3>1 DEF BindConfirmationMessage, Pending
    <2>3. r.rev = Latest(r.cand) /\ r.rev >= 1 /\ r.auth = owner[r.cand]
          /\ auth[r.auth] # "ended"
        BY <1>6, <2>1, <2>2
        DEF BindConfirmationMessage, AdmissionInv, Reviewed, LiveApprovalIsLatest, Pending
    <2> QED
        BY <1>6, <2>1, <2>2, <2>3, RequestKeeps DEF BindConfirmationMessage
<1>7. ASSUME NEW q \in Requests, WithdrawConfirmation(q)
      PROVE  AdmissionInv' /\ UNCHANGED <<revs, rcpt, head>>
    <2>1. rcpt[q] = NoReceipt
        BY <1>7 DEF WithdrawConfirmation, AdmissionInv, IsPending, Fresh, Issued
    <2> QED
        BY <1>7, <2>1, RequestKeeps DEF WithdrawConfirmation
<1>8. ASSUME NEW q \in Requests, ConsumeApprovalReceipt(q)
      PROVE  AdmissionInv' /\ (\A p \in Requests : Untouched(p)) /\ UNCHANGED <<revs, head>>
    BY <1>8, ConsumeKeeps DEF ConsumeApprovalReceipt
<1>9. ASSUME NEW q \in Requests, NEW action \in {"accept", "reject", "request-rewrite"},
             Decide(q, action)
      PROVE  AdmissionInv' /\ (\A p \in Requests : Untouched(p)) /\ UNCHANGED <<revs, head>>
    BY <1>9, DecideKeeps DEF Decide
<1>10. UNCHANGED rcpt => \A q \in Requests : Untouched(q)
    BY DEF Untouched, Issued
<1>11. UNCHANGED revs => Grown
    BY DEF Grown, Latest
<1> QED
    BY <1>1, <1>2, <1>3, <1>4, <1>5, <1>6, <1>7, <1>8, <1>9, <1>10, <1>11
    DEF AdmissionNext

(* A receipt that admission issues is neither claimed nor finalized.       *)
LEMMA FreshReceipt ==
    ASSUME AdmissionTypeOK, AdmissionNext, NEW q \in Requests, ~Issued(q), Issued(q)'
    PROVE  rcpt'[q].finalization = 0
<1>1. PICK p \in Requests, action \in {"accept", "reject", "request-rewrite"} :
        Decide(p, action)
    <2>1. ASSUME NEW asked, NEW decided, Invalidate(asked, decided)
          PROVE  Issued(q)' <=> Issued(q)
        BY <2>1, InvalidateKeeps
    <2>2. UNCHANGED rcpt => (Issued(q)' <=> Issued(q))
        BY DEF Issued
    <2>3. ASSUME NEW p \in Requests, ConsumeApprovalReceipt(p)
          PROVE  Issued(q)' <=> Issued(q)
        <3>1. CASE p = q
            BY <2>3, <3>1 DEF ConsumeApprovalReceipt, Approved
        <3>2. CASE p # q
            BY <2>3, <3>2 DEF ConsumeApprovalReceipt, Issued, AdmissionTypeOK
        <3> QED
            BY <3>1, <3>2
    <2> QED
        BY <2>1, <2>2, <2>3
        DEF AdmissionNext, AuthorizeDiscovery, AuthorizationExpires, EndDiscovery,
            CreateCandidate, ReviseCandidate, InvalidateCandidateApprovals,
            PrepareConfirmation, BindConfirmationMessage, WithdrawConfirmation
<1> QED
    BY <1>1 DEF Decide, Issued, AdmissionTypeOK
=============================================================================
