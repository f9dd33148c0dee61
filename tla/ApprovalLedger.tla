--------------------------- MODULE ApprovalLedger ---------------------------
(***************************************************************************)
(* What admission and publication promise together of an approval: it is   *)
(* live until it is revoked or claimed for one list of operations, what is *)
(* claimed is not revoked any more and is published once at most, and it   *)
(* is settled (consumed) only after that.                                  *)
(***************************************************************************)
EXTENDS Naturals

CONSTANTS Approvals, Ops, NoOps

VARIABLES
    stage,    \* how far each approval has come
    claim,    \* the operations each approval is claimed for
    commits   \* how many commits each approval has authorized

ledger == <<stage, claim, commits>>

Init ==
    /\ stage = [q \in Approvals |-> "none"]
    /\ claim = [q \in Approvals |-> NoOps]
    /\ commits = [q \in Approvals |-> 0]

Approve(q) ==
    /\ stage[q] = "none" /\ stage' = [stage EXCEPT ![q] = "live"]
    /\ UNCHANGED <<claim, commits>>

\* A new revision or the end of a workflow revokes several at once.
Revoke(asked) ==
    /\ asked # {} /\ \A q \in asked : stage[q] = "live"
    /\ stage' = [q \in Approvals |-> IF q \in asked THEN "revoked" ELSE stage[q]]
    /\ UNCHANGED <<claim, commits>>

Claim(q, ops) ==
    /\ stage[q] = "live" /\ stage' = [stage EXCEPT ![q] = "claimed"]
    /\ claim' = [claim EXCEPT ![q] = ops]
    /\ UNCHANGED commits

Publish(q) ==
    /\ stage[q] = "claimed" /\ stage' = [stage EXCEPT ![q] = "published"]
    /\ commits' = [commits EXCEPT ![q] = @ + 1]
    /\ UNCHANGED claim

Settle(q) ==
    /\ stage[q] = "published" /\ stage' = [stage EXCEPT ![q] = "settled"]
    /\ UNCHANGED <<claim, commits>>

Next ==
    \/ \E q \in Approvals : Approve(q) \/ Publish(q) \/ Settle(q)
    \/ \E asked \in SUBSET Approvals : Revoke(asked)
    \/ \E q \in Approvals, ops \in Ops : Claim(q, ops)

Spec == Init /\ [][Next]_ledger
=============================================================================
