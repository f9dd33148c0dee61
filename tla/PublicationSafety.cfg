CONSTANTS
    Auths = {a1, a2}
    Cands = {c1}
    Requests = {q1, q2}
    Ops = {o1}
    Original = Original
    Foreign = Foreign
    Rests = {r1}
    NoAuth = NoAuth
    Unused = Unused
    Gone = Gone
    NoReceipt = NoReceipt
    NoOps = NoOps
    NoJournal = NoJournal
    NoChangeSet = NoChangeSet
    NoTree = NoTree
    MaxEdits = 1
    MaxRevisions = 2
SPECIFICATION Spec
SYMMETRY Symmetry
CHECK_DEADLOCK FALSE
INVARIANTS TypeOK LiveApprovalIsLatest
PROPERTIES PublishedOnReviewedBase ImplementsLedger
