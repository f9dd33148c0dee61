CONSTANTS
    Auths = {a1}
    Cands = {c1}
    Requests = {q1}
    Ops = {o1}
    Original = Original
    Foreign = Foreign
    Rests = {r1, r2}
    NoAuth = NoAuth
    Unused = Unused
    Gone = Gone
    NoReceipt = NoReceipt
    NoOps = NoOps
    NoJournal = NoJournal
    NoChangeSet = NoChangeSet
    NoTree = NoTree
    MaxEdits = 0
    MaxRevisions = 2
SPECIFICATION Spec
CHECK_DEADLOCK FALSE
INVARIANT SpentApprovalStaysSpent
