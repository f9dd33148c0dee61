CONSTANTS
    Auths = {a1}
    Cands = {c1}
    Requests = {q1}
    Ops = {o1, o2}
    Original = Original
    Foreign = Foreign
    Rests = {r1, r2}
    NoAuth = NoAuth
    Unused = Unused
    Gone = Gone
    NoReceipt = NoReceipt
    NoOps = NoOps
    NoJournal = NoJournal
    NoChangeSet = NoChangeSet
    NoTree = NoTree
    MaxEdits = 2
    MaxRevisions = 2
SPECIFICATION RetrySpec
CHECK_DEADLOCK FALSE
INVARIANTS OneCommitPerApproval SettledMeansCommitted
PROPERTIES PublishedGetsSettled
