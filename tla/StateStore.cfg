SPECIFICATION StFairSpec
CONSTANTS
    c1 = c1
    c2 = c2
    b1 = b1
    b2 = b2
    m1 = m1
    m2 = m2
    x = x
    y = y
    s1 = s1
    r1 = r1
    r2 = r2
    r3 = r3
    NoRow = NoRow
    Corrections = {c1, c2}
    Baseline = {m1, m2}
    ImportLog <- MCImportLog
    StateOf <- MCStateOf
    SessionOf <- MCSessionOf
    PriorRun <- MCPriorRun
    StateIds = {x, y}
    Sessions = {s1}
    Runs = {r1, r2, r3}
    MaxAttempts = 2
INVARIANTS AppliedToPreviewedView OneClaimant EveryRevisionAnswers BaselineIsFirst
PROPERTIES AppliedIsAcknowledged
CHECK_DEADLOCK FALSE
