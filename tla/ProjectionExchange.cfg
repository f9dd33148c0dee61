SPECIFICATION FairSpec
CONSTANTS
    p0 = p0
    p1 = p1
    p2 = p2
    p3 = p3
    r0 = r0
    r1 = r1
    r2 = r2
    s0 = s0
    s1 = s1
    Publishers = {p0, p1, p2, p3}
    Earlier = {p0}
    RevisionOf <- MCRevisionOf
    Revisions = {r0, r1, r2}
    SourceOf <- MCSourceOf
    Collectors = {c}
    Recoverers = {v}
    Readers = {k}
    Vouched = {r0}
    None = None
    Bare = Bare
    Torn = Torn
    Empty = Empty
    MaxDeaths = 1
INVARIANTS ActiveIsWhole OwnerKeepsLock OneRevisionPerSource
PROPERTIES ConsumedIsActive CrashIsRecovered
CHECK_DEADLOCK FALSE
