SPECIFICATION FairSpec
CONSTANTS
    Restorers = {r1, r2}
    Hooks = {h}
    Snapshots = {s}
    MaxRev = 2
    MaxStops = 2
    Overlap = {}
    None = None
    Torn = Torn
    Absent = Absent
    Empty = Empty
INVARIANTS PriorIsRecoverable ReportIsTrue
PROPERTIES ServedTargetKept InterruptedIsUndone
