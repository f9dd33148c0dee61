SPECIFICATION Spec
CONSTANTS
    Restorers = {r1, r2}
    Hooks = {h}
    Snapshots = {s}
    MaxRev = 2
    MaxStops = 1
    Overlap = {"takeover"}
    None = None
    Torn = Torn
    Absent = Absent
    Empty = Empty
INVARIANTS ReportIsTrue
