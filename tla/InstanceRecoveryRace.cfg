SPECIFICATION Spec
CONSTANTS
    Restorers = {r}
    Hooks = {h1, h2}
    Snapshots = {s}
    MaxRev = 2
    MaxStops = 1
    Overlap = {"restore"}
    None = None
    Torn = Torn
    Absent = Absent
    Empty = Empty
PROPERTIES ServedTargetKept
