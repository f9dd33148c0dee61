SPECIFICATION FairSpec
CONSTANTS
    b1 = b1
    b2 = b2
    v1 = v1
    v2 = v2
    v4 = v4
    e = e
    s = s
    m = m
    t1 = t1
    t2 = t2
    p1 = p1
    p2 = p2
    fitness = fitness
    None = None
    Revisions = {v1, v2, v4}
    ContentOf <- MCContentOf
    Inputs <- MCInputs
    Packages = {p1, p2}
    Builders = {b1, b2}
    PackageOf <- MCPackageOf
    MaxMoves = 2
    MaxFaults = 1
INVARIANTS BuiltIsItsRevision VerifiesOnlyBuilt
PROPERTIES VisibleKept RebuildConverges
