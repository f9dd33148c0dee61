SPECIFICATION Spec
CONSTANTS
    g0 = g0
    g1 = g1
    g2 = g2
    u1 = u1
    NoGen = NoGen
    NoJournal = NoJournal
    Gens <- MCGens
    UserPaths <- MCUserPaths
    Domains <- MCDomains
    DomainOf <- MCDomainOf
    Destroys <- MCAdditive
    Runs = {r1}
    MaxCrashes = 2
    MaxFaults = 1
    MaxChanges = 2
INVARIANTS
    TypeOK
    GateClosedWhileUnfinished
    OpenGateHostMatchesPointer
    BoundRunSeesItsGeneration
    PointerHasReceipt
PROPERTIES
    PointerSwitchIsLast
    UserPathsKept
    ImplementsBarrier
