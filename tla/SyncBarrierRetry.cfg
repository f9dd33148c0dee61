SPECIFICATION RetrySpec
CONSTANTS
    g0 = g0
    g1 = g1
    g2 = g2
    u1 = u1
    NoGen = NoGen
    NoJournal = NoJournal
    Gens <- MCGens
    UserPaths <- MCUserPaths
    Domains <- MCDomains
    DomainOf <- MCDomainOf
    Destroys <- MCDestructive
    Runs = {r1}
    MaxCrashes = 1
    MaxFaults = 1
    MaxChanges = 1
PROPERTIES
    SyncReturns
    ServiceReturns
