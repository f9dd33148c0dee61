SPECIFICATION FairSpec
CONSTANTS
    Runs = {a, b}
    Calls = {x, y}
    NoCall = NoCall
    MaxActive = 2
    Overlap = FALSE
INVARIANTS DrainedStaysDrained CapacityKept
PROPERTIES RefusedIsFinal DrainCompletes HooksReturn
