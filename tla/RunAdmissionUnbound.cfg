SPECIFICATION Spec
CONSTANTS
    Runs = {a, b}
    Calls = {x, y}
    NoCall = NoCall
    MaxActive = 2
    Overlap = FALSE
PROPERTY NoRunGoesOnUnbound
