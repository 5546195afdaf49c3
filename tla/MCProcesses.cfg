SPECIFICATION FairSpec
CONSTANTS
    Pids = {p1, p2}
    None = None
    Window = 2
    MinSamples = 2
    MaxWork = 1
INVARIANTS
    RatesAreOwn
    GrowthIsOwn
PROPERTIES
    ConfirmedDies
