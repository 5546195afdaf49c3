SPECIFICATION HeadSpec
CONSTANTS
    N = 1
    Pids = {p1, p2}
    NoPid = NoPid
    MaxRestarts = 1
    ShutdownPolls = 1
    Forkers = {1}
    Reusable = {}
INVARIANTS
    TreeKilled
