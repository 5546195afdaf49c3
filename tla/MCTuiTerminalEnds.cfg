SPECIFICATION TuiFairSpec
CONSTANTS
    N = 1
    Pids = {p1}
    NoPid = NoPid
    MaxRestarts = 1
    ShutdownPolls = 1
    Forkers = {}
    Reusable = {}
    Alone = TRUE
VIEW UpToChan
PROPERTIES
    TuiTerminalEnds
