SPECIFICATION FairSpec
CONSTANTS
    N = 1
    Pids = {p1}
    NoPid = NoPid
    MaxRestarts = 1
    ShutdownPolls = 1
    Forkers = {}
    Reusable = {}
INVARIANTS
    LogReadsAsLife
    SignalLogComplete
    OneShutdownLine
    NoOrphanLeader
PROPERTIES
    ImplementsSupervisor
    StoppingEnds
    RestartHappens
    SignalEnds
    TerminalEnds
