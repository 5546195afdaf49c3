SPECIFICATION Spec
CONSTANTS
    N = 2
    Pids = {p1, p2, p3}
    NoPid = NoPid
    MaxRestarts = 1
    ShutdownPolls = 2
    Forkers = {1}
    Reusable = {p1, p2}
VIEW AllButChan
CHECK_DEADLOCK FALSE
INVARIANTS
    TypeOK
    PidNamesOwnLeader
    NothingForeignShot
    StoppingIsDying
    NoStrayLeader
PROPERTIES
    ImplementsLifecycle
