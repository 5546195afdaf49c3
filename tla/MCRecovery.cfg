SPECIFICATION RecFairSpec
CONSTANTS
    Ports = {a, b}
    NoPort = NoPort
    DiscoveryLimit = 1
    Interval = 2
    FirstDelay = 1
    MaxDelay = 3
    Stability = 3
    Horizon = 6
INVARIANTS
PROPERTIES
    KillsAreEarned
    DelaysDouble
    RestartProbesOwnPort
    SilenceIsNoticed
    DiscoveryEnds
