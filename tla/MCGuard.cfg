SPECIFICATION GuardFairSpec
CONSTANTS
    Children = {c1, c2}
    KillThreshold = 75
    EmergencyThreshold = 78
    GraceTicks = 2
    Cooldown = 3
    MinKillUss = 2
    U8Max = 3
    Usages = {150, 156}
    Limits = {0, 200}
    V1Unlimited = 199
    UssLevels = {1, 2, 3}
    MaxStep = 2
INVARIANTS
    GuardTypeOK
PROPERTIES
    KillsAreSpaced
    KillsNeedPressure
    VictimIsHeaviest
    PressureKills
