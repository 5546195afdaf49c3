SPECIFICATION RecordingSpec
CONSTANTS
    Pids = {p, q}
    Window = 2
    MaxStorage = 3
    Page = 2
    MaxBirths = 2
    MaxWatches = 2
INVARIANTS
    PlaysInRange
    OncePerWatch
PROPERTIES
    RoomIsMade
    SeenExitIsSaved
