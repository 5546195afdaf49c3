SPECIFICATION RecordingSpec
CONSTANTS
    Pids = {p, q}
    Window = 2
    MaxStorage = 3
    Page = 2
    MaxBirths = 1
    MaxWatches = 2
PROPERTIES
    ExitIsRecorded
