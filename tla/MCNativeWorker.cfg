SPECIFICATION Spec
CONSTANTS
    LastFrame = 2
    Events = {"a", "b"}
    StageInputs = TRUE
    CheckpointFrames = 2
    MaxInputs = 2
    MaxReplayFrames = 2
    MaxReplayInputs = 3
    MaxEntries = 3
    MaxPreview = 2
    MaxCrashes = 2
INVARIANTS
    WorkerTypeOK
    PreviewIsTheTimeline
    PendingIsAdmissible
    OwnJournalReplays
PROPERTIES
    ImplementsTimeline
CHECK_DEADLOCK FALSE
