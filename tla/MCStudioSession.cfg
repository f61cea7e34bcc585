SPECIFICATION Spec
CONSTANTS
    Hosts = {"live", "bundle", "project", "capture"}
    Seeks = {0, 1}
    Edits = {2}
    Sources = {1, 2}
    JournalLimit = 3
    MaxEdits = 1
    MaxTroubles = 2
INVARIANTS
    SessionTypeOK
    EditsMeetTheSceneInspected
    AttestedCommitsSurvive
PROPERTIES
    JournalIsOneExecution
    SavedSessionsResume
CHECK_DEADLOCK FALSE
