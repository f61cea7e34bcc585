SPECIFICATION Spec
CONSTANTS
    Hosts = {"project"}
    Seeks = {0, 1}
    Edits = {2}
    Sources = {1, 2}
    JournalLimit = 3
    MaxEdits = 1
    MaxTroubles = 2
PROPERTIES
    RestartRestoresTheScene
CHECK_DEADLOCK FALSE
