SPECIFICATION Spec
CONSTANTS
    Events <- Stream
    MaxEvents = 3
CHECK_DEADLOCK FALSE
PROPERTIES PatchKeeps
