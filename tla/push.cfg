SPECIFICATION Spec
CONSTANTS
    Events <- Stream
    MaxEvents = 3
CHECK_DEADLOCK FALSE
INVARIANTS TypeOK Mirrors Described
PROPERTIES FirstChildFixed
