CONSTANTS
    MaxEvents = 3
    Window = 2
    MaxBreaks = 2
SPECIFICATION Spec
INVARIANTS TypeOK NoBusyLoop CaughtUp
PROPERTIES EventAnnotated CancelEnds
CHECK_DEADLOCK FALSE
