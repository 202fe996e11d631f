CONSTANTS
    Operators = {o1}
    MaxSups = 3
    Procs = {1, 2, 3}
SPECIFICATION Spec
INVARIANTS TypeOK OneSupervisor PidFileTrue
PROPERTIES KeepsServing StopEnds
CHECK_DEADLOCK FALSE
