CONSTANTS
    Operators = {o1}
    MaxSups = 1
    Procs = {1, 2}
SPECIFICATION Spec
INVARIANT NoOrphan
CHECK_DEADLOCK FALSE
