CONSTANTS
    Requests = {r1}
    Period = 3
    MaxLate = 8
SPECIFICATION Spec
INVARIANTS TypeOK NotLeftRunning
PROPERTIES PingsEveryPeriod
