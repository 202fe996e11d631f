CONSTANTS
    Requests = {r1, r2}
    Period = 3
    MaxLate = 4
SPECIFICATION Spec
PROPERTIES PingsEveryPeriod
