CONSTANTS
    MaxAttempts = 3
    Hour = 4
    Units = 2
SPECIFICATION Spec
INVARIANTS TypeOK QueryHasConnection FailuresThrottled
PROPERTIES ReconnectsBySecondScrape CollectorReturns CloseEnds
