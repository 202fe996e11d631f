CONSTANTS
    MaxAttempts = 2
    Hour = 3
    Units = 1
SPECIFICATION Spec
PROPERTY RetriesAfterAnHour
