CONSTANTS
    MaxIndex = 2
    EnvValidity = 5
    VolumeValidity = 1
    MaxLate = 7
SPECIFICATION Spec
INVARIANTS TypeOK NeverReportsUnread FreshUnlessPassedOver NoHangWithoutFailure
