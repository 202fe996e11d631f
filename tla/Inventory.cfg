CONSTANT Size = 3
SPECIFICATION Spec
INVARIANTS TypeOK ReportComplete OutageEnds CrashNeedsFailure
