SPECIFICATION Spec
CONSTANTS
    Tests = {t1, t2}
    MaxPackets = 1
    Garbage = FALSE
    MaxRuns = 2
    GuiFaults <- AllFaults
INVARIANTS ButtonsTellTheTruth SavedIsThisRun GreenIsClean
PROPERTIES ImplementsLifecycle StopFreesWindow
