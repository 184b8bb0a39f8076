SPECIFICATION Spec
CONSTANTS
    Tests = {t1}
    MaxPackets = 1
    Garbage = FALSE
    Faults = {"crash"}
    MaxInterrupts = 0
INVARIANT NoCleanPassForABrokenRun
