SPECIFICATION Spec
CONSTANTS
    Tests = {t1}
    MaxPackets = 2
    Garbage = FALSE
    Faults <- ChildFaults
    MaxInterrupts = 1
INVARIANT InterruptIsHandled
PROPERTIES ChildExitEndsRun InterruptEndsRun
