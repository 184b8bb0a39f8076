SPECIFICATION Spec
CONSTANTS
    Tests = {t1}
    MaxPackets = 2
    Garbage = TRUE
    Faults <- AllFaults
    MaxInterrupts = 2
INVARIANTS IInv VerdictsFaithful SavedVerdictsComplete ExitZeroIsClean PacketsExact
PROPERTIES OnlyForward ImplementsLifecycle
