SPECIFICATION RecorderSpec
CONSTANTS
    MaxFrames = 4
    MaxInterrupts = 2
INVARIANTS ReportIsExact DeathIsExplained
PROPERTY StopEnds
