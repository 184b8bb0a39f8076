SPECIFICATION Spec
CONSTANTS
    MaxStarts = 2
    MaxConns = 1
    MaxData = 1
    Udp = TRUE
    BackendFaults <- AllFaults
INVARIANTS StopReleasesEverything DeathIsReported ShortfallIsExplained
PROPERTY StopQuiesces
