SPECIFICATION Spec
CONSTANTS
    MaxStarts = 3
    MaxAttempts = 3
    BackoffAfter = 2
    JoinTimesOut = TRUE
INVARIANTS AttemptsAccounted StopReleases
PROPERTIES ImplementsTunnelClients StopQuiesces
