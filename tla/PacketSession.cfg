SPECIFICATION SessionSpec
CONSTANTS
    Env <- Runs
    MaxSessionFrames = 2
    MaxRuns = 2
    MaxPoints = 3
INVARIANTS RecordsAgree TeardownReleases PlotIsTail
