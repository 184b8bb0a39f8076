SPECIFICATION Spec
CONSTANTS
    Forms <- Settings
    Tests <- Catalog
    Parent <- Tree
    MaxRuns = 2
INVARIANTS ChildAgrees VulnIsAuthorized DirectionIsRight SelectionIsExact PreflightIsEnough
CHECK_DEADLOCK FALSE
