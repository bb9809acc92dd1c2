SPECIFICATION Spec
CONSTANTS
    Folders <- MCFolders
    Contents <- MCContents
    MaxMishaps = 2
    MaxRuns = 3
CHECK_DEADLOCK FALSE
INVARIANTS GreenMeansImported FailureStaysInItsFile RefsAreOwn
PROPERTIES RunsAgree
