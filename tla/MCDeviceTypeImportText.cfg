SPECIFICATION Spec
CONSTANTS
    Folders <- MCFolders
    Contents <- MCContents
    MaxMishaps = 0
    MaxRuns = 1
CHECK_DEADLOCK FALSE
INVARIANT BadFileStopsNothing
