SPECIFICATION Spec
CONSTANTS
    Width = 3
    MinMatch <- MCMinMatch
    NoRole <- MCNoRole
    Environments <- MCEnvironments
    Tree <- MCTree
    Devices <- MCDevices
    Tags <- MCTags
    Roles <- MCRoles
    Names = {"d", "new"}
    Default = "d"
    Inputs <- MCInputsSame
    Others <- MCOthers
    MaxMishaps = 1
    MaxRuns = 2
CHECK_DEADLOCK FALSE
INVARIANT ExactIsPresent
