SPECIFICATION Spec
CONSTANTS
    TopVid = 3
    Inputs <- MCInputs
    Vlans <- MCVlans
    Held <- MCHeld
    Records <- MCRecords
    MaxMishaps = 1
    MaxRuns = 2
CHECK_DEADLOCK FALSE
INVARIANT NativeTaggedIsTagged
