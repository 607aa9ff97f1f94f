CONSTANTS
    HDR = 2
    Pages = 90
    Updates <- Migration
    MaxCuts = 1
    MaxFaults = 0
SPECIFICATION Spec
INVARIANT SwapSurvivesPowerLoss
CHECK_DEADLOCK FALSE
