CONSTANTS
    HDR = 2
    Pages = 90
    Updates <- Migration
    MaxCuts = 0
    MaxFaults = 0
SPECIFICATION Spec
INVARIANT ReplacesBootloader
CHECK_DEADLOCK FALSE
