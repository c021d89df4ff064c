\* The device initialisation fails once.
CONSTANTS
    MaxProcs = 4
    MaxCrashes = 0
    MaxForkFails = 0
    MaxInitFails = 1
    Stops = FALSE
SPECIFICATION FairSpec
PROPERTIES FailedProcessRestarted
CHECK_DEADLOCK FALSE
