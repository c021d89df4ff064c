\* Crashes, failing forks, failing initialisations and stop signals.
CONSTANTS
    MaxProcs = 4
    MaxCrashes = 2
    MaxForkFails = 1
    MaxInitFails = 1
    Stops = TRUE
SPECIFICATION FairSpec
INVARIANTS StateOK OneServer DeathIsSeen
PROPERTIES ServiceRecovers StopIsInherited SupervisorsStop
CHECK_DEADLOCK FALSE
