\* The end of a stopped process.
CONSTANTS
    MaxReq = 1
    SendHWM = 1
    Codes = {"ONLINE"}
    SearchResults = {"found"}
SPECIFICATION FairSpec
PROPERTIES ShutdownCompletes
CHECK_DEADLOCK FALSE
