\* Read requests and empty messages, a card found or an error: the process
\* implements ReadService, and no ONLINE request is dropped.
CONSTANTS
    MaxReq = 3
    SendHWM = 1
    Codes = {"ONLINE", "OFFLINE", "EMPTY"}
    SearchResults = {"found", "error"}
SPECIFICATION FairSpec
INVARIANTS OnlineNeverDropped
PROPERTIES ServiceSpec
CHECK_DEADLOCK FALSE
