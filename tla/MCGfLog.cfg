\* Two reporting processes, four records, sockets of two and pipes of one,
\* one log server that dies.
CONSTANTS
    r1 = r1
    r2 = r2
    Reporters = {r1, r2}
    MaxRecords <- MCMaxRecords
    SendHWM = 2
    RecvHWM = 1
    MaxCrashes = 1
SPECIFICATION FairSpec
INVARIANTS StateOK StopsWithinOneRecord NoServerIsForgotten
PROPERTIES ChannelSpec RecordsMoveOn StopCompletes
CHECK_DEADLOCK FALSE
