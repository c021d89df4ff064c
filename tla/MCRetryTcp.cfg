\* Three calls, the retries of the code, two waits within the time.
CONSTANTS
    MaxCalls = 3
    RetryCount = 3
    WaitTimeout = 1500
    WaitInterval = 500
    MaxSends = 8
SPECIFICATION FairSpec
INVARIANTS StateOK OneAnswerUnderWay SendsBounded
PROPERTIES ExchangeSpec CallReturns CallRunsDown
CHECK_DEADLOCK FALSE
