\* One call: is each retry a send?
CONSTANTS
    MaxCalls = 1
    RetryCount = 3
    WaitTimeout = 1000
    WaitInterval = 500
    MaxSends = 8
SPECIFICATION Spec
INVARIANT RetriesAreResends
CHECK_DEADLOCK FALSE
