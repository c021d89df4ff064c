\* Calls on the same and on new sockets, and every network.
CONSTANT MaxCalls = 2
SPECIFICATION FairSpec
INVARIANTS StateOK ErrorsAreOfThisConnection
PROPERTIES ExchangeSpec CallReturns
CHECK_DEADLOCK FALSE
