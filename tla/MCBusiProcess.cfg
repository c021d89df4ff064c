\* Messages of every kind, every outcome of the search.
CONSTANTS
    MaxReq = 3
    SendHWM = 1
    Codes = {"ONLINE", "OFFLINE", "OTHER", "EMPTY"}
    SearchResults = {"found", "nocard", "error"}
SPECIFICATION FairSpec
INVARIANTS StateOK AnswerIsForItsRequest ReferenceIsOfThisRead AnswersInOrder StatusAgreesWithAnswer
PROPERTIES EveryMessageHandled StopNoticedAtNextMessage
CHECK_DEADLOCK FALSE
