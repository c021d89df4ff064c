\* A message with an unknown code is answered with the previous answer.
CONSTANTS
    MaxReq = 2
    SendHWM = 1
    Codes = {"ONLINE", "OTHER"}
    SearchResults = {"found"}
SPECIFICATION Spec
PROPERTIES ServiceSpec
CHECK_DEADLOCK FALSE
