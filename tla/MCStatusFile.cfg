\* Three processes, updates that overlap in every way, kills and failures.
CONSTANTS
    Procs = {business, gopanbox, manager}
    Values = {v1, v2}
    Unreadable = Unreadable
    Nothing = Nothing
SPECIFICATION FairSpec
INVARIANTS StateOK ReadableUnlessFault AloneIsKept
PROPERTIES ReadableAgain
