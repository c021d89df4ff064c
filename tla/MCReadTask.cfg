\* Two cards, errors anywhere.
CONSTANTS
    Cards = {c1, c2}
    NoCard = NoCard
    MaxSingles = 1
SPECIFICATION FairSpec
INVARIANTS StateOK PiecesOfAuthenticatedCard SessionOnCompleteChannel
PROPERTIES TaskEnds LateTaskRunsDown
