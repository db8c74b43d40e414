SPECIFICATION Spec
CONSTANTS
    Workspaces = {w1}
    Branches = {1}
    NoSession = NoSession
    Disturbances <- TurnDisturbances
    MaxConnects = 1
    MaxPrompts = 2
    MaxStops = 1
    MaxMessages = 3
INVARIANTS
    DeadlinesFollowRequests
    PromptsNameTheirMessage
    AbortFollowsClearQueue
PROPERTIES
    UnknownOutcomeBlocksPrompts
    UncertainIsFinal
    KeepsContract
