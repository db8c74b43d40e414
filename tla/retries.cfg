SPECIFICATION Spec
CONSTANTS
    Workspaces = {w1}
    Branches = {1}
    NoSession = NoSession
    Disturbances <- RetryDisturbances
    MaxConnects = 1
    MaxPrompts = 1
    MaxStops = 1
    MaxMessages = 2
INVARIANTS
    OpenMessagesAreTracked
PROPERTIES
    KeepsContract
