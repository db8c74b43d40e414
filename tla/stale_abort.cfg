SPECIFICATION Spec
CONSTANTS
    Workspaces = {w1}
    Branches = {1}
    NoSession = NoSession
    Disturbances <- NoDisturbance
    MaxConnects = 1
    MaxPrompts = 2
    MaxStops = 1
    MaxMessages = 2
INVARIANTS
    AbortStopsItsOwnTurn
