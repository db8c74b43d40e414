SPECIFICATION Spec
CONSTANTS
    Workspaces = {w1}
    Branches = {1}
    NoSession = NoSession
    Disturbances <- NoDisturbance
    MaxConnects = 1
    MaxPrompts = 1
    MaxStops = 0
    MaxMessages = 1
INVARIANTS
    QuitsAfterProcessSettled
