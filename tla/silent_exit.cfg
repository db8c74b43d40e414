SPECIFICATION Spec
CONSTANTS
    Workspaces = {w1}
    Branches = {1}
    NoSession = NoSession
    Disturbances <- ExitDisturbances
    MaxConnects = 1
    MaxPrompts = 1
    MaxStops = 0
    MaxMessages = 1
PROPERTIES
    ExitDuringTurnIsReported
