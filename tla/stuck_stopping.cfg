SPECIFICATION FairSpec
CONSTANTS
    Workspaces = {w1}
    Branches = {1}
    NoSession = NoSession
    Disturbances <- SpawnDisturbances
    MaxConnects = 1
    MaxPrompts = 0
    MaxStops = 0
    MaxMessages = 0
PROPERTIES
    StoppingSettles
