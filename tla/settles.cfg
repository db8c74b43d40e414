SPECIFICATION FairSpec
CONSTANTS
    Workspaces = {w1}
    Branches = {1}
    NoSession = NoSession
    Disturbances <- SettlingDisturbances
    MaxConnects = 1
    MaxPrompts = 1
    MaxStops = 1
    MaxMessages = 1
PROPERTIES
    ClosingFinishes
    SignalledProcessEnds
    StoppingSettles
