SPECIFICATION Spec
CONSTANTS
    Config = config
    Workspaces = {w1}
    NoWorkspace = none
    SessionIds = {s1, s2}
    NoSession = nosession
    Agents = {A, B}
    NoAgent = noagent
    Foreign = F
    SettingsEdits <- MCSettingsEdits
    ModelsEdits <- MCModelsEdits
    MaxEdits = 2
    MaxCrashes = 2
    MaxFailures = 1
INVARIANTS
    TypeOK
    SettingsSurvive
    LaunchPossible
PROPERTIES
    ForeignModelsKept
CHECK_DEADLOCK FALSE
