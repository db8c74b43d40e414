SPECIFICATION Spec
CONSTANTS
    MaxRecordBytes = 2
    MaxStream = 6
    MaxChunk = 3
    MaxEntries = 4
    MaxDamaged = 3
PROPERTIES
    DecoderKeepsFrames
    RecoveryFindsTheFailedTurn
CHECK_DEADLOCK FALSE
