SPECIFICATION RecordsSpec
CONSTANTS
    Event <- MCEvent
    UserTokens <- MCUserTokens
    VisorLines <- MCVisorLines
    None = None
    MaxWrites = 6
    MaxLives = 4
    i1 = i1
    i2 = i2
    i3 = i3
    x = x
    y = y
    Garbled = Garbled
    Prefix = Prefix
    Long = {}
    MaxRecords = 0
    MaxLines = 0
    MaxTime = 1
    Job = {}
    Replayable = {}
    Copies = 1
    Faults = 0
INVARIANT AckedRecordsReadable
\* A file that does not decode keeps the process down for good, logs fill, and jobs end.
CHECK_DEADLOCK FALSE
