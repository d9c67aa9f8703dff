SPECIFICATION RecordsSpec
CONSTANTS
    Event <- MCEvent
    UserTokens <- MCUserTokens
    VisorLines <- MCVisorLines
    None = None
    MaxWrites = 6
    MaxLives = 4
    i1 = i1
    i2 = i2
    i3 = i3
    x = x
    y = y
    Garbled = Garbled
    Prefix = Prefix
    Long = {}
    MaxRecords = 4
    MaxLines = 1
    MaxTime = 2
    Job = {read, stream}
    Replayable = {read}
    Copies = 2
    Faults = 2
INVARIANTS
    OwnChainVerifies
    AckedRecordsSurvive
    PhantomsBounded
    LookupFindsAll
    VisorOnlyAdds
    ChainOrder
    ServedOnce
PROPERTIES
    KeepsJournal
    EventuallyServed
\* A file that does not decode keeps the process down for good, logs fill, and jobs end.
CHECK_DEADLOCK FALSE
