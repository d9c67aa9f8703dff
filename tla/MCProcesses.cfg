SPECIFICATION MCSpec
CONSTANTS
    Handler = {h1, h2}
    Token = {t1, t2}
    Plain = plain
    Bad = bad
    k1 = k1
    k2 = k2
    k3 = k3
    None = None
    Ring <- MCRing
    FirstRing <- Current
    MaxEdits = 2
    MaxRuns = 2
INVARIANTS
    DenylistKeepsUp
    AnsweredIsRecorded
    SpentOnceWhenDrained
    OnlyAliasesRefused
PROPERTIES
    SignalHeeded
    StopsInTheEnd
\* After its last run the process stays down.
CHECK_DEADLOCK FALSE
