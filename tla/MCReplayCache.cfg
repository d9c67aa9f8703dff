SPECIFICATION Spec
CONSTANTS
    ClockSkew = 1
    p1 = p1
    p2 = p2
    None = None
    Caller = {p1, p2}
    Key <- MCKey
    Claim <- MCClaim
    MaxTime = 5
    MaxWrites = 3
SYMMETRY Symmetry
INVARIANTS
    NoReplayInWindow
    OpenGrantsSurvive
    MapMatchesFile
PROPERTY
    SingleUseInWindow
\* A file with an undecodable line keeps the process down for good.
CHECK_DEADLOCK FALSE
