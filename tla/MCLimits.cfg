SPECIFICATION LimitsSpec
CONSTANTS
    Caller = {c1, c2}
    Second = 3
    Cost = 2
    MaxTime = 8
    Nonce <- MCNonce
    NonceTTL = 2
    NonceBurst = 2
    NonceTime = 6
INVARIANTS 
    WindowBounded
    CacheBounded
PROPERTY BucketSpec
\* Callers go on forever, but the clock stops.
CHECK_DEADLOCK FALSE
