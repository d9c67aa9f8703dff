SPECIFICATION SessionsSpec
CONSTANTS
    ClockSkew = 1
    NonceTTL = 1
    h1 = h1
    h2 = h2
    None = None
    Proc = {h1}
    Self = "db"
    Agent <- MCAgent
    Workload <- MCWorkload
    Audience <- MCAudience
    Principal <- MCPrincipal
    Scope <- MCScope
    Token <- MCToken
    Proof <- MCProof
    RaceProof <- MCRaceProof
    LateProof <- MCLateProof
    RevokeProof <- MCRevokeProof
    Tokens <- MCClaims
    Forged <- MCMappings
    ShortName <- MCShortName
    File <- WorkloadFile
    MaxTime = 1
    MaxNonces = 2
    MaxEdits = 2
INVARIANTS
    DeniedWorkloadStopped
\* Without another nonce to issue (MaxNonces) a handler waits for good.
CHECK_DEADLOCK FALSE
