SPECIFICATION SessionsSpec
CONSTANTS
    ClockSkew = 1
    NonceTTL = 1
    h1 = h1
    h2 = h2
    None = None
    Proc = {h1, h2}
    Self = "db"
    Agent <- MCAgent
    Workload <- MCWorkload
    Audience <- MCAudience
    Principal <- MCPrincipal
    Scope <- MCScope
    Token <- MCToken
    Proof <- MCProof
    RaceProof <- MCRaceProof
    LateProof <- MCLateProof
    RevokeProof <- MCRevokeProof
    Tokens <- MCClaims
    Forged <- MCMappings
    ShortName <- MCShortName
    File <- MCFile
    MaxTime = 4
    MaxNonces = 3
    MaxEdits = 3
SYMMETRY Handlers
INVARIANTS
    NonceBacksOneForward
    ForwardedIsRecorded
    ProofBacksOneForward
    RevocationBindsNextRequest
    ChildIsBearer
    HonestAccepted
\* Without another nonce to issue (MaxNonces) a handler waits for good.
CHECK_DEADLOCK FALSE
