SPECIFICATION MCSpec
CONSTANTS
    ClockSkew = 1
    TTL = 2
    h1 = h1
    None = None
    Forged = Forged
    Proc = {h1}
    h2 = h2
    Agent <- MCAgent
    Workload <- MCWorkload
    Audience <- MCAudience
    Principal <- MCPrincipal
    Scope <- MCScope
    Actor <- MCActor
    IdPToken <- MCIdPToken
    Proof <- MCProof
    Shape <- MCShape
    Document <- MCDocument
    MaxTime = 5
    MaxTokens = 3
    MaxDocs = 1
INVARIANT ScopeOnlyNarrows
\* With MaxTokens tokens minted and the clock at MaxTime nothing is left to do.
CHECK_DEADLOCK FALSE
