SPECIFICATION KeysSpec
CONSTANTS
    k1 = k1
    k2 = k2
    k3 = k3
    m1 = m1
    m2 = m2
    None = None
    Tokens <- MCTokens
    Files <- MCFiles
    KeySets <- MCKeySets
    AlgOf <- MCAlgOf
    Spiffe = {"w"}
    Issuer = "idp"
    URI = {u1, u2}
    Kid = {k1, k2, k3}
    Material = {m1, m2}
    Exchange = {x1}
    ClockSkew = 1
    TTL = 1
    Margin = 1
    Drains = TRUE
    FreshKids = TRUE
    MaxTime = 4
SYMMETRY Interchangeable
INVARIANTS 
    UnexpiredVerifies
    OnlyLiveKeys
    ThroughoutAttested
