\* Aux chain x has a network target easier than the pool target.
CONSTANTS
    c1 = c1
    c2 = c2
    Primary <- p
    AuxChains <- MCOneAux
    Clients <- MCOneClient
    Hash <- MCHash
    PoolTarget = 2
    Target <- MCEasyAuxTarget
    MaxGen = 2
    MaxTip = 1
    NoHash = NoHash
    AuxFetchCanFail = FALSE
    InsertCanFail = TRUE
    ResponseCanBeLost = TRUE
    CrashCanHappen = FALSE
SPECIFICATION Spec
INVARIANT CandidatesNeverDropped
