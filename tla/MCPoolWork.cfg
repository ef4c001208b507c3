\* One session, the aux chain namecoin (unknown to GetChain, so an accepted
\* aux block panics the process), every fault toggle on, and other exits at
\* any point, each followed by a restart (up to three templates).
CONSTANTS
    c1 = c1
    c2 = c2
    Primary <- p
    AuxChains <- MCUnknownAux
    Clients <- MCOneClient
    Hash <- MCHash
    PoolTarget = 2
    Target <- MCTarget
    MaxGen = 3
    MaxTip = 1
    NoHash = NoHash
    AuxFetchCanFail = TRUE
    InsertCanFail = TRUE
    ResponseCanBeLost = TRUE
    CrashCanHappen = TRUE
SPECIFICATION Spec
INVARIANT TypeOK
