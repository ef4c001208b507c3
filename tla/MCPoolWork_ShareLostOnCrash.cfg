\* One session; the process may exit and restart. A found block whose share
\* is still in the in-memory buffer loses its share.
CONSTANTS
    c1 = c1
    c2 = c2
    Primary <- p
    AuxChains <- MCOneAux
    Clients <- MCOneClient
    Hash <- MCHash
    PoolTarget = 2
    Target <- MCTarget
    MaxGen = 3
    MaxTip = 1
    NoHash = NoHash
    AuxFetchCanFail = FALSE
    InsertCanFail = FALSE
    ResponseCanBeLost = FALSE
    CrashCanHappen = TRUE
SPECIFICATION Spec
INVARIANT FoundBlockHasShare
