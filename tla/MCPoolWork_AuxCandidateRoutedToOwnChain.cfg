\* Two aux chains, createauxblock may fail: the slots of p.templates.AuxBlocks
\* shift while BlockChainOrder[auxIndex+1] does not.
CONSTANTS
    c1 = c1
    c2 = c2
    Primary <- p
    AuxChains <- MCAuxChains
    Clients <- MCOneClient
    Hash <- MCHash
    PoolTarget = 2
    Target <- MCTarget
    MaxGen = 2
    MaxTip = 1
    NoHash = NoHash
    AuxFetchCanFail = TRUE
    InsertCanFail = TRUE
    ResponseCanBeLost = TRUE
    CrashCanHappen = FALSE
SPECIFICATION Spec
INVARIANT AuxCandidateRoutedToOwnChain
