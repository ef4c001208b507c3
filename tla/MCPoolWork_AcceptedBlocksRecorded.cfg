\* Submits never time out after reaching the daemon; the found-block Insert
\* may fail, and the aux chain is namecoin, which GetChain does not know.
CONSTANTS
    c1 = c1
    c2 = c2
    Primary <- p
    AuxChains <- MCUnknownAux
    Clients <- MCOneClient
    Hash <- MCHash
    PoolTarget = 2
    Target <- MCTarget
    MaxGen = 3
    MaxTip = 1
    NoHash = NoHash
    AuxFetchCanFail = FALSE
    InsertCanFail = TRUE
    ResponseCanBeLost = FALSE
    CrashCanHappen = FALSE
SPECIFICATION Spec
INVARIANT AcceptedBlocksRecorded
