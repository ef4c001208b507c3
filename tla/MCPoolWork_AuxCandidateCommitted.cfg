\* Aux fetches may fail, so a refresh may also keep the previous round's
\* AuxBlocks under a coinbase that commits to none; the shortest violation
\* is a session reading p.templates between the refresher's two writes,
\* pairing new aux blocks with the old coinbase.
CONSTANTS
    c1 = c1
    c2 = c2
    Primary <- p
    AuxChains <- MCOneAux
    Clients <- MCOneClient
    Hash <- MCHash
    PoolTarget = 2
    Target <- MCTarget
    MaxGen = 2
    MaxTip = 1
    NoHash = NoHash
    AuxFetchCanFail = TRUE
    InsertCanFail = TRUE
    ResponseCanBeLost = TRUE
    CrashCanHappen = FALSE
SPECIFICATION Spec
INVARIANT AuxCandidateCommitted
