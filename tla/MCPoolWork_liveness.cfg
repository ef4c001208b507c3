\* One session with two aux chains under weak fairness of its submit steps:
\* every block-candidate submission finishes despite failures
\* and retries.
CONSTANTS
    c1 = c1
    c2 = c2
    Primary <- p
    AuxChains <- MCAuxChains
    Clients <- MCOneClient
    Hash <- MCHash
    PoolTarget = 2
    Target <- MCTarget
    MaxGen = 2
    MaxTip = 1
    NoHash = NoHash
    AuxFetchCanFail = TRUE
    InsertCanFail = TRUE
    ResponseCanBeLost = TRUE
    CrashCanHappen = FALSE
SPECIFICATION FairSpec
PROPERTY SubmitCompletes
