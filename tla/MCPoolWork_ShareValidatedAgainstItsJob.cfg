\* A refresh installs a new template while a miner still works on the old job.
CONSTANTS
    c1 = c1
    c2 = c2
    Primary <- p
    AuxChains <- MCOneAux
    Clients <- MCOneClient
    Hash <- MCHash
    PoolTarget = 2
    Target <- MCTarget
    MaxGen = 2
    MaxTip = 1
    NoHash = NoHash
    AuxFetchCanFail = FALSE
    InsertCanFail = TRUE
    ResponseCanBeLost = TRUE
    CrashCanHappen = FALSE
SPECIFICATION Spec
PROPERTY ShareValidatedAgainstItsJob
