\* Aux merkle tree, marker and AuxPoW branch: properties that hold.
CONSTANTS
    a1 = a1
    a2 = a2
    a3 = a3
    a4 = a4
    a5 = a5
    Leaf <- MCLeaf
    MaxAux = 5
    NoRoot = NoRoot
    NoMarker = NoMarker
    t1 = t1
    ph = ph
    hd = hd
    TxHash <- MCTxHash
    MaxTxSteps = 2
    ParentHash = ph
    ParentHeader = hd
    ChainID <- MCChainID
SPECIFICATION Spec
INVARIANT TypeOK
INVARIANT BranchesReproduceRoot
INVARIANT RootMatchesReference
INVARIANT AuxPowParsesBack
