\* After a reorganization LoadBlockByHeight still returns detached blocks.
CONSTANTS
    Genesis = Genesis
    A1 = A1  A2 = A2  A3 = A3  B2 = B2  B3 = B3  B4 = B4
    Nil = Nil  None = None
    Blocks <- MCBlocks
    Parent <- MCParent
    Txs <- MCTxs
    Setups <- MCValid
    MaxMsgs = 7
    MaxBlocksPerSync = 2
    MaxRestarts = 0
SPECIFICATION Spec
\* Delivery stops after MaxMsgs messages.
CHECK_DEADLOCK FALSE
INVARIANT LoadByHeightMatchesChain
