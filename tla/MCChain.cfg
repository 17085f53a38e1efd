\* Well-formed blocks with a cache that never evicts, and blocks failing
\* the checks with caches of one and two entries, each with a restart
\* between any two steps: every call returns, the main chain only grows
\* to higher blocks, and with well-formed blocks, no eviction and no
\* restart the chain, the db, the update messages and the orphan pool stay
\* consistent.
CONSTANTS
    Genesis = Genesis
    A1 = A1  A2 = A2  A3 = A3  B2 = B2  B3 = B3  B4 = B4
    Nil = Nil  None = None
    Blocks <- MCBlocks
    Parent <- MCParent
    Txs <- MCTxs
    Setups <- MCSetups
    MaxMsgs = 7
    MaxBlocksPerSync = 2
    MaxRestarts = 1
SPECIFICATION Spec
\* Delivery stops after MaxMsgs messages.
CHECK_DEADLOCK FALSE
INVARIANT TypeOK FaultFreeEventsFollowChain FaultFreeMainChainPersisted FaultFreeOrphansResolved FaultFreeTxIndexMatchesMainChain
PROPERTY ProcessBlockReturns LongestChainRule
