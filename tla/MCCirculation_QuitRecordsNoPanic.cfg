\* An interrupt reaches both doTx goroutines: the second close (or a send) on collAddrCh panics and the recover records it.
CONSTANTS
    a1 = a1  a2 = a2  a3 = a3
    None = None
    Addrs <- MCAddrs
    PartLen = 2
    Basic = FALSE
    Times = 100
    Balances <- MCBalances
    Fee = 1
    Width = 16
    MaxSignals = 1
SPECIFICATION Spec
\* After Run returns the driver may wait on cirInfoCh for good: the final states are terminal.
CHECK_DEADLOCK FALSE
INVARIANT QuitRecordsNoPanic
