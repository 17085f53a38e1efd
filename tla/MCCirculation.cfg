\* Two doTx goroutines in the full scope, one interrupt: Run returns after it, and until it every address circulates.
CONSTANTS
    a1 = a1  a2 = a2  a3 = a3
    None = None
    Addrs <- MCAddrs
    PartLen = 2
    Basic = FALSE
    Times = 100
    Balances <- MCBalances
    Fee = 1
    Width = 16
    MaxSignals = 1
SPECIFICATION Spec
\* After Run returns the driver may wait on cirInfoCh for good: the final states are terminal.
CHECK_DEADLOCK FALSE
PROPERTY RunReturns EveryAddressCirculates
