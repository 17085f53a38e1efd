CONSTANTS
  v1 = v1
  v2 = v2
  Verifiers <- MCVerifiers
  OrigSigs <- MCOrigSigs
  Job <- MCJob
  TxHash <- MCTxHash
SPECIFICATION Spec
INVARIANT VerifyLeavesTxUnchanged
