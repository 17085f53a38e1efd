\* The old Evaluate, whose CHECKSIG hashes with the cached tx.TxHash(), rejects
\* the owner's P2PKH spend that the new evaluate accepts.
CONSTANTS
  Digest <- MCDigest
  SigValid <- MCSigValid
  HashLen <- MCHashLen
  ScriptSigs <- MCScriptSigs
  ScriptPubKeys <- MCScriptPubKeys
  HonestSpends <- MCHonestSpends
  NoScript = NoScript
  BuilderData <- MCBuilderData
SPECIFICATION Spec
\* Validate returns after its last evaluate: the final state is terminal
CHECK_DEADLOCK FALSE
INVARIANT AgreesWithOldEvaluate
