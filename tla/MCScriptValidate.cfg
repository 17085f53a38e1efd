CONSTANTS
  Digest <- MCDigest
  SigValid <- MCSigValid
  HashLen <- MCHashLen
  ScriptSigs <- MCScriptSigs
  ScriptPubKeys <- MCScriptPubKeys
  HonestSpends <- MCHonestSpends
  NoScript = NoScript
  BuilderData <- MCBuilderData
SPECIFICATION Spec
\* Validate returns after its last evaluate: the final state is terminal
CHECK_DEADLOCK FALSE
INVARIANTS
  TypeOK
  HonestSpendAccepted
  BuilderPushesData
PROPERTIES
  ValidateReturns
