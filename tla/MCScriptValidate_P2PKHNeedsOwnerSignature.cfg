CONSTANTS
  Digest <- MCDigest
  SigValid <- MCSigValid
  HashLen <- MCHashLen
  ScriptSigs <- MCScriptSigs
  ScriptPubKeys <- MCScriptPubKeys
  HonestSpends <- MCHonestSpends
  NoScript = NoScript
  BuilderData <- MCBuilderData
SPECIFICATION Spec
CHECK_DEADLOCK FALSE
INVARIANT P2PKHNeedsOwnerSignature
