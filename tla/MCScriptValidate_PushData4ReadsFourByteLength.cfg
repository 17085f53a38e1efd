CONSTANTS
  Digest <- MCDigest
  SigValid <- MCSigValid
  HashLen <- MCHashLen
  ScriptSigs <- MCScriptSigsLong
  ScriptPubKeys <- MCScriptPubKeys
  HonestSpends <- MCHonestSpends
  NoScript = NoScript
  BuilderData <- MCBuilderData
SPECIFICATION Spec
CHECK_DEADLOCK FALSE
INVARIANT PushData4ReadsFourByteLength
