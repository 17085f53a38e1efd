------------------------------ MODULE MCSigHash ------------------------------
(***************************************************************************)
(* Two goroutines verify the two inputs of one transaction, each with the  *)
(* signature its owner made over the spec's draft for that input.          *)
(***************************************************************************)
EXTENDS SigHash, TLC

CONSTANTS v1, v2

MCVerifiers == {v1, v2}

\* scripts are short byte sequences: the two ScriptSigs and the two scriptPubKeys
MCOrigSigs == <<<<1>>, <<2>>>>

\* a collision-free hash of the inputs' ScriptSigs over these scripts
MCTxHash(d) ==
    LET code(s) == IF s = <<>> THEN 0 ELSE s[1]
    IN code(d[1]) + 5 * code(d[2])

HonestJob(idx, spk) ==
    [idx |-> idx, spk |-> spk, decodes |-> TRUE,
     signedHash |-> MCTxHash(Draft(idx, spk))]

MCJob == (v1 :> HonestJob(0, <<3>>)) @@ (v2 :> HonestJob(1, <<4>>))
=============================================================================
