------------------------- MODULE ScriptEvaluateOld -------------------------
(***************************************************************************)
(* The older interpreter of src/script/script.go (the first file in it,    *)
(* lines 188-465): Script.Evaluate with its own execOp, which builds its   *)
(* errors with errors.New and pushes the small numbers through a chain of  *)
(* fallthrough cases.  Written here as one RECURSIVE operator so that the  *)
(* step-by-step interpreter of ScriptVM (the newer evaluate) can be        *)
(* checked against it on every script the model runs.                     *)
(*                                                                         *)
(* The old verifySig / CalcTxHashForSig (lines 417-465) hash the draft     *)
(* with tx.TxHash(), which returns the hash cached in the transaction when *)
(* there is one, and caches what it computes otherwise (types.Transaction  *)
(* is not under src/).  The machine state therefore carries the cache:     *)
(* "none", "tx" (the hash of the whole transaction, computed before the   *)
(* script runs, e.g. when the transaction was received; it covers the     *)
(* ScriptSigs and so no signature in them can sign it), or "draft" with   *)
(* the signed script whose draft was hashed first.                         *)
(***************************************************************************)
EXTENDS Script

\* the error text the old file returns for each error of the new one
OldError ==
    [ErrScriptBound               |-> "Program counter out of script bound",
     ErrNoEnoughDataOPPUSHDATA1   |-> "OP_PUSHDATA1 has not enough data",
     ErrNoEnoughDataOPPUSHDATA2   |-> "OP_PUSHDATA2 has not enough data",
     ErrNoEnoughDataOPPUSHDATA4   |-> "OP_PUSHDATA4 has not enough data",
     ErrInvalidStackOperation     |-> "ScriptErrInvalidStackOperation",
     ErrScriptEqualVerify         |-> "ScriptErrEqualVerify",
     ErrScriptSignatureVerifyFail |-> "ScriptErrSignatureVerifyFail",
     ErrBadOpcode                 |-> "Bad opcode",
     ErrNumberTooBig              |-> "ErrNumberTooBig",
     ErrEmptyStack                |-> "ErrEmptyStack",
     ErrFalseStackTop             |-> "ErrFalseStackTop"]

\* the old parseNextOp: the same decoding, the old error texts
ParseNextOpOld(s, pc) ==
    LET r == ParseNextOp(s, pc)
    IN IF r.err = NoErr THEN r ELSE [r EXCEPT !.err = OldError[r.err]]

NoTxHash == [state |-> "none", draft |-> <<>>]
WholeTxHash == [state |-> "tx", draft |-> <<>>]

(* CalcTxHashForSig (old): tx.TxHash() of the draft for signed script      *)
(* signed, given the cache c: the cached hash if any, else the draft's.    *)
TxHashOld(c, signed) ==
    IF c.state = "none" THEN [state |-> "draft", draft |-> signed] ELSE c

(***************************************************************************)
(* The old execOp on machine state m = [stack, sep, hash, err] for the     *)
(* opcode r.op with data r.data; r.pc is the pc after the opcode.          *)
(***************************************************************************)
ExecOpOld(s, m, r) ==
    LET st == m.stack
        T(n) == st[Len(st) + 1 - n]
        P(k) == SubSeq(st, 1, Len(st) - k)
        Ok(x) == [m EXCEPT !.stack = x]
        Err(e) == [m EXCEPT !.err = e]
        Bool(b) == IF b THEN operandTrue ELSE operandFalse
        need1 == {OPDUP, OPHASH160}
        need2 == {OPADD, OPSUB, OPEQUAL, OPEQUALVERIFY, OPCHECKSIG, OPCHECKSIGVERIFY}
    IN CASE r.op <= OPPUSHDATA4 -> Ok(Append(st, r.data))
         [] r.op \in {OP1NEGATE} \cup (OP1..OP16) ->
              Ok(Append(st, NumBytes(r.op - (OP1 - 1))))
         [] r.op = OPCODESEPARATOR -> [m EXCEPT !.sep = r.pc]
         [] (r.op \in need1 /\ Len(st) < 1) \/ (r.op \in need2 /\ Len(st) < 2) ->
              Err("ScriptErrInvalidStackOperation")
         [] r.op = OPDUP -> Ok(Append(st, T(1)))
         [] r.op \in {OPADD, OPSUB} ->
              IF ~ValidNum(T(2)) \/ ~ValidNum(T(1)) THEN Err("ErrNumberTooBig")
              ELSE Ok(Append(P(2), NumBytes(IF r.op = OPADD
                                           THEN NumValue(T(2)) + NumValue(T(1))
                                           ELSE NumValue(T(2)) - NumValue(T(1)))))
         [] r.op = OPEQUAL -> Ok(Append(P(2), Bool(T(2) = T(1))))
         [] r.op = OPEQUALVERIFY ->
              IF T(2) = T(1) THEN Ok(P(2)) ELSE Err("ScriptErrEqualVerify")
         [] r.op = OPHASH160 -> Ok(Append(P(1), Digest(T(1))))
         [] r.op \in {OPCHECKSIG, OPCHECKSIGVERIFY} ->
              LET h == TxHashOld(m.hash, SubSeq(s, m.sep + 1, Len(s)))
                  v == h.state = "draft" /\ SigValid(T(2), T(1), h.draft)
                  mh == [m EXCEPT !.hash = h]
              IN
              CASE r.op = OPCHECKSIG -> [mh EXCEPT !.stack = Append(P(2), Bool(v))]
                [] v -> [mh EXCEPT !.stack = P(2)]
                [] OTHER -> [mh EXCEPT !.err = "ScriptErrSignatureVerifyFail"]
         [] OTHER -> Err("Bad opcode")

\* Evaluate: run the loop from pc, then the final validateTop
RECURSIVE EvalLoopOld(_, _, _)
EvalLoopOld(s, m, pc) ==
    IF pc >= Len(s)
    THEN CASE m.stack = <<>> -> "ErrEmptyStack"
           [] IsTrue(m.stack[Len(m.stack)]) -> "ok"
           [] OTHER -> "ErrFalseStackTop"
    ELSE LET r == ParseNextOpOld(s, pc) IN
         IF r.err # NoErr THEN r.err
         ELSE LET m2 == ExecOpOld(s, m, r) IN
              IF m2.err # NoErr THEN m2.err ELSE EvalLoopOld(s, m2, r.pc)

\* Evaluate on a transaction whose hash cache is c
EvaluateOld(s, c) == EvalLoopOld(s, [stack |-> <<>>, sep |-> 0, hash |-> c, err |-> NoErr], 0)
=============================================================================
