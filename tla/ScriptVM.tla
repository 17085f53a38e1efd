------------------------------ MODULE ScriptVM ------------------------------
(***************************************************************************)
(* The interpreter loop Script.evaluate of src/script/script.go: one step  *)
(* of the model is one iteration of its `for pc < scriptLen` loop, i.e.    *)
(* parseNextOp followed by execOp, and a last step is the final            *)
(* stack.validateTop.  One action per branch of execOp.                    *)
(*                                                                         *)
(*   script  the script being evaluated, the receiver s                    *)
(*   pc      the program counter                                           *)
(*   sep     scriptPubKeyStart, moved by OP_CODESEPARATOR                  *)
(*   stack   the stack, top at the end                                     *)
(*   status  "running", "ok", or the error evaluate returns                *)
(*   checked history: the <<pubKey, signed script>> pairs for which        *)
(*           verifySig returned true (not a variable of the code)          *)
(***************************************************************************)
EXTENDS Script

VARIABLES script, pc, sep, stack, status, checked

vm == <<script, pc, sep, stack, status, checked>>

Running == "running"

\* evaluate(tx, txInIdx) called on script s: a fresh stack, pc = 0
Load(s) ==
    /\ script' = s
    /\ pc' = 0
    /\ sep' = 0
    /\ stack' = <<>>
    /\ status' = Running
    /\ checked' = checked

\* stack.topN(n): the n-th item from the top
TopN(n) == stack[Len(stack) + 1 - n]
Pop(k) == SubSeq(stack, 1, Len(stack) - k)

\* the current loop iteration: parseNextOp(pc) succeeded on opcode Cur.op
Cur == ParseNextOp(script, pc)
Fetch(ops) ==
    /\ status = Running
    /\ pc < Len(script)
    /\ Cur.err = NoErr
    /\ Cur.op \in ops
    /\ pc' = Cur.pc
    /\ UNCHANGED script

\* execOp returned an error: evaluate returns it
Fail(err) == /\ status' = err
             /\ UNCHANGED <<sep, stack, checked>>
\* execOp returned nil with stack s
Continue(s) == /\ stack' = s
               /\ UNCHANGED <<status, sep, checked>>

PushOps == 0..OPPUSHDATA4
NumberOps == (OP1NEGATE..OP16) \ {OPRESERVED}
KnownOps == PushOps \cup NumberOps \cup
            {OPDUP, OPADD, OPSUB, OPEQUAL, OPEQUALVERIFY, OPHASH160,
             OPCODESEPARATOR, OPCHECKSIG, OPCHECKSIGVERIFY}
ByteValues == 0..255

-----------------------------------------------------------------------------
\* parseNextOp failed: evaluate returns its error
ParseFail ==
    /\ status = Running
    /\ pc < Len(script)
    /\ Cur.err # NoErr
    /\ status' = Cur.err
    /\ UNCHANGED <<script, pc, sep, stack, checked>>

\* opCode <= OPPUSHDATA4: push the data
PushData ==
    /\ Fetch(PushOps)
    /\ Continue(Append(stack, Cur.data))

\* OP1NEGATE, OP1..OP16: push the small number
PushNumber ==
    /\ Fetch(NumberOps)
    /\ Continue(Append(stack, NumBytes(Cur.op - OP1 + 1)))

OpDup ==
    /\ Fetch({OPDUP})
    /\ IF Len(stack) < 1 THEN Fail("ErrInvalidStackOperation")
       ELSE Continue(Append(stack, TopN(1)))

OpAddSub ==
    /\ Fetch({OPADD, OPSUB})
    /\ CASE Len(stack) < 2 -> Fail("ErrInvalidStackOperation")
         [] ~ValidNum(TopN(2)) \/ ~ValidNum(TopN(1)) -> Fail("ErrNumberTooBig")
         [] OTHER ->
              LET sn1 == NumValue(TopN(2))
                  sn2 == NumValue(TopN(1))
                  sn == IF Cur.op = OPADD THEN sn1 + sn2 ELSE sn1 - sn2
              IN Continue(Append(Pop(2), NumBytes(sn)))

OpEqual ==
    /\ Fetch({OPEQUAL, OPEQUALVERIFY})
    /\ IF Len(stack) < 2 THEN Fail("ErrInvalidStackOperation")
       ELSE LET isEqual == TopN(2) = TopN(1) IN
            CASE Cur.op = OPEQUAL ->
                   Continue(Append(Pop(2), IF isEqual THEN operandTrue ELSE operandFalse))
              [] isEqual -> Continue(Pop(2))
              [] OTHER   -> Fail("ErrScriptEqualVerify")

OpHash160 ==
    /\ Fetch({OPHASH160})
    /\ IF Len(stack) < 1 THEN Fail("ErrInvalidStackOperation")
       ELSE Continue(Append(Pop(1), Digest(TopN(1))))

\* mutant: the signed part starts at the separator itself
OpCodeSeparatorAtOp ==
    /\ sep' = pc
    /\ Fetch({OPCODESEPARATOR})
    /\ UNCHANGED <<stack, status, checked>>

\* mutant: the signed part starts one byte past the separator's successor
OpCodeSeparatorPastNext ==
    /\ Fetch({OPCODESEPARATOR})
    /\ sep' = Cur.pc + 1
    /\ UNCHANGED <<stack, status, checked>>

\* scriptPubKey starts after the code separator; pc points to the next byte
OpCodeSeparator ==
    /\ Fetch({OPCODESEPARATOR})
    /\ sep' = Cur.pc
    /\ UNCHANGED <<stack, status, checked>>

\* verifySig over the script from scriptPubKeyStart on, then the VERIFY check
OpCheckSig ==
    /\ Fetch({OPCHECKSIG, OPCHECKSIGVERIFY})
    /\ IF Len(stack) < 2 THEN Fail("ErrInvalidStackOperation")
       ELSE LET signed == SubSeq(script, sep + 1, Len(script))
                isVerified == SigValid(TopN(2), TopN(1), signed)
            IN /\ checked' = IF isVerified THEN checked \cup {<<TopN(1), signed>>}
                                           ELSE checked
               /\ UNCHANGED sep
               /\ CASE Cur.op = OPCHECKSIG ->
                         /\ stack' = Append(Pop(2), IF isVerified THEN operandTrue ELSE operandFalse)
                         /\ UNCHANGED status
                    [] isVerified -> stack' = Pop(2) /\ UNCHANGED status
                    [] OTHER -> status' = "ErrScriptSignatureVerifyFail" /\ UNCHANGED stack

\* default branch of execOp
BadOpcode ==
    /\ Fetch(ByteValues \ KnownOps)
    /\ Fail("ErrBadOpcode")

\* the loop ends: succeed if the top stack item is true
Finish ==
    /\ status = Running
    /\ pc >= Len(script)
    /\ status' = CASE stack = <<>>       -> "ErrEmptyStack"
                   [] IsTrue(TopN(1)) -> "ok"
                   [] OTHER           -> "ErrFalseStackTop"
    /\ UNCHANGED <<script, pc, sep, stack, checked>>

Step ==
    \/ ParseFail \/ PushData \/ PushNumber \/ OpDup \/ OpAddSub \/ OpEqual
    \/ OpHash160 \/ OpCodeSeparator \/ OpCheckSig \/ BadOpcode \/ Finish

Done == status # Running
=============================================================================
