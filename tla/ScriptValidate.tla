--------------------------- MODULE ScriptValidate ---------------------------
(***************************************************************************)
(* script.Validate(scriptSig, scriptPubKey, tx, txInIdx) of                *)
(* src/script/script.go: evaluate scriptSig || OPCODESEPARATOR ||          *)
(* scriptPubKey and, when scriptPubKey is pay-to-script-hash, evaluate a   *)
(* second script made of the first two pushes of scriptSig.  The two       *)
(* evaluate calls are runs of the ScriptVM loop; the actions of this       *)
(* module are the code between them.                                       *)
(*                                                                         *)
(*   phase    "p1": first evaluate, "p2": second (P2SH) evaluate, "done"   *)
(*   result   the error Validate returns ("ok" for nil)                    *)
(*   redeem   the redeem script the second evaluate ran (history)          *)
(***************************************************************************)
EXTENDS ScriptVM, ScriptEvaluateOld

CONSTANTS ScriptSigs,     \* unlocking scripts offered by spenders (any bytes)
          ScriptPubKeys,  \* locking scripts of the referenced outputs
          HonestSpends,   \* <<scriptSig, scriptPubKey>> pairs built by the owner
          NoScript,       \* model value: no redeem script was run
          BuilderData     \* sequences of operands given to Builder.AddData

VARIABLES scriptSig, scriptPubKey, phase, result, redeem

vars == <<vm, scriptSig, scriptPubKey, phase, result, redeem>>

\* catScript := NewScript().AddScript(scriptSig).AddOpCode(OPCODESEPARATOR).AddScript(scriptPubKey)
CatScript(sig, pubKey) == sig \o <<OPCODESEPARATOR>> \o pubKey

Init ==
    /\ \E sig \in ScriptSigs, pubKey \in ScriptPubKeys :
          /\ scriptSig = sig
          /\ scriptPubKey = pubKey
          /\ script = CatScript(sig, pubKey)
    /\ pc = 0
    /\ sep = 0
    /\ stack = <<>>
    /\ status = Running
    /\ checked = {}
    /\ phase = "p1"
    /\ result = Running
    /\ redeem = NoScript

\* one iteration of the loop of the evaluate in progress
Evaluate ==
    /\ phase \in {"p1", "p2"}
    /\ Step
    /\ UNCHANGED <<scriptSig, scriptPubKey, phase, result, redeem>>

\* the first evaluate returned: return its error, or nil when not P2SH
ReturnAfterFirst ==
    /\ phase = "p1"
    /\ Done
    /\ (status # "ok" \/ ~IsPayToScriptHash(scriptPubKey))
    /\ phase' = "done"
    /\ result' = status
    /\ UNCHANGED <<vm, scriptSig, scriptPubKey, redeem>>

\* P2SH: first operand is the signature, second the serialized redeem
\* script; parse errors are ignored (`_`) and give an empty operand
StartRedeem ==
    /\ phase = "p1"
    /\ Done
    /\ status = "ok"
    /\ IsPayToScriptHash(scriptPubKey)
    /\ LET first == ParseNextOp(scriptSig, 0)
           second == ParseNextOp(scriptSig, first.pc)
       IN /\ Load(CatScript(AddOperand(first.data), second.data))
          /\ redeem' = second.data
    /\ phase' = "p2"
    /\ UNCHANGED <<scriptSig, scriptPubKey, result>>

\* the second evaluate returned: Validate returns its error
ReturnAfterRedeem ==
    /\ phase = "p2"
    /\ Done
    /\ phase' = "done"
    /\ result' = status
    /\ UNCHANGED <<vm, scriptSig, scriptPubKey, redeem>>

Next == Evaluate \/ ReturnAfterFirst \/ StartRedeem \/ ReturnAfterRedeem

\* evaluate is a plain loop in the caller's goroutine: it keeps stepping
Spec == Init /\ [][Next]_vars /\ WF_vars(Next)

-----------------------------------------------------------------------------
TypeOK ==
    /\ script \in Seq(ByteValues)
    /\ pc \in 0..Len(script)
    /\ sep \in 0..Len(script)
    /\ stack \in Seq(Seq(ByteValues))
    /\ phase \in {"p1", "p2", "done"}
    /\ checked \subseteq (Seq(ByteValues) \X Seq(ByteValues))
    /\ (phase = "done") = (result # Running)

\* the hash a P2PKH / P2SH locking script commits to
IsPayToPubKeyHash(s) ==
    /\ Len(s) = HashLen + 5
    /\ s = PayToPubKeyHashScript(SubSeq(s, 4, 3 + HashLen))
Committed(s) == IF IsPayToScriptHash(s) THEN SubSeq(s, 3, 2 + HashLen)
                ELSE SubSeq(s, 4, 3 + HashLen)

(***************************************************************************)
(* Validate terminates: every evaluate loop reaches its end and Validate   *)
(* returns (parseNextOp always moves pc forward).                          *)
(***************************************************************************)
ValidateReturns == <>(phase = "done")

(***************************************************************************)
(* The owner can spend: a scriptSig built by the owner's wallet            *)
(* (SignatureScript over a signature of the locking script, or the         *)
(* P2SH pair <data> <redeem script>) is accepted by Validate.  Signing     *)
(* and verifying agree on the signed script only if OPCODESEPARATOR, the   *)
(* CHECKSIG suffix and the P2SH re-evaluation all do what Validate needs.  *)
(***************************************************************************)
HonestSpendAccepted ==
    (phase = "done" /\ <<scriptSig, scriptPubKey>> \in HonestSpends) => result = "ok"

(***************************************************************************)
(* The two interpreters in script.go agree: whenever the newer evaluate    *)
(* returns, the older Evaluate on the same script returns the same         *)
(* outcome (nil, or the same error under its older text), whether or not  *)
(* the transaction's hash was cached before the script ran.  The spec's   *)
(* signature-hash rule asks for a fresh hash of the draft.                 *)
(***************************************************************************)
AgreesWithOldEvaluate ==
    Done => \A c \in {NoTxHash, WholeTxHash} :
                EvaluateOld(script, c) = IF status = "ok" THEN "ok" ELSE OldError[status]

(***************************************************************************)
(* A P2PKH output is spent only with a signature: if Validate accepts a   *)
(* spend of OPDUP OPHASH160 <h> OPEQUALVERIFY OPCHECKSIG, then some        *)
(* OPCHECKSIG verified a signature by a public key whose Hash160 is h.     *)
(***************************************************************************)
P2PKHNeedsOwnerSignature ==
    (result = "ok" /\ IsPayToPubKeyHash(scriptPubKey)) =>
        \E c \in checked : Digest(c[1]) = Committed(scriptPubKey)

(***************************************************************************)
(* A P2SH output is spent only by running the committed script: if        *)
(* Validate accepts a spend of OPHASH160 <h> OPEQUAL, the second evaluate  *)
(* ran a redeem script whose Hash160 is h.                                 *)
(***************************************************************************)
P2SHRunsCommittedScript ==
    (result = "ok" /\ IsPayToScriptHash(scriptPubKey)) =>
        /\ redeem # NoScript
        /\ Digest(redeem) = Committed(scriptPubKey)

(***************************************************************************)
(* Validate accepts a spend of a standard output only as its template      *)
(* promises: a P2PKH output only with the owner's signature, a P2SH output *)
(* only by running the committed redeem script.                            *)
(***************************************************************************)
SpendsAuthorized == P2PKHNeedsOwnerSignature /\ P2SHRunsCommittedScript

(***************************************************************************)
(* Builder.addData and the interpreter agree on the push encoding: when a  *)
(* scriptSig built by NewBuilder().AddData(d1)...AddData(dn) has been run  *)
(* to its end by the first evaluate, the stack holds d1..dn in order.  The *)
(* only rewrite is addData's own: the one byte 0 is pushed as OP_0, i.e.   *)
(* as the empty operand, the same script number.  Wrong here are the       *)
(* small-integer opcodes (OP1-1+x, OP1NEGATE for 0x81) and the length      *)
(* boundaries 75/76 and 255/256 between the OP_DATA, PUSHDATA1 and        *)
(* PUSHDATA2 forms.                                                        *)
(***************************************************************************)
Pushed(d) == IF d = <<0>> THEN <<>> ELSE d

BuilderPushesData ==
    \A ds \in BuilderData :
        (/\ phase = "p1" /\ status = Running
         /\ scriptSig = BuildPushes(ds) /\ pc = Len(scriptSig))
            => stack = [i \in 1..Len(ds) |-> Pushed(ds[i])]

(***************************************************************************)
(* OP_PUSHDATA4 pushes as many bytes as its 4-byte little-endian length    *)
(* says (spec 4.1): whenever parseNextOp accepts an OP_PUSHDATA4 at pc,    *)
(* the data it returns has that length.  The length is low + 2^16 * high  *)
(* of its two 16-bit halves; TLC integers stop at 2^31, so the equality    *)
(* is stated on the halves.                                                *)
(***************************************************************************)
PushData4ReadsFourByteLength ==
    (status = Running /\ pc < Len(script) /\ Cur.err = NoErr /\ Cur.op = OPPUSHDATA4)
        => /\ Len(Cur.data) = LE(script, pc + 1, 2)
           /\ LE(script, pc + 3, 2) = 0
=============================================================================
