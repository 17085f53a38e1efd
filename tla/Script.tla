------------------------------- MODULE Script -------------------------------
(***************************************************************************)
(* The byte-level encoding of boxd scripts (src/script/script.go): the     *)
(* opcode table, how a data push is encoded (AddOperand) and decoded       *)
(* (parseNextOp), script numbers, the truth test on the stack top and the  *)
(* P2SH / P2PKH templates.  Everything here is a pure operator; the        *)
(* interpreter loop that uses it is ScriptVM.                              *)
(*                                                                         *)
(* A script is a sequence of bytes (naturals 0..255).  Code offsets are    *)
(* 0-based, TLA+ sequences 1-based: the byte at code offset i is s[i+1].   *)
(*                                                                         *)
(* Cryptography is an external collaborator: Hash160 is the CONSTANT       *)
(* operator Digest, and signature verification is the CONSTANT operator    *)
(* SigValid.  HashLen is the width of a Hash160 result (20 in the code).   *)
(***************************************************************************)
EXTENDS Integers, Sequences

CONSTANTS Digest(_),        \* Hash160 of a byte sequence: a byte sequence of length HashLen
          SigValid(_, _, _),\* SigValid(sig, pubKey, signedScript): crypto verifySig on the fixed tx
          HashLen           \* length of a Hash160 (20 in the code)

ASSUME HashLen \in 1..20

(***************************************************************************)
(* Opcodes (core/script/opcode.go, not part of src/: values of the spec's  *)
(* opcode table, which are Bitcoin's).                                     *)
(***************************************************************************)
OP0 == 0
OPPUSHDATA1 == 76
OPPUSHDATA2 == 77
OPPUSHDATA4 == 78
OP1NEGATE == 79
OPRESERVED == 80
OP1 == 81
OP16 == 96
OPDUP == 118
OPEQUAL == 135
OPEQUALVERIFY == 136
OPADD == 147
OPSUB == 148
OPHASH160 == 169
OPCODESEPARATOR == 171
OPCHECKSIG == 172
OPCHECKSIGVERIFY == 173

\* little-endian decoding of n bytes starting at code offset i
LE(s, i, n) ==
    LET RECURSIVE Acc(_)
        Acc(k) == IF k = 0 THEN 0 ELSE s[i + k] * (2 ^ (8 * (k - 1))) + Acc(k - 1)
    IN Acc(n)

\* little-endian encoding of x in n bytes
LEBytes(x, n) == [k \in 1..n |-> (x \div (2 ^ (8 * (k - 1)))) % 256]

(***************************************************************************)
(* AddOperand: the shortest push opcode for the length, then the data.     *)
(***************************************************************************)
AddOperand(operand) ==
    LET n == Len(operand) IN
    CASE n < OPPUSHDATA1 -> <<n>> \o operand
      [] n <= 255        -> <<OPPUSHDATA1, n>> \o operand
      [] n <= 65535      -> <<OPPUSHDATA2>> \o LEBytes(n, 2) \o operand
      [] OTHER           -> <<OPPUSHDATA4>> \o LEBytes(n, 4) \o operand

(***************************************************************************)
(* Builder (script.go 29-118): a script under construction and its first  *)
(* error.  Nothing in script.go ever sets err, so the guards on it never  *)
(* stop a call; they are kept as the code has them.                       *)
(***************************************************************************)
NoBuildErr == "nil"

NewBuilder == [script |-> <<>>, err |-> NoBuildErr]

AddOp(b, opcode) ==
    IF b.err # NoBuildErr THEN b ELSE [b EXCEPT !.script = Append(@, opcode)]

\* mutant: the small-integer opcode one too high (OP1 + data[0])
AddDataSmallIntHigh(b, data) ==
    LET n == Len(data)
        Put(bytes) == [b EXCEPT !.script = @ \o bytes]
    IN CASE n = 0 \/ (n = 1 /\ data[1] = 0) -> Put(<<OP0>>)
         [] n = 1 /\ data[1] <= 16          -> Put(<<OP1 + data[1]>>)
         [] n = 1 /\ data[1] = 129          -> Put(<<OP1NEGATE>>)
         [] n < OPPUSHDATA1  -> Put(<<n>> \o data)
         [] n <= 255         -> Put(<<OPPUSHDATA1, n>> \o data)
         [] n <= 65535       -> Put(<<OPPUSHDATA2>> \o LEBytes(n, 2) \o data)
         [] OTHER            -> Put(<<OPPUSHDATA4>> \o LEBytes(n, 4) \o data)

\* addData: a one-byte number 0, 1..16 or 0x81 (-1) becomes its small
\* integer opcode, an empty push is OP_0; any other data gets the shortest
\* length prefix, then the data
addData(b, data) ==
    LET n == Len(data)
        Put(bytes) == [b EXCEPT !.script = @ \o bytes]
    IN CASE n = 0 \/ (n = 1 /\ data[1] = 0) -> Put(<<OP0>>)
         [] n = 1 /\ data[1] <= 16          -> Put(<<(OP1 - 1) + data[1]>>)
         [] n = 1 /\ data[1] = 129          -> Put(<<OP1NEGATE>>)
         [] n < OPPUSHDATA1  -> Put(<<n>> \o data)
         [] n <= 255         -> Put(<<OPPUSHDATA1, n>> \o data)
         [] n <= 65535       -> Put(<<OPPUSHDATA2>> \o LEBytes(n, 2) \o data)
         [] OTHER            -> Put(<<OPPUSHDATA4>> \o LEBytes(n, 4) \o data)

AddData(b, data) == IF b.err # NoBuildErr THEN b ELSE addData(b, data)

\* Script(): the bytes built so far (and the error, never set)
BuilderScript(b) == b.script

\* NewBuilder().AddData(ds[1])...AddData(ds[n]).Script()
BuildPushes(ds) ==
    LET RECURSIVE Fold(_)
        Fold(k) == IF k = 0 THEN NewBuilder ELSE AddData(Fold(k - 1), ds[k])
    IN BuilderScript(Fold(Len(ds)))

(***************************************************************************)
(* parseNextOp(pc): the opcode at pc, its push data, the new pc and an     *)
(* error.  The 4-byte length of OP_PUSHDATA4 is read with Uint16, i.e.     *)
(* only its two low bytes count, exactly as the code does.                 *)
(***************************************************************************)
NoErr == "none"

ParseResult(op, data, pc, err) == [op |-> op, data |-> data, pc |-> pc, err |-> err]

\* the operand size prefix of a push opcode located just before offset p
PushHeader(s, op, p) ==
    LET n == Len(s)
        Hdr(size, q, err) == [size |-> size, pc |-> q, err |-> err]
    IN CASE op < OPPUSHDATA1 -> Hdr(op, p, NoErr)
         [] op = OPPUSHDATA1 ->
              IF n - p < 1 THEN Hdr(0, p, "ErrNoEnoughDataOPPUSHDATA1")
                           ELSE Hdr(s[p + 1], p + 1, NoErr)
         [] op = OPPUSHDATA2 ->
              IF n - p < 2 THEN Hdr(0, p, "ErrNoEnoughDataOPPUSHDATA2")
                           ELSE Hdr(LE(s, p, 2), p + 2, NoErr)
         [] op = OPPUSHDATA4 ->
              IF n - p < 4 THEN Hdr(0, p, "ErrNoEnoughDataOPPUSHDATA4")
                           ELSE Hdr(LE(s, p, 2), p + 4, NoErr)

\* mutant: an opcode without data leaves pc where it was
ParseNextOpNoAdvance(s, pc) ==
    IF pc >= Len(s) THEN ParseResult(0, <<>>, pc, "ErrScriptBound")
    ELSE LET op == s[pc + 1] IN
         IF op > OPPUSHDATA4 THEN ParseResult(op, <<>>, pc, NoErr)
         ELSE LET h == PushHeader(s, op, pc + 1) IN
              CASE h.err # NoErr          -> ParseResult(op, <<>>, h.pc, h.err)
                [] Len(s) - h.pc < h.size -> ParseResult(op, <<>>, h.pc, "ErrScriptBound")
                [] OTHER -> ParseResult(op, SubSeq(s, h.pc + 1, h.pc + h.size),
                                        h.pc + h.size, NoErr)

ParseNextOp(s, pc) ==
    IF pc >= Len(s) THEN ParseResult(0, <<>>, pc, "ErrScriptBound")
    ELSE LET op == s[pc + 1] IN
         IF op > OPPUSHDATA4 THEN ParseResult(op, <<>>, pc + 1, NoErr)
         ELSE LET h == PushHeader(s, op, pc + 1) IN
              CASE h.err # NoErr          -> ParseResult(op, <<>>, h.pc, h.err)
                [] Len(s) - h.pc < h.size -> ParseResult(op, <<>>, h.pc, "ErrScriptBound")
                [] OTHER -> ParseResult(op, SubSeq(s, h.pc + 1, h.pc + h.size),
                                        h.pc + h.size, NoErr)

(***************************************************************************)
(* Script numbers (core/script/scriptnum.go, not part of src/): minimal    *)
(* little-endian sign-magnitude, at most 4 bytes when read as an operand.  *)
(***************************************************************************)
RECURSIVE Magnitude(_)
Magnitude(m) == IF m = 0 THEN <<>> ELSE <<m % 256>> \o Magnitude(m \div 256)

NumBytes(sn) ==
    IF sn = 0 THEN <<>>
    ELSE LET mag == Magnitude(IF sn < 0 THEN -sn ELSE sn)
             top == mag[Len(mag)]
             sign == IF sn < 0 THEN 128 ELSE 0
         IN IF top >= 128 THEN mag \o <<sign>>
            ELSE [mag EXCEPT ![Len(mag)] = top + sign]

\* newScriptNum: the value of an operand (ValidNum says whether it may be read)
NumValue(op) ==
    IF Len(op) = 0 THEN 0
    ELSE LET top == op[Len(op)]
             mag == LE([op EXCEPT ![Len(op)] = top % 128], 0, Len(op))
         IN IF top >= 128 THEN -mag ELSE mag

ValidNum(op) == Len(op) <= 4

\* stack.validateTop: the top exists and casts to true (not zero, not -0)
IsTrue(op) ==
    \E i \in 1..Len(op) : op[i] # 0 /\ ~(i = Len(op) /\ op[i] = 128)

operandTrue == <<1>>
operandFalse == <<>>

(***************************************************************************)
(* Templates.                                                              *)
(***************************************************************************)
\* PayToPubKeyHashScript: OPDUP OPHASH160 <pubKeyHash> OPEQUALVERIFY OPCHECKSIG
PayToPubKeyHashScript(pubKeyHash) ==
    <<OPDUP, OPHASH160>> \o AddOperand(pubKeyHash) \o <<OPEQUALVERIFY, OPCHECKSIG>>

\* SignatureScript: <sig> <pubKey>
SignatureScript(sig, pubKey) == AddOperand(sig) \o AddOperand(pubKey)

\* IsPayToScriptHash: OP_HASH160 <HashLen-byte hash> OP_EQUAL, nothing else
IsPayToScriptHash(s) ==
    /\ Len(s) = HashLen + 3
    /\ s[1] = OPHASH160
    /\ s[2] = HashLen
    /\ s[HashLen + 3] = OPEQUAL
=============================================================================
