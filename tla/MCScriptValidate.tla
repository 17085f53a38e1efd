------------------------- MODULE MCScriptValidate -------------------------
(***************************************************************************)
(* Model of script.Validate for TLC.  Hash160 is shrunk to one byte        *)
(* (HashLen = 1) and computed by a fixed mixing function; a signature is   *)
(* <<0x30, key byte, digest of the signed script>>, so it is valid only    *)
(* for the exact script the owner signed.  Spenders offer either up to two *)
(* pushes of interesting operands, or any byte string of length up to      *)
(* MaxRawLen over an alphabet of push lengths and opcodes.                 *)
(***************************************************************************)
EXTENDS ScriptValidate, SequencesExt

MCHashLen == 1

\* the weighted byte sum is split in halves, so that built scripts of 500
\* bytes recurse only about ten levels deep
HashByte(x) ==
    LET W(k) == x[k] * (13 * k + 7)
        RECURSIVE Sum(_, _)
        Sum(lo, hi) ==
            IF lo > hi THEN 0
            ELSE IF lo = hi THEN W(lo)
            ELSE Sum(lo, (lo + hi) \div 2) + Sum((lo + hi) \div 2 + 1, hi)
    IN (3 + 5 * Len(x) + Sum(1, Len(x))) % 256

MCDigest(x) == <<HashByte(x)>>

PK1 == <<2, 11>>
PK2 == <<3, 12>>
PubKeys == {PK1, PK2}

SigFor(pk, signed) == <<48, pk[2], HashByte(signed)>>

MCSigValid(sig, pk, signed) == pk \in PubKeys /\ sig = SigFor(pk, signed)

\* locking scripts: P2PKH to PK1, P2SH of OP_2 OP_ADD OP_3 OP_EQUAL, and
\* that same script used bare as a locking script
P2PKH1 == PayToPubKeyHashScript(MCDigest(PK1))
Redeem == <<OP1 + 1, OPADD, OP1 + 2, OPEQUAL>>
P2SH1 == <<OPHASH160>> \o AddOperand(MCDigest(Redeem)) \o <<OPEQUAL>>
MCScriptPubKeys == {P2PKH1, P2SH1, Redeem}

MCHonestSpends ==
    {<<SignatureScript(SigFor(PK1, P2PKH1), PK1), P2PKH1>>,
     <<AddOperand(<<1>>) \o AddOperand(Redeem), P2SH1>>,
     <<<<OP1>>, Redeem>>}

Operands == {<<>>, <<1>>, PK1, PK2, SigFor(PK1, P2PKH1), Redeem}
PushSigs == {FlattenSeq([i \in 1..Len(os) |-> AddOperand(os[i])]) : os \in BoundedSeq(Operands, 2)}

Alphabet == {0, 1, 2, 7, OP1, OP1 + 1, OPDUP, OPHASH160, OPEQUAL,
             OPCODESEPARATOR, OPCHECKSIG, OPPUSHDATA1, OPPUSHDATA4, OPRESERVED}
RawSigs(n) == BoundedSeq(Alphabet, n)

\* operands for Builder.AddData: the one-byte numbers at the small-integer
\* edges and data lengths on both sides of the 75/76 and 255/256 limits
Bytes(n) == [i \in 1..n |-> (7 * i) % 256]
SmallData == {<<>>, <<0>>, <<1>>, <<16>>, <<17>>, <<128>>, <<129>>}
LongData == {Bytes(75), Bytes(76), Bytes(255), Bytes(256)}
MCBuilderData ==
    {<<d>> : d \in SmallData \cup LongData}
    \cup {<<d, e>> : d, e \in {<<0>>, <<16>>, <<129>>, Bytes(76)}}
BuiltSigs == {BuildPushes(ds) : ds \in MCBuilderData}

MCScriptSigs == PushSigs \cup RawSigs(2) \cup BuiltSigs
\* three raw bytes reach OPPUSHDATA4 followed by two length bytes
MCScriptSigsLong == RawSigs(3)
=============================================================================
