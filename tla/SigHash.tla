------------------------------- MODULE SigHash -------------------------------
(***************************************************************************)
(* verifySig and CalcTxHashForSig (src/script/script.go 788-840), run by   *)
(* several goroutines that verify inputs of one shared transaction.        *)
(*                                                                         *)
(* CalcTxHashForSig does not copy the transaction: it saves every          *)
(* tx.Vin[i].ScriptSig, overwrites them in place (nil for the other        *)
(* inputs, the signed scriptPubKey for its own), hashes the transaction    *)
(* and writes the saved values back.  Each loop iteration is one step      *)
(* here, the hash another.  Go gives no atomicity for these writes; the    *)
(* model takes each assignment of a slice header as atomic, which keeps    *)
(* fewer outcomes than a torn write could produce.                         *)
(*                                                                         *)
(* Who calls Validate on the inputs of one transaction lies outside src/:  *)
(* the verifiers and their jobs are CONSTANTs.  A job names the input      *)
(* index, the scriptPubKey signed, whether the signature and key bytes     *)
(* decode, and the hash the signer signed.                                 *)
(***************************************************************************)
EXTENDS Integers, Sequences

CONSTANTS Verifiers,  \* goroutines verifying inputs of the same tx
          OrigSigs,   \* the ScriptSig of every input, a sequence of scripts
          Job,        \* Job[v]: [idx, spk, decodes, signedHash]
          TxHash(_)   \* tx.CalcTxHash over the inputs' ScriptSigs (the rest is fixed)

NIns == Len(OrigSigs)
Nil == <<>>          \* a nil ScriptSig

VARIABLES vin,       \* tx.Vin[i].ScriptSig, shared by all verifiers
          pc,        \* where each verifier is
          i,         \* the loop index of CalcTxHashForSig's two range loops
          old,       \* oldScriptSigs
          sigHash,   \* the hash CalcTxHashForSig returns
          result     \* what verifySig returned

vars == <<vin, pc, i, old, sigHash, result>>

NoHash == -1
Pending == "pending"

Init ==
    /\ vin = OrigSigs
    /\ pc = [v \in Verifiers |-> "start"]
    /\ i = [v \in Verifiers |-> 1]
    /\ old = [v \in Verifiers |-> <<>>]
    /\ sigHash = [v \in Verifiers |-> NoHash]
    /\ result = [v \in Verifiers |-> Pending]

\* verifySig returns ok (TRUE: "verified", FALSE: "rejected")
Return(v, ok) ==
    /\ pc' = [pc EXCEPT ![v] = "done"]
    /\ result' = [result EXCEPT ![v] = IF ok THEN "verified" ELSE "rejected"]

\* verifySig: SigFromBytes or PublicKeyFromBytes fails
DecodeFails(v) ==
    /\ pc[v] = "start"
    /\ ~Job[v].decodes
    /\ Return(v, FALSE)
    /\ UNCHANGED <<vin, i, old, sigHash>>

\* CalcTxHashForSig: txInIdx >= len(tx.Vin) is an error, verifySig returns false
IndexOutOfBound(v) ==
    /\ pc[v] = "start"
    /\ Job[v].decodes
    /\ Job[v].idx >= NIns
    /\ Return(v, FALSE)
    /\ UNCHANGED <<vin, i, old, sigHash>>

Start(v) ==
    /\ pc[v] = "start"
    /\ Job[v].decodes
    /\ Job[v].idx < NIns
    /\ pc' = [pc EXCEPT ![v] = "save"]
    /\ UNCHANGED <<vin, i, old, sigHash, result>>

\* one iteration of the first loop: save ScriptSig i, then blank it or put spk
Save(v) ==
    /\ pc[v] = "save"
    /\ old' = [old EXCEPT ![v] = Append(@, vin[i[v]])]
    /\ vin' = [vin EXCEPT ![i[v]] = IF i[v] - 1 # Job[v].idx THEN Nil ELSE Job[v].spk]
    /\ IF i[v] = NIns
         THEN pc' = [pc EXCEPT ![v] = "hash"] /\ i' = [i EXCEPT ![v] = 1]
         ELSE i' = [i EXCEPT ![v] = @ + 1] /\ UNCHANGED pc
    /\ UNCHANGED <<sigHash, result>>

\* sigHash, err := tx.CalcTxHash() over the inputs as they are now
Hash(v) ==
    /\ pc[v] = "hash"
    /\ sigHash' = [sigHash EXCEPT ![v] = TxHash(vin)]
    /\ pc' = [pc EXCEPT ![v] = "restore"]
    /\ UNCHANGED <<vin, i, old, result>>

\* one iteration of the second loop: txIn.ScriptSig = oldScriptSigs[i];
\* after the last one, verifySig checks the signature against sigHash
Restore(v) ==
    /\ pc[v] = "restore"
    /\ vin' = [vin EXCEPT ![i[v]] = old[v][i[v]]]
    /\ IF i[v] = NIns
         THEN Return(v, sigHash[v] = Job[v].signedHash) /\ UNCHANGED i
         ELSE i' = [i EXCEPT ![v] = @ + 1] /\ UNCHANGED <<pc, result>>
    /\ UNCHANGED <<old, sigHash>>

Next ==
    \E v \in Verifiers :
        \/ DecodeFails(v) \/ IndexOutOfBound(v) \/ Start(v)
        \/ Save(v) \/ Hash(v) \/ Restore(v)

Spec == Init /\ [][Next]_vars /\ WF_vars(Next)

TypeOK ==
    /\ pc \in [Verifiers -> {"start", "save", "hash", "restore", "done"}]
    /\ i \in [Verifiers -> 1..NIns]
    /\ DOMAIN vin = 1..NIns
    /\ result \in [Verifiers -> {"verified", "rejected", Pending}]

\* the draft the spec's signature-hash rule hashes for input idx
Draft(idx, spk) == [k \in 1..NIns |-> IF k - 1 = idx THEN spk ELSE Nil]

AllDone == \A v \in Verifiers : pc[v] = "done"

(***************************************************************************)
(* Verification has no effect on the transaction: once every verifier has  *)
(* returned, every input carries the ScriptSig it had before.  The spec    *)
(* requires this under concurrent evaluation of the same transaction;      *)
(* CalcTxHashForSig's in-place save/overwrite/restore is what it is about.  *)
(***************************************************************************)
VerifyLeavesTxUnchanged == AllDone => vin = OrigSigs

(***************************************************************************)
(* Every verifier hashes its own draft: a hash computed by CalcTxHashForSig *)
(* is the hash of the transaction with only its input's ScriptSig replaced *)
(* by the signed scriptPubKey and all others nil.                          *)
(***************************************************************************)
SigHashOfOwnDraft ==
    \A v \in Verifiers :
        sigHash[v] # NoHash => sigHash[v] = TxHash(Draft(Job[v].idx, Job[v].spk))
=============================================================================
