------------------------------ MODULE MCChain ------------------------------
(***************************************************************************)
(* Chain for TLC.  The block tree of the reorganization scenario: the main *)
(* chain G-A1-A2-A3 and the side chain A1-B2-B3-B4 forking after A1.       *)
(***************************************************************************)
EXTENDS Chain, TLC

CONSTANTS A1, A2, A3, B2, B3, B4

MCBlocks == {A1, A2, A3, B2, B3, B4}

MCParent == (A1 :> Genesis) @@ (A2 :> A1) @@ (A3 :> A2)
            @@ (B2 :> A1) @@ (B3 :> B2) @@ (B4 :> B3)

(* Transactions: a coinbase per block, and x mined on both branches, at   *)
(* A2 and at B3, in second position.                                       *)
MCTxs == (Genesis :> <<"cbG">>) @@ (A1 :> <<"cbA1">>) @@ (A2 :> <<"cbA2", "x">>)
         @@ (A3 :> <<"cbA3">>) @@ (B2 :> <<"cbB2">>) @@ (B3 :> <<"cbB3", "x">>)
         @@ (B4 :> <<"cbB4">>)

(* Every block passes every check.                                         *)
MCKindValid == [b \in MCBlocks |-> "valid"]

(* B2's coinbase pays too much; ApplyBlock still accepts it.               *)
MCKindBadB2 == [MCKindValid EXCEPT ![B2] = "badCoinbase"]

(* B3 spends a missing output.                                             *)
MCKindMissingB3 == [MCKindValid EXCEPT ![B3] = "missingInput"]

(* Both faults, for the run that must fire every action.                   *)
MCKindFaulty == [MCKindBadB2 EXCEPT ![B3] = "missingInput"]

Setup(c, k) == [capacity |-> c, kind |-> k]

(* A cache that never evicts (6 entries for 6 blocks) with these kinds.    *)
MCValid == {Setup(6, MCKindValid)}
MCBadB2 == {Setup(6, MCKindBadB2)}
MCMissingB3 == {Setup(6, MCKindMissingB3)}

(* A cache of two entries that evicts side blocks.                         *)
MCValidEvict == {Setup(2, MCKindValid)}

(* The chain run: well-formed blocks with room for every block, and both   *)
(* faults with caches of one and two entries.                              *)
MCSetups == MCValid \cup {Setup(1, MCKindFaulty), Setup(2, MCKindFaulty)}
=============================================================================
