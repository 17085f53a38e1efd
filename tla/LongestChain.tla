---------------------------- MODULE LongestChain ----------------------------
(***************************************************************************)
(* What the chain engine promises about its main chain, with ProcessBlock *)
(* as one atomic step: the main chain starts empty above the genesis and  *)
(* is only ever replaced by the chain ending in a block whose height is   *)
(* greater, an extension of one block or a switch to a longer side chain. *)
(***************************************************************************)
EXTENDS Integers, Sequences

CONSTANTS Genesis, Blocks, Parent

VARIABLE chain   \* the main chain above the genesis, lowest block first

RECURSIVE Path(_)
Path(b) == IF b = Genesis THEN <<>> ELSE Append(Path(Parent[b]), b)

Init == chain = <<>>

(* The main chain becomes the chain ending in a higher block.             *)
Switch(b) ==
    /\ Len(Path(b)) > Len(chain)
    /\ chain' = Path(b)

Next == \E b \in Blocks : Switch(b)

Spec == Init /\ [][Next]_chain
=============================================================================
