--------------------- MODULE MCBlocksTransactionsLoader ---------------------
(* Two requests and a block with its child, which carry the same two         *)
(* transactions in opposite orders, so that the two requests' inserts can    *)
(* wait for each other.                                                      *)
EXTENDS BlocksTransactionsLoader, TLC

CONSTANTS r1, r2, b1, b2, t1, t2

\* b2 is b1's child; both carry t1 and t2, in opposite orders.
MCSeqOf == b1 :> 1 @@ b2 :> 2
MCParent == b1 :> None @@ b2 :> b1
MCTxsOf == b1 :> <<t1, t2>> @@ b2 :> <<t2, t1>>

On(b) == [block |-> b, main |-> TRUE]
Off(b) == [block |-> b, main |-> FALSE]

MCBatches == {<<On(b1), On(b2)>>, <<Off(b2)>>}
MCUploads == {<<t2>>}

\* The client of r1 sends a failed body again.
MCTries == r1 :> 2 @@ r2 :> 1

=============================================================================
