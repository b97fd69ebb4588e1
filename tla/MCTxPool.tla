------------------------------- MODULE MCTxPool -------------------------------
(***************************************************************************)
(* Three accounts in a pool for two; a double spend (a1, a1d), a second    *)
(* transaction of the same account (a2), one without a fee (z) and one     *)
(* signed for the new rules only (n1).  The tip moves up from y1 to x1 to  *)
(* y2 to x2, or over some of them: transactions are mined, popped and      *)
(* mined again, the new rules begin at height 1 or are jumped to at 2, and *)
(* y1 takes a fee out of the sum of A that its queue may not hold.         *)
(***************************************************************************)
EXTENDS TxPool

CONSTANTS a1, a1d, a2, b1, z, n1, A, B, N, g, x1, x2, y1, y2, c1, c2

TxTable == (a1 :> <<A, 1, 1>>) @@ (a1d :> <<A, 1, 2>>) @@ (a2 :> <<A, 2, 2>>)
           @@ (b1 :> <<B, 1, 3>>) @@ (n1 :> <<N, 1, 1>>) @@ (z :> <<B, 1, 0>>)
MCFrom == [t \in Txs |-> TxTable[t][1]]
MCNonce == [t \in Txs |-> TxTable[t][2]]
MCFee == [t \in Txs |-> TxTable[t][3]]
MCChain == (g :> <<g>>) @@ (x1 :> <<g, x1>>) @@ (x2 :> <<g, x1, x2>>) @@ (y1 :> <<g, y1>>) @@ (y2 :> <<g, y1, y2>>)
MCWork == (g :> 0) @@ (y1 :> 1) @@ (x1 :> 2) @@ (y2 :> 3) @@ (x2 :> 4)
MCBlockTxs == (g :> <<>>) @@ (x1 :> <<b1>>) @@ (x2 :> <<a1>>) @@ (y1 :> <<a1d>>) @@ (y2 :> <<a2>>)
MCOffers == {<<a1, a2>>, <<a1d>>, <<b1>>, <<z, n1>>}
MCSymmetry == Permutations(Calls)
=============================================================================
