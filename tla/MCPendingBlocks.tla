--------------------------- MODULE MCPendingBlocks ---------------------------
(* A chain of three blocks, an invalid and a rejected child of the first,    *)
(* and a nephew whose uncle hangs on the genesis block.                      *)
EXTENDS PendingBlocks

CONSTANTS g, p1, p2, p3, q1, n2, i2, r2

MCPrev == [h \in Hashes |->
             CASE h = p2 -> p1 [] h = p3 -> p2 [] h = n2 -> p1
               [] h = i2 -> p1 [] h = r2 -> p1 [] OTHER -> g]
MCUncles == [h \in Hashes |-> IF h = n2 THEN {q1} ELSE {}]
MCHeaderValid == Hashes \ {r2}
MCBlockValid == Hashes \ {i2}
=============================================================================
