------------------------------ MODULE MCConsensus ------------------------------
(***************************************************************************)
(* A block universe small enough for TLC.                                  *)
(*                                                                         *)
(*   g -- a1 -- a2 -- a3(b1)                                               *)
(*   |\     \-- x2(x1)                                                     *)
(*   | \-- b1 -- b2(a1) -- b3(a1)                                          *)
(*   |      \--- c2(a1)                                                    *)
(*   \---- x1(g)                                                           *)
(*                                                                         *)
(* a3 rewards b1 while b2 and c2 reward a1, so each branch flags the other *)
(* one's first block; b3 rewards a1 a second time, which only b3's own     *)
(* chain can tell; c2 is low but heavy, so it overtakes longer chains.     *)
(* x1 names the exodus block as its uncle, so it is never more than an      *)
(* InvalidBlock, which x2 may still reward unless x1's header is invalid.   *)
(* The configurations choose which blocks exist and which are invalid.     *)
(***************************************************************************)
EXTENDS ConsensusProperties, FiniteSetsExt, TLC

CONSTANTS g, a1, a2, a3, b1, b2, b3, c2, x1, x2

AllPrev == (a1 :> g) @@ (a2 :> a1) @@ (a3 :> a2)
             @@ (b1 :> g) @@ (b2 :> b1) @@ (b3 :> b2) @@ (c2 :> b1)
             @@ (x1 :> g) @@ (x2 :> a1)
AllUncles == (a3 :> {b1}) @@ (b2 :> {a1}) @@ (b3 :> {a1}) @@ (c2 :> {a1}) @@ (x1 :> {g}) @@ (x2 :> {x1})
AllWork == (b3 :> 2) @@ (c2 :> 3)

MCPrev == [h \in Hashes \ {g} |-> AllPrev[h]]
MCUncles == [h \in Hashes |-> IF h \in DOMAIN AllUncles THEN AllUncles[h] ELSE {}]
MCWork == [h \in Hashes |-> IF h \in DOMAIN AllWork THEN AllWork[h] ELSE 1]
MCUncleWork == [h \in Hashes |-> MapThenSumSet(LAMBDA u : MCWork[u], MCUncles[h])]

MCChain[h \in Hashes] == IF h = g THEN {g} ELSE MCChain[MCPrev[h]] \cup {h}
MCHeight == [h \in Hashes |-> Cardinality(MCChain[h]) - 1]
MCChainWork == [h \in Hashes |-> MapThenSumSet(LAMBDA a : MCWork[a], MCChain[h] \ {g})]

=============================================================================
