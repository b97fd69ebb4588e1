------------------------------ MODULE MCPeerSync ------------------------------
(***************************************************************************)
(* A main chain m1 .. m4, a fork f2 .. f4 behind m1 that is heavier height *)
(* by height (f3 names m2 as its uncle), and one of m1, i2 .. i4 that is   *)
(* heavier still and whose i2 the node rejects.                            *)
(***************************************************************************)
EXTENDS PeerSync, TLC

CONSTANTS g, m1, m2, m3, m4, f2, f3, f4, i2, i3, i4, p1, p2

MCParent == (m1 :> g) @@ (m2 :> m1) @@ (m3 :> m2) @@ (m4 :> m3)
            @@ (f2 :> m1) @@ (f3 :> f2) @@ (f4 :> f3) @@ (i2 :> m1) @@ (i3 :> i2) @@ (i4 :> i3)
MCHeight == (g :> 0) @@ (m1 :> 1) @@ (m2 :> 2) @@ (m3 :> 3) @@ (m4 :> 4)
            @@ (f2 :> 2) @@ (f3 :> 3) @@ (f4 :> 4) @@ (i2 :> 2) @@ (i3 :> 3) @@ (i4 :> 4)
MCWork == (g :> 0) @@ (m1 :> 10) @@ (m2 :> 20) @@ (m3 :> 30) @@ (m4 :> 40)
          @@ (f2 :> 21) @@ (f3 :> 32) @@ (f4 :> 43) @@ (i2 :> 22) @@ (i3 :> 34) @@ (i4 :> 46)
MCAncestors ==
    LET up[x \in Headers] == IF x = g THEN {x} ELSE {x} \cup up[MCParent[x]]
    IN  up
MCUncles == [x \in Headers |-> IF x = f3 THEN <<m2>> ELSE <<>>]

ASSUME MCUnclesAssumption == UnclesAreLower
=============================================================================
