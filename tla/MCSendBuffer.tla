----------------------------- MODULE MCSendBuffer -----------------------------
(* p's are sent by the left end, q's by the right one; the large ones reach   *)
(* the high water mark, two of them together the limit.                       *)
EXTENDS SendBuffer

CONSTANTS left, right, p1, p2, p3, p4, q1, q2

MCFrom == [p \in Packets |-> IF p \in {q1, q2} THEN right ELSE left]
MCSize == [p \in Packets |-> IF p = p4 THEN 1 ELSE 2]
=============================================================================
