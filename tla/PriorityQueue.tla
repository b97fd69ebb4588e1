---------------------------- MODULE PriorityQueue ----------------------------
(***************************************************************************)
(* The bounded queue of hycon-common: a list kept in the order of a        *)
(* comparator; the list is whatever it is, sorted or not.                  *)
(***************************************************************************)
EXTENDS Integers, Sequences, FiniteSets, Functions

\* Where insert puts a new item: before the first of those it goes in front of,
\* the ones with comparator <= 0.
Place(q, behind) ==
    IF Range(q) \cap behind # {}
    THEN CHOOSE i \in 1 .. Len(q) : q[i] \in behind /\ \A j \in 1 .. i - 1 : q[j] \notin behind
    ELSE Len(q) + 1

\* A full queue takes nothing at its end, and loses its last item otherwise.
Takes(q, i, max) == i <= Len(q) \/ Len(q) < max

InsertedBehind(q, i, v, max) ==          \* mutant: behind the item instead of before it
    IF Takes(q, i, max)
    THEN LET k == IF i < Len(q) THEN i + 1 ELSE i
         IN  SubSeq(q, 1, k - 1) \o <<v>> \o SubSeq(q, k, IF Len(q) < max THEN Len(q) ELSE max - 1)
    ELSE q

Inserted(q, i, v, max) ==
    IF Takes(q, i, max)
    THEN SubSeq(q, 1, i - 1) \o <<v>> \o SubSeq(q, i, IF Len(q) < max THEN Len(q) ELSE max - 1)
    ELSE q

\* Array.sort, the highest key first: some sorted order, items of equal keys in any.
Sortings(q, key) ==
    { s \in [1 .. Len(q) -> Range(q)] :
        /\ Range(s) = Range(q)
        /\ \A i \in 1 .. Len(s) - 1 : key[s[i]] >= key[s[i + 1]] }

=============================================================================
