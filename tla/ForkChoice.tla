------------------------------ MODULE ForkChoice ------------------------------
(***************************************************************************)
(* What the block store promises to everyone who reads it: there is one    *)
(* main chain, it is always the complete chain of one valid block, and it  *)
(* is only ever replaced, in one step, by the chain of a heavier one.      *)
(***************************************************************************)
EXTENDS BlockTree

VARIABLES main,      \* the hashes a reader finds with status MainChain
          tip        \* the set of the block tip: empty before the first start

vars == <<main, tip>>

\* The exodus block enters the main chain before its tip key is written.
Init == main = {} /\ tip = {}

Found ==
    /\ main = {}
    /\ main' = {Genesis}
    /\ UNCHANGED tip

Open ==
    /\ main = {Genesis}
    /\ tip = {}
    /\ tip' = {Genesis}
    /\ UNCHANGED main

Adopt(h) ==
    /\ ChainValid(h)
    /\ \E t \in tip : ChainWork[h] > ChainWork[t]
    /\ main' = Chain[h]
    /\ tip' = {h}

Next == Found \/ Open \/ \E h \in Hashes : Adopt(h)

Spec == Init /\ [][Next]_vars

=============================================================================
