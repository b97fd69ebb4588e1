------------------------------ MODULE BlockTree ------------------------------
(***************************************************************************)
(* The blocks a node may ever be given, and what the chain itself says of  *)
(* each of them.  A hash identifies a header, so everything a header fixes *)
(* (its predecessor, its uncles, its height, its proof of work) is a       *)
(* constant function of the hash, and so is every verdict that depends on  *)
(* the header chain or on the bodies of the ancestors only.                *)
(*                                                                         *)
(* The data is abstract: difficulties, EMAs, nonces, signatures and state  *)
(* roots appear only through the verdicts the consensus code reaches from  *)
(* them (HeaderValid, DifficultyValid, TxsValid) and through Work.         *)
(***************************************************************************)
EXTENDS Naturals, FiniteSets

CONSTANTS
    Hashes,          \* the hashes of all headers of this universe
    Genesis,         \* the exodus block
    Prev,            \* header.previousHash[0]
    Uncles,          \* header.previousHash.slice(1), without duplicates
    Height,          \* the height a header gets, DBBlock.height
    Chain,           \* the hashes from Genesis to a hash, both included
    Work,            \* 1 / previousDBBlock.nextDifficulty, scaled to integers
    UncleWork,       \* the sum of 1 / difficulty over the uncles
    ChainWork,       \* the work of a chain, uncles not counted
    HeaderValid,     \* headers that pass processHeader
    DifficultyValid, \* difficulty equals the predecessor's nextBlockDifficulty
    TxsValid,        \* signatures, state root and transactions check out
    NoTxs,           \* headers with the empty merkle root: no body is needed
    LastGhostBlock,  \* the last height ruled by GhostConsensus
    MaxUncleHeightDelta

\* Everything but the exodus block has a predecessor.  A header that comes with
\* no previousHash at all is rejected before anything else is looked at: such a
\* header is a member of Hashes \ HeaderValid whose Prev is Genesis.
TreeAssumption ==
    /\ Genesis \in Hashes
    /\ Prev \in [Hashes \ {Genesis} -> Hashes]
    /\ Uncles \in [Hashes -> SUBSET Hashes]
    /\ Uncles[Genesis] = {}
    /\ \A h \in Hashes : h \notin Uncles[h]   \* a header cannot contain its own hash
    /\ Height \in [Hashes -> Nat]
    /\ Height[Genesis] = 0
    /\ \A h \in Hashes \ {Genesis} : Height[h] = Height[Prev[h]] + 1
    /\ Chain \in [Hashes -> SUBSET Hashes]
    /\ Chain[Genesis] = {Genesis}
    /\ \A h \in Hashes \ {Genesis} : Chain[h] = Chain[Prev[h]] \cup {h}

WorkAssumption ==
    /\ Work \in [Hashes -> Nat \ {0}]
    /\ UncleWork \in [Hashes -> Nat]
    /\ ChainWork \in [Hashes -> Nat]
    /\ ChainWork[Genesis] = 0
    /\ \A h \in Hashes \ {Genesis} : ChainWork[h] = ChainWork[Prev[h]] + Work[h]

VerdictAssumption ==
    /\ HeaderValid \subseteq Hashes
    /\ DifficultyValid \subseteq Hashes
    /\ TxsValid \subseteq Hashes
    /\ NoTxs \subseteq Hashes
    /\ LastGhostBlock \in Nat
    /\ MaxUncleHeightDelta \in Nat

ASSUME Tree == TreeAssumption
ASSUME Works == WorkAssumption
ASSUME Verdicts == VerdictAssumption

-----------------------------------------------------------------------------

\* The rule a height is processed under (Consensus.process).
IsGhost(h) == Height[h] <= LastGhostBlock

Ancestors(h) == Chain[h] \ {h}

\* An uncle too far below its nephew, or the exodus block (processUncles).
TooOldUncles(h) ==
    {u \in Uncles[h] : u = Genesis \/ Height[h] > Height[u] + MaxUncleHeightDelta}

-----------------------------------------------------------------------------
(***************************************************************************)
(* Validity as a property of the chain alone: what the stateful code       *)
(* (statuses, flags, deferred changes) is meant to decide.                 *)
(***************************************************************************)

\* Every uncle is a valid header that forked off this very chain, is no part of
\* it, and has not been rewarded by an ancestor.
UnclesChainValid(h) ==
    /\ TooOldUncles(h) = {}
    /\ \A u \in Uncles[h] :
          /\ u \in HeaderValid
          /\ u \notin Chain[h]
          /\ Prev[u] \in Ancestors(h)
          /\ \A a \in Ancestors(h) : u \notin Uncles[a]

BlockValid(h) ==
    /\ h \in HeaderValid
    /\ UnclesChainValid(h)
    /\ IsGhost(h) \/ h \in DifficultyValid
    /\ h \in TxsValid

ChainValid(h) == \A a \in Chain[h] \ {Genesis} : BlockValid(a)

=============================================================================
