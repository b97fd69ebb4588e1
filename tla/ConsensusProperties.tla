-------------------------- MODULE ConsensusProperties --------------------------
(***************************************************************************)
(* What must hold of the block store.  The first group survives a crash at *)
(* any write; the second needs a process that is not interrupted.          *)
(***************************************************************************)
EXTENDS Consensus

\* Only the exodus block's own writes leave a main chain without a tip.
Opened == diskTip # None

-----------------------------------------------------------------------------

\* The blocks with status MainChain are exactly the chain that ends in the tip
\* key, whatever was popped, pushed, aborted or interrupted on the way: the
\* batch of reorganize replaces the chain at once.
MainChainIsTipChain ==
    Opened => Main = Chain[diskTip]

\* A block is flagged as an uncle exactly while some main chain block rewards
\* it, and never while it is on the main chain itself: pops give the flag back,
\* pushes take it, and an abort leaves it as it was.
UncleFlagsFollowMainChain ==
    /\ UncleFlags = UnclesOf(Main)
    /\ UncleFlags \cap Main = {}

\* The height index agrees with the main chain up to the tip (above it, entries
\* of a longer but lighter chain may remain).
HeightIndexFollowsMainChain ==
    Opened => \A h \in Main : hashAt[Height[h]] = h

\* Every main chain block passes the rules of its own chain.
MainChainIsValid == \A h \in Main : ChainValid(h)

\* sync.ts: an InvalidBlock "may become an uncle, but never MainChain", though a
\* reorganization may walk through it again; Rejected is just as final.
VerdictsAreFinal ==
    [][\A h \in Hashes : status[h] \in {Rejected, InvalidBlock} => status'[h] = status[h]]_status

\* The store as its readers see it behaves like the abstract fork choice.
MainChainStore == INSTANCE ForkChoice
                    WITH main <- Main,
                         tip <- IF diskTip = None THEN {} ELSE {diskTip}

ImplementsForkChoice == MainChainStore!Spec

-----------------------------------------------------------------------------

\* Between two puts no accepted block is heavier than the tip, and no accepted
\* header heavier than the header tip.
TipsAreHeaviest ==
    stage = "idle" =>
        \A h \in Hashes :
            /\ status[h] >= Block => dbblock[h].work <= blockTip.work
            /\ status[h] >= Header => dbblock[h].work <= headerTip.work

\* sync.ts: an InvalidBlock's "uncles or block is invalid".  Uncles are judged
\* against whatever chain the node is on, yet the verdict depends on the block's
\* own chain only: no order of arrival condemns a valid block.
OnlyInvalidIsCondemned ==
    \A h \in Hashes : status[h] \in {Rejected, InvalidBlock} => ~ChainValid(h)

Heaviest(h) == ChainValid(h) /\ \A k \in Hashes : ChainValid(k) => ChainWork[k] <= ChainWork[h]

\* Whatever the order of arrival, with headers ahead of blocks, nephews ahead
\* of uncles, or bad bodies in between, the node settles on a heaviest valid chain.
SettlesOnHeaviestChain ==
    <>[](blockTip # None /\ diskTip = blockTip.hash /\ Heaviest(diskTip))

=============================================================================
