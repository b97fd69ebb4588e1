------------------------------ MODULE UncleManager ------------------------------
(***************************************************************************)
(* The uncles a node offers for the next block of its own: UncleManager    *)
(* sorts out at the end of each reorganization which of the headers that   *)
(* Consensus has met recently may be uncles on the new main chain, and     *)
(* hands those near the tip to the miner with the candidate.               *)
(*                                                                         *)
(* All of it happens inside steps of module Consensus, under its lock;     *)
(* candidateLock is never contended.                                       *)
(***************************************************************************)
EXTENDS ConsensusProperties, FiniteSetsExt

CONSTANT MaxNumberOfUncles     \* 10

ASSUME UncleAssumption == MaxNumberOfUncles \in Nat

-----------------------------------------------------------------------------

RewardedAgain(h) ==                    \* mutant: the uncle flag is not looked at
    /\ status[h] \in {Header, InvalidBlock, Block}
    /\ dbblock[h] # None
    /\ h # Genesis
    /\ status[Prev[h]] = MainChain

MayBeUncle(h) ==
    /\ status[h] \in {Header, InvalidBlock, Block}
    /\ dbblock[h] # None /\ ~dbblock[h].uncle
    /\ h # Genesis
    /\ status[Prev[h]] = MainChain

\* uncleCandidates, which updateUncleCandidates replaces in the last step before the
\* batch is committed and getUncleCandidates reads in the next one, at no other time:
\* the main chain and the flags are those of the batch.
UncleCandidates(tip) ==
    {h \in recentHeaders : Near(Height[h], Height[tip], RecentHeaderTrackingRange) /\ MayBeUncle(h)}

\* From the lowest height upwards, up to the limit; at one height in any order.
GetUncleCandidates(tip) ==
    LET near == {h \in UncleCandidates(tip) \ {tip} :
                    Height[h] \in Height[tip] + 1 - MaxUncleHeightDelta .. Height[tip]}
    IN  {S \in kSubset(Min({MaxNumberOfUncles, Cardinality(near)}), near) :
            \A h \in S, k \in near \ S : Height[h] <= Height[k]}

-----------------------------------------------------------------------------

\* Validity of h as an uncle of a next block on tip, by the chain alone.  A child of
\* the tip, which the node knows as a header only, would be valid too: it is left out.
FitsAsUncle(h, tip) ==
    /\ h \in HeaderValid
    /\ h \notin Chain[tip]
    /\ Prev[h] \in Chain[tip]
    /\ \A a \in Chain[tip] : h \notin Uncles[a]
    /\ Height[h] \in Height[tip] + 1 - MaxUncleHeightDelta .. Height[tip]

\* The uncles announced with a new tip are valid in a block on that tip, whatever was
\* popped, pushed, rewarded or condemned before, and as many as there are: no reward
\* for a header the process has seen is passed over.
CandidateUnclesFit ==
    stage = "tip" =>
        LET fit == {h \in recentHeaders : FitsAsUncle(h, job.hash)}
        IN  \A S \in GetUncleCandidates(job.hash) :
               S \subseteq fit /\ Cardinality(S) = Min({MaxNumberOfUncles, Cardinality(fit)})

=============================================================================
