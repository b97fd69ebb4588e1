---------------------------- MODULE PendingBlocks ----------------------------
(***************************************************************************)
(* Consensus.putBlock around Consensus.put: a block that cannot be stored  *)
(* yet is kept in memory under the hash of its predecessor, and put again  *)
(* once the predecessor is stored.  Putting itself is module Consensus;    *)
(* here it is one step under the lock, seen by the status it leaves.  What *)
(* follows it in putBlock runs before any other holder of the lock.        *)
(***************************************************************************)
EXTENDS Integers, FiniteSets, Sequences, SequencesExt

CONSTANTS
    Hashes,        \* the headers that peers may send
    Genesis,
    Prev,          \* header.previousHash[0]
    Uncles,        \* header.previousHash.slice(1)
    NoTxs,         \* headers with the empty merkle root: no body is needed
    HeaderValid,   \* headers that pass processHeader
    BlockValid,    \* blocks whose body, difficulty and uncles check out
    MaxPending,    \* 50
    MaxDeliveries  \* bound: how often one block may be sent

ASSUME TreeAssumption ==
    /\ Prev \in [Hashes -> Hashes \cup {Genesis}]
    /\ Uncles \in [Hashes -> SUBSET Hashes]
ASSUME LimitAssumption == MaxPending \in Nat /\ MaxDeliveries \in Nat

VARIABLES
    status,        \* BlockStatus of every hash
    pendingBlocks, \* oldest first; pendingBlocksHashes is its set of hashes
    waiting,       \* pendingBlocksPreviousMap, <<>> where there is no entry
    retries,       \* setImmediate(() => putBlock(pending.block)) to run
    deliveries     \* how often a block was sent

vars == <<status, pendingBlocks, waiting, retries, deliveries>>

Rejected == 0
Nothing == 1
Header == 2
InvalidBlock == 3
Block == 4

Nodes == Hashes \cup {Genesis}

\* The limit on the pending blocks holds, and no block is pended twice.
TypeOK ==
    /\ status \in [Nodes -> Rejected .. Block]
    /\ pendingBlocks \in Seq(Hashes)
    /\ Len(pendingBlocks) <= MaxPending
    /\ IsInjective(pendingBlocks)
    /\ waiting \in [Nodes -> Seq(Hashes)]
    /\ retries \subseteq Hashes
    /\ deliveries \in [Hashes -> 0 .. MaxDeliveries]

Init ==
    /\ status = [h \in Nodes |-> IF h = Genesis THEN Block ELSE Nothing]
    /\ pendingBlocks = <<>>
    /\ waiting = [h \in Nodes |-> <<>>]
    /\ retries = {}
    /\ deliveries = [h \in Hashes |-> 0]

-----------------------------------------------------------------------------
(* The status that put leaves, withBody telling a block from its header.   *)

UncleMissing(h) == \E u \in Uncles[h] : status[u] = Nothing
UncleRejected(h) == \E u \in Uncles[h] : status[u] = Rejected

AfterBody(h) ==
    IF UncleMissing(h) /\ ~UncleRejected(h) THEN Header
    ELSE IF UncleRejected(h) \/ h \notin BlockValid THEN InvalidBlock
    ELSE Block

AfterPut(h, withBody) ==
    IF status[h] \notin {Nothing, Header} \/ status[Prev[h]] <= Nothing THEN status[h]
    ELSE IF h \notin HeaderValid THEN Rejected
    ELSE IF withBody /\ status[Prev[h]] >= Block THEN AfterBody(h)
    ELSE Header

-----------------------------------------------------------------------------

Pended == Range(pendingBlocks)

\* A block of a sane header that is not stored is pended, unless it is already.
Pends(h, new) == Nothing <= new /\ new < Block /\ h \notin Pended

AppendedOnly(h) == [waiting EXCEPT ![Prev[h]] = <<h>>] \* mutant: siblings are lost

Appended(h) == [waiting EXCEPT ![Prev[h]] = Append(@, h)]

\* Over the limit the oldest pending block goes.  What is dropped from the map
\* is the entry of the predecessor of the NEW block, h: it becomes the list of
\* the old block's siblings without h, or vanishes when the old block has none.
Evicted(h, map) ==
    LET siblings == map[Prev[Head(pendingBlocks)]]
    IN  [map EXCEPT ![Prev[h]] = IF Len(siblings) > 1
                                 THEN SelectSeq(siblings, LAMBDA s : s # h)
                                 ELSE <<>>]

Full == Len(pendingBlocks) = MaxPending

PendingWith(h) == Append(IF Full THEN Tail(pendingBlocks) ELSE pendingBlocks, h)
WaitingWith(h) == IF Full THEN Evicted(h, Appended(h)) ELSE Appended(h)

\* Mutant of Wakes: a block whose header is stored wakes the blocks after it.
WakesEarly(h, new) == new >= Header

\* A block that is stored, now or already, wakes the blocks that wait for it.
Wakes(h, new) == new >= Block

\* putBlock(h), with the other retries that are left.
PutBlock(h, others) ==
    LET new == AfterPut(h, TRUE)
        kept == IF Pends(h, new) THEN WaitingWith(h) ELSE waiting
    IN  /\ status' = [status EXCEPT ![h] = new]
        /\ pendingBlocks' = IF Pends(h, new) THEN PendingWith(h) ELSE pendingBlocks
        /\ \/ /\ Wakes(h, new)
              /\ waiting' = [kept EXCEPT ![h] = <<>>]
              /\ retries' = others \cup Range(kept[h])
           \/ /\ ~Wakes(h, new)
              /\ waiting' = kept
              /\ retries' = others

\* A block comes from a peer, a sync or a miner.
DeliverBlock(h) ==
    /\ deliveries[h] < MaxDeliveries
    /\ deliveries' = [deliveries EXCEPT ![h] = @ + 1]
    /\ PutBlock(h, retries)

\* A header comes; with the empty merkle root, put makes it a block.  Nothing
\* of putBlock follows.
DeliverHeader(h) ==
    /\ status' = [status EXCEPT ![h] = AfterPut(h, h \in NoTxs)]
    /\ UNCHANGED <<pendingBlocks, waiting, retries, deliveries>>

Retry(h) ==
    /\ h \in retries
    /\ PutBlock(h, retries \ {h})
    /\ UNCHANGED deliveries

Next == \E h \in Hashes : DeliverBlock(h) \/ DeliverHeader(h) \/ Retry(h)

Spec == Init /\ [][Next]_vars

\* Immediates run; nobody has to send anything.
FairSpec == Spec /\ \A h \in Hashes : WF_vars(Retry(h))

-----------------------------------------------------------------------------

\* A pended block is kept until its predecessor is stored or it goes itself: the
\* one that goes over the limit is the oldest, "Removing old pending Block".
PendingBlocksAreKept ==
    \A h \in Pended :
       status[h] < Block /\ status[Prev[h]] < Block => h \in Range(waiting[Prev[h]])

\* A valid block without uncles that was sent once needs not be sent again: it
\* is stored when its predecessor is, in whatever order the two came.
WaitsAreOver ==
    \A h \in HeaderValid \cap BlockValid :
       Uncles[h] = {} =>
          (deliveries[h] > 0 /\ status[Prev[h]] >= Block) ~> (status[h] >= Block)

=============================================================================
