------------------------- MODULE PendingBlocksProofs -------------------------
(***************************************************************************)
(* A block that came too early is found again when its predecessor is      *)
(* stored, for every tree of blocks, any verdicts and any order of         *)
(* deliveries and retries, while fewer blocks than the limit are pended.   *)
(***************************************************************************)
EXTENDS PendingBlocks, SequenceTheorems, TLAPS

USE DEF Rejected, Nothing, Header, InvalidBlock, Block

\* As long as the predecessor of a pended block is not stored, the block can be woken.
\* Nothing is asked of the block itself, which may have been stored or condemned since.
WakeInv ==
    /\ status \in [Nodes -> Rejected .. Block]
    /\ pendingBlocks \in Seq(Hashes)
    /\ waiting \in [Nodes -> Seq(Hashes)]
    /\ \A h \in Pended : status[Prev[h]] < Block => h \in Range(waiting[Prev[h]])

LEMMA RangeOfAppend ==
    ASSUME NEW S, NEW s \in Seq(S), NEW x \in S
    PROVE  Append(s, x) \in Seq(S) /\ Range(Append(s, x)) = Range(s) \cup {x}
<1>1. Append(s, x) \in Seq(S) /\ Len(Append(s, x)) = Len(s) + 1 /\ Len(s) \in Nat
  OBVIOUS
<1>2. \A i \in 1 .. Len(s) : Append(s, x)[i] = s[i]
  OBVIOUS
<1>3. Append(s, x)[Len(s) + 1] = x
  OBVIOUS
<1>4. DOMAIN s = 1 .. Len(s) /\ DOMAIN Append(s, x) = 1 .. Len(s) + 1
  OBVIOUS
<1> QED
  BY <1>1, <1>2, <1>3, <1>4 DEF Range

\* A verdict is a status, and what is stored stays stored.
LEMMA AfterPutProperties ==
    ASSUME WakeInv, NEW h \in Hashes, NEW withBody \in BOOLEAN
    PROVE  /\ AfterPut(h, withBody) \in Rejected .. Block
           /\ status[h] >= Block => AfterPut(h, withBody) >= Block
BY DEF WakeInv, Nodes, AfterPut, AfterBody

LEMMA PutBlockWakes ==
    ASSUME WakeInv, ~Full, NEW h \in Hashes, NEW others, PutBlock(h, others)
    PROVE  WakeInv'
<1> DEFINE new == AfterPut(h, TRUE)
           kept == IF Pends(h, new) THEN Appended(h) ELSE waiting
           list == IF Pends(h, new) THEN Append(pendingBlocks, h) ELSE pendingBlocks
<1>1. /\ status' = [status EXCEPT ![h] = new] /\ pendingBlocks' = list
      /\ (waiting' = kept \/ (Wakes(h, new) /\ waiting' = [kept EXCEPT ![h] = <<>>]))
  <2>1. PendingWith(h) = Append(pendingBlocks, h) /\ WaitingWith(h) = Appended(h)
    BY DEF PendingWith, WaitingWith
  <2>2. status' = [status EXCEPT ![h] = new]
    BY DEF PutBlock
  <2>3. pendingBlocks' = list
    BY <2>1 DEF PutBlock
  <2>4. (waiting' = kept \/ (Wakes(h, new) /\ waiting' = [kept EXCEPT ![h] = <<>>]))
    <3>1. kept = IF Pends(h, new) THEN WaitingWith(h) ELSE waiting
      BY <2>1
    <3> HIDE DEF kept
    <3>2. \/ Wakes(h, new) /\ waiting' = [kept EXCEPT ![h] = <<>>]
          \/ ~Wakes(h, new) /\ waiting' = kept
      BY <3>1 DEF PutBlock
    <3> QED
      BY <3>2
  <2> QED
    BY <2>2, <2>3, <2>4
<1>2. /\ new \in Rejected .. Block /\ (status[h] >= Block => new >= Block)
      /\ h \in Nodes /\ Prev[h] \in Nodes
      /\ \A x \in Hashes : Prev[x] \in Nodes
  BY AfterPutProperties, TreeAssumption DEF TreeAssumption, Nodes
<1> HIDE DEF new, kept, list
<1>3. status' \in [Nodes -> Rejected .. Block]
  <2>1. status \in [Nodes -> Rejected .. Block]
    BY DEF WakeInv
  <2> QED
    BY <1>1, <1>2, <2>1
<1>4. ASSUME NEW x \in Nodes, status'[x] < Block
      PROVE  status[x] < Block
  <2>1. status \in [Nodes -> Rejected .. Block]
    BY DEF WakeInv
  <2>2. CASE x = h
    <3>1. status'[h] = new
      BY <1>1, <1>2, <2>1
    <3>2. status[h] \in Rejected .. Block
      BY <1>2, <2>1
    <3> QED
      BY <1>2, <1>4, <2>2, <3>1, <3>2
  <2>3. CASE x # h
    BY <1>1, <1>4, <2>1, <2>3
  <2> QED
    BY <2>2, <2>3
<1>5. /\ list \in Seq(Hashes)
      /\ Range(list) \subseteq Pended \cup IF Pends(h, new) THEN {h} ELSE {}
  BY RangeOfAppend DEF WakeInv, Pended, list
<1>6. /\ kept \in [Nodes -> Seq(Hashes)]
      /\ \A x \in Nodes : Range(waiting[x]) \subseteq Range(kept[x])
      /\ Pends(h, new) => h \in Range(kept[Prev[h]])
  <2>1. /\ Append(waiting[Prev[h]], h) \in Seq(Hashes)
        /\ Range(Append(waiting[Prev[h]], h)) = Range(waiting[Prev[h]]) \cup {h}
    BY <1>2, RangeOfAppend DEF WakeInv
  <2> QED
    BY <1>2, <2>1 DEF WakeInv, Appended, kept
<1>7. waiting' \in [Nodes -> Seq(Hashes)]
  <2>1. <<>> \in Seq(Hashes)
    OBVIOUS
  <2> QED
    BY <1>1, <1>6, <2>1
<1>8. ASSUME NEW x \in Pended', status'[Prev[x]] < Block
      PROVE  x \in Range(waiting'[Prev[x]])
  <2>1. x \in Hashes /\ Prev[x] \in Nodes
    BY <1>1, <1>2, <1>5, RangeOfSeq DEF Pended
  <2>2. x \in Range(kept[Prev[x]])
    <3>1. CASE x \in Pended
      BY <1>4, <1>6, <2>1, <1>8, <3>1 DEF WakeInv
    <3>2. CASE x \notin Pended
      <4>1. x = h /\ Pends(h, new)
        BY <1>1, <1>5, <3>2 DEF Pended
      <4> QED
        BY <1>6, <4>1
    <3> QED
      BY <3>1, <3>2
  <2>3. waiting'[Prev[x]] = kept[Prev[x]]
    <3>1. CASE waiting' = kept
      BY <3>1
    <3>2. CASE Wakes(h, new) /\ waiting' = [kept EXCEPT ![h] = <<>>]
      <4>1. Prev[x] # h
        BY <1>1, <1>2, <1>8, <3>2 DEF Wakes, WakeInv
      <4> QED
        BY <1>6, <2>1, <3>2, <4>1
    <3> QED
      BY <1>1, <3>1, <3>2
  <2> QED
    BY <2>2, <2>3
<1> QED
  BY <1>1, <1>3, <1>5, <1>7, <1>8 DEF WakeInv

LEMMA DeliverHeaderWakes ==
    ASSUME WakeInv, NEW h \in Hashes, DeliverHeader(h)
    PROVE  WakeInv'
<1> DEFINE new == AfterPut(h, h \in NoTxs)
<1>1. /\ status' = [status EXCEPT ![h] = new]
      /\ UNCHANGED <<pendingBlocks, waiting>>
  BY DEF DeliverHeader
<1>2. (h \in NoTxs) \in BOOLEAN
  OBVIOUS
<1>3. new \in Rejected .. Block /\ (status[h] >= Block => new >= Block) /\ h \in Nodes
  BY <1>2, AfterPutProperties DEF Nodes
<1> HIDE DEF new
<1>4. \A x \in Pended : Prev[x] \in Nodes
  BY RangeOfSeq, TreeAssumption DEF WakeInv, Pended, TreeAssumption, Nodes
<1>5. status \in [Nodes -> Rejected .. Block]
  BY DEF WakeInv
<1>6. status' \in [Nodes -> Rejected .. Block]
  BY <1>1, <1>3, <1>5
<1>7. \A x \in Nodes : status'[x] < Block => status[x] < Block
  BY <1>1, <1>3, <1>5
<1>8. ASSUME NEW x \in Pended', status'[Prev[x]] < Block
      PROVE  x \in Range(waiting'[Prev[x]])
  <2>1. x \in Pended
    BY <1>1 DEF Pended
  <2> QED
    BY <1>1, <1>4, <1>7, <1>8, <2>1 DEF WakeInv
<1> QED
  BY <1>1, <1>6, <1>8 DEF WakeInv

LEMMA InitWakes == Init => WakeInv
<1> SUFFICES ASSUME Init PROVE WakeInv
  OBVIOUS
<1>1. <<>> \in Seq(Hashes) /\ Pended = {}
  BY DEF Init, Pended, Range
<1> QED
  BY <1>1 DEF Init, WakeInv, Nodes

LEMMA NextWakes == WakeInv /\ ~Full /\ [Next]_vars => WakeInv'
<1> SUFFICES ASSUME WakeInv, ~Full, [Next]_vars PROVE WakeInv'
  OBVIOUS
<1>1. ASSUME NEW h \in Hashes, DeliverBlock(h)
      PROVE  WakeInv'
  BY <1>1, PutBlockWakes DEF DeliverBlock
<1>2. ASSUME NEW h \in Hashes, Retry(h)
      PROVE  WakeInv'
  BY <1>2, PutBlockWakes DEF Retry
<1>3. CASE UNCHANGED vars
  BY <1>3 DEF vars, WakeInv, Pended
<1> QED
  BY <1>1, <1>2, <1>3, DeliverHeaderWakes DEF Next

\* A pended block waits under its predecessor until that is stored, whatever comes in
\* between, as long as the list of pended blocks stays below its limit.  At the limit the
\* code drops the entry of the new block instead of the oldest one.
THEOREM KeptBelowTheLimit == Spec /\ []~Full => []PendingBlocksAreKept
<1>1. WakeInv => PendingBlocksAreKept
  BY DEF WakeInv, PendingBlocksAreKept
<1> QED
  BY <1>1, InitWakes, NextWakes, PTL DEF Spec

=============================================================================
