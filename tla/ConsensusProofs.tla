--------------------------- MODULE ConsensusProofs ---------------------------
(***************************************************************************)
(* Proofs about the block store, for every block tree, every order of      *)
(* arrival and a crash at any write: the types, the main chain; that       *)
(* verdicts, uncle flags, the height index and the fork choice depend on a *)
(* block's own chain alone; and what is owed to the order of arrival: the  *)
(* tips, the blocks condemned and the uncles offered.                      *)
(***************************************************************************)
EXTENDS UncleManager, WellFoundedInduction, TLAPS

-----------------------------------------------------------------------------
(***************************************************************************)
(* What follows from the shape of the block tree: chains are linear,       *)
(* closed under predecessors, and ordered by height.  Everything is by     *)
(* induction along previousHash, stated for sets of hashes to be cited.    *)
(***************************************************************************)

\* A non-empty set of naturals has a least element.
LEMMA LeastNatural ==
    ASSUME NEW T \in SUBSET Nat, T # {}
    PROVE  \E x \in T : \A y \in T : x <= y
<1>1. IsWellFoundedOn(OpToRel(<, Nat), Nat)
  BY NatLessThanWellFounded
<1>2. PICK x \in T : \A y \in T : ~ (<<y, x>> \in OpToRel(<, Nat))
  BY <1>1, WFMin
<1>3. \A y \in T : ~ (y < x)
  BY <1>2 DEF OpToRel
<1> QED
  BY <1>3

\* A non-empty set of hashes has a lowest member.
LEMMA LowestHash ==
    ASSUME NEW S \in SUBSET Hashes, S # {}
    PROVE  \E x \in S : \A y \in S : Height[x] <= Height[y]
<1> DEFINE T == {Height[h] : h \in S}
<1>1. T \in SUBSET Nat /\ T # {}
  BY Tree DEF TreeAssumption
<1>2. PICK n \in T : \A m \in T : n <= m
  BY <1>1, LeastNatural
<1> QED
  BY <1>2

\* Induction along previousHash: a set of hashes that holds the exodus block
\* and every successor of its members holds every hash.
LEMMA TreeInduction ==
    ASSUME NEW S \in SUBSET Hashes,
           Genesis \in S,
           \A h \in Hashes \ {Genesis} : Prev[h] \in S => h \in S
    PROVE  S = Hashes
<1>1. SUFFICES ASSUME Hashes \ S # {} PROVE FALSE
  OBVIOUS
<1>2. PICK h \in Hashes \ S : \A k \in Hashes \ S : Height[h] <= Height[k]
  BY <1>1, LowestHash
<1>3. h # Genesis /\ Prev[h] \in Hashes \ S
  BY <1>2, Tree DEF TreeAssumption
<1>4. Height[h] = Height[Prev[h]] + 1 /\ Height[Prev[h]] \in Nat
  BY <1>3, Tree DEF TreeAssumption
<1> QED
  BY <1>2, <1>3, <1>4

LEMMA ChainType ==
    ASSUME NEW h \in Hashes
    PROVE  Chain[h] \subseteq Hashes /\ h \in Chain[h] /\ Height[h] \in Nat
BY Tree DEF TreeAssumption

\* Every chain starts at the exodus block.
LEMMA GenesisInChain == \A h \in Hashes : Genesis \in Chain[h]
<1> DEFINE S == {h \in Hashes : Genesis \in Chain[h]}
<1>1. Genesis \in S
  BY Tree DEF TreeAssumption
<1>2. \A h \in Hashes \ {Genesis} : Prev[h] \in S => h \in S
  BY Tree DEF TreeAssumption
<1>3. S = Hashes
  <2> HIDE DEF S
  <2> S \in SUBSET Hashes
    BY DEF S
  <2> QED
    BY <1>1, <1>2, TreeInduction
<1> QED
  BY <1>3

\* A block is the only one of its chain at its height, and the highest.
LEMMA ChainHeight == \A h \in Hashes : \A x \in Chain[h] : x = h \/ Height[x] < Height[h]
<1> DEFINE S == {h \in Hashes : \A x \in Chain[h] : x = h \/ Height[x] < Height[h]}
<1>1. Genesis \in S
  BY Tree DEF TreeAssumption
<1>2. ASSUME NEW h \in Hashes \ {Genesis}, Prev[h] \in S
      PROVE  h \in S
  <2>1. /\ Chain[h] = Chain[Prev[h]] \cup {h}
        /\ Height[h] = Height[Prev[h]] + 1
        /\ Height[Prev[h]] \in Nat
        /\ \A x \in Chain[Prev[h]] : Height[x] \in Nat
    BY ChainType, Tree DEF TreeAssumption
  <2> QED
    BY <1>2, <2>1
<1>3. S = Hashes
  <2> HIDE DEF S
  <2> S \in SUBSET Hashes
    BY DEF S
  <2> QED
    BY <1>1, <1>2, TreeInduction
<1> QED
  BY <1>3

\* The chain of a chain's member is part of the chain.
LEMMA ChainClosed == \A h \in Hashes : \A m \in Chain[h] : Chain[m] \subseteq Chain[h]
<1> DEFINE S == {h \in Hashes : \A m \in Chain[h] : Chain[m] \subseteq Chain[h]}
<1>1. Genesis \in S
  BY Tree DEF TreeAssumption
<1>2. \A h \in Hashes \ {Genesis} : Prev[h] \in S => h \in S
  BY Tree DEF TreeAssumption
<1>3. S = Hashes
  <2> HIDE DEF S
  <2> S \in SUBSET Hashes
    BY DEF S
  <2> QED
    BY <1>1, <1>2, TreeInduction
<1> QED
  BY <1>3

\* Chains are linear: of two members the lower one is on the higher one's chain.
LEMMA ChainLinear ==
    \A h \in Hashes : \A m, x \in Chain[h] : Height[x] <= Height[m] => x \in Chain[m]
<1> DEFINE S == {h \in Hashes :
                    \A m, x \in Chain[h] : Height[x] <= Height[m] => x \in Chain[m]}
<1>1. Genesis \in S
  BY Tree DEF TreeAssumption
<1>2. ASSUME NEW h \in Hashes \ {Genesis}, Prev[h] \in S
      PROVE  h \in S
  <2>1. Chain[h] = Chain[Prev[h]] \cup {h} /\ Prev[h] \in Hashes
    BY Tree DEF TreeAssumption
  <2>2. SUFFICES ASSUME NEW m \in Chain[h], NEW x \in Chain[h], Height[x] <= Height[m]
                 PROVE  x \in Chain[m]
    OBVIOUS
  <2>3. CASE m = h
    BY <2>3
  <2>4. CASE m # h /\ x = h
    <3>1. Height[m] < Height[h] /\ Height[m] \in Nat /\ Height[h] \in Nat
      BY <2>4, ChainHeight, ChainType
    <3> QED
      BY <2>2, <2>4, <3>1
  <2>5. CASE m # h /\ x # h
    BY <1>2, <2>1, <2>2, <2>5
  <2> QED
    BY <2>3, <2>4, <2>5
<1>3. S = Hashes
  <2> HIDE DEF S
  <2> S \in SUBSET Hashes
    BY DEF S
  <2> QED
    BY <1>1, <1>2, TreeInduction
<1> QED
  BY <1>3

\* The predecessor of a member is a member.
LEMMA ChainPrev ==
    \A h \in Hashes : \A x \in Chain[h] \ {Genesis} :
        /\ x \in Hashes /\ Prev[x] \in Chain[h]
        /\ Height[x] = Height[Prev[x]] + 1
<1>1. TAKE h \in Hashes
<1>2. TAKE x \in Chain[h] \ {Genesis}
<1>3. x \in Hashes \ {Genesis} /\ Prev[x] \in Hashes /\ Chain[x] \subseteq Chain[h]
  BY ChainType, ChainClosed, Tree DEF TreeAssumption
<1>4. Prev[x] \in Chain[x]
  BY <1>3, ChainType, Tree DEF TreeAssumption
<1> QED
  BY <1>3, <1>4, Tree DEF TreeAssumption

-----------------------------------------------------------------------------
(***************************************************************************)
(* Types and the main chain.                                               *)
(***************************************************************************)

ExodusStages == {"exodusStatus", "exodusHeight", "exodusHeaderTip", "exodusBlockTip"}
RunStages == {"idle", "status", "dbblock", "headerTip", "reorganize", "tip"}
DBBlockStages == {"dbblock", "headerTip", "reorganize", "tip"}
WrittenStages == {"headerTip", "reorganize", "tip"}

\* What keeps the database readable: a tip is only ever read back, a job only
\* ever written, where a DBBlock is known to be there.
Readability ==
    /\ stage \in ExodusStages \cup RunStages => blockTip \in Tips /\ headerTip \in Tips
    /\ stage \in ExodusStages => dbblock[Genesis] # None
    /\ stage = "exodusBlockTip" => diskHeaderTip # None
    /\ stage \in RunStages => diskTip # None
    /\ stage \in DBBlockStages => job.db # None
    /\ stage \in WrittenStages => dbblock[job.hash] # None
    /\ diskHeaderTip # None => dbblock[diskHeaderTip] # None
    /\ diskTip # None => diskHeaderTip # None /\ dbblock[diskTip] # None

TypeInv == TypeOK /\ Readability

USE DEF Rejected, Nothing, Header, InvalidBlock, Block, MainChain, Statuses

LEMMA HeightsType == 0 \in Heights /\ \A h \in Hashes : Height[h] \in Heights
BY Tree DEF TreeAssumption, Heights

LEMMA InitType == Init => TypeInv
BY Tree, NoneIsNoValue
DEF TreeAssumption, Init, TypeInv, TypeOK, Readability, NoJob, Jobs, Stages,
    ExodusStages, RunStages, DBBlockStages, WrittenStages

\* A process step only chooses the job: its DBBlock is a DBBlock or missing.
LEMMA ProcessType ==
    ASSUME TypeInv, NEW h \in Hashes, NEW body \in Bodies, Process(h, body)
    PROVE  /\ stage = "idle" /\ stage' = "status"
           /\ UNCHANGED <<disk, tips>>
           /\ recentHeaders' \subseteq Hashes
           /\ job' \in Jobs
           /\ job'.hash = h
<1> USE DEF TypeInv, TypeOK
<1>1. h # Genesis /\ Prev[h] \in Hashes /\ dbblock[Prev[h]] \in DBBlocks
  BY Tree DEF TreeAssumption, Process, RejectHeader, AcceptHeader, AwaitUncles,
     RejectUncles, RejectDifficulty, IgnoreBody, RejectTxs, AcceptBlock,
     UnclesProcessed, CanProcessBlock, CanProcess
<1>2. NewDBBlock(h) \in DBBlocks
  BY <1>1, Works DEF WorkAssumption, NewDBBlock, DBBlocks
<1>3. ResultDBBlock(h) \in DBBlocks \cup {None}
  BY <1>2 DEF ResultDBBlock
<1>4. ResultDBBlock(h) # None => LinkedDBBlock(h) \in DBBlocks
  BY <1>3 DEF LinkedDBBlock, DBBlocks, IsGhost
<1>5. stage = "idle"
  BY DEF Process, RejectHeader, AcceptHeader, AwaitUncles,
     RejectUncles, RejectDifficulty, IgnoreBody, RejectTxs, AcceptBlock,
     UnclesProcessed, CanProcessBlock, CanProcess
<1>6. \A new \in Statuses, db \in DBBlocks \cup {None} :
         Finish(h, new, db) => /\ stage' = "status"
                               /\ UNCHANGED <<disk, tips>>
                               /\ recentHeaders' \subseteq Hashes
                               /\ job' \in Jobs
                               /\ job'.hash = h
  BY DEF Finish, SetUncleHeader, Jobs
<1>7. CASE RejectHeader(h)
  BY <1>5, <1>6, <1>7 DEF RejectHeader
<1>8. CASE AcceptHeader(h, body)
  BY <1>2, <1>5, <1>6, <1>8 DEF AcceptHeader
<1>9. CASE AwaitUncles(h, body)
  BY <1>3, <1>5, <1>6, <1>9 DEF AwaitUncles
<1>10. CASE RejectUncles(h, body)
  BY <1>3, <1>5, <1>6, <1>10 DEF RejectUncles
<1>11. CASE RejectDifficulty(h, body)
  BY <1>4, <1>5, <1>6, <1>11 DEF RejectDifficulty, UnclesProcessed
<1>12. CASE IgnoreBody(h, body)
  BY <1>4, <1>5, <1>6, <1>12 DEF IgnoreBody, UnclesProcessed
<1>13. CASE RejectTxs(h, body)
  BY <1>4, <1>5, <1>6, <1>13 DEF RejectTxs, UnclesProcessed
<1>14. CASE AcceptBlock(h, body)
  <2>1. ResultDBBlock(h) \in DBBlocks /\ LinkedDBBlock(h) \in DBBlocks
    BY <1>3, <1>4, <1>14 DEF AcceptBlock, UnclesProcessed
  <2>2. UncleWork[h] \in Nat
    BY Works DEF WorkAssumption
  <2>3. StoredDBBlock(h) \in DBBlocks
    BY <2>1, <2>2 DEF DBBlocks, StoredDBBlock
  <2>4. Finish(h, Block, StoredDBBlock(h))
    BY <1>14 DEF AcceptBlock
  <2> QED
    BY <1>5, <1>6, <2>3, <2>4
<1> QED
  BY <1>7, <1>8, <1>9, <1>10, <1>11, <1>12, <1>13, <1>14 DEF Process

-----------------------------------------------------------------------------
(***************************************************************************)
(* Type correctness.                                                       *)
(***************************************************************************)

LEMMA StartType ==
    ASSUME TypeInv, Start
    PROVE  TypeInv'
<1> USE DEF TypeInv, TypeOK, Readability, ExodusStages, RunStages, DBBlockStages,
            WrittenStages, disk, tips, memory, Stages
<1>1. Genesis \in Hashes
  BY Tree DEF TreeAssumption
<1>2. CASE Restart
  <2>1. TipFromDisk(diskTip) \in Tips /\ TipFromDisk(diskHeaderTip) \in Tips
    BY <1>2 DEF Restart, TipFromDisk, Tips, DBBlocks
  <2> QED
    BY <1>2, <2>1, NoneIsNoValue DEF Restart
<1>3. CASE FirstStart
  BY <1>3 DEF FirstStart
<1>4. CASE WriteExodusDBBlock
  <2>1. ExodusDBBlock \in DBBlocks
    BY DEF ExodusDBBlock, DBBlocks
  <2>2. ExodusDBBlock # None
    BY <2>1, NoneIsNoValue
  <2>3. [hash |-> Genesis, work |-> 0] \in Tips
    BY <1>1 DEF Tips
  <2> QED
    BY <1>1, <1>4, <2>1, <2>2, <2>3, NoneIsNoValue DEF WriteExodusDBBlock
<1>5. CASE WriteExodusStatus
  BY <1>1, <1>5 DEF WriteExodusStatus
<1>6. CASE WriteExodusHeight
  BY <1>1, <1>6 DEF WriteExodusHeight
<1>7. CASE WriteExodusHeaderTip
  BY <1>1, <1>7, NoneIsNoValue DEF WriteExodusHeaderTip
<1>8. CASE WriteExodusBlockTip
  BY <1>1, <1>8, NoneIsNoValue DEF WriteExodusBlockTip
<1> QED
  BY <1>2, <1>3, <1>4, <1>5, <1>6, <1>7, <1>8 DEF Start, WriteExodus

LEMMA FinishPutType ==
    ASSUME TypeInv, FinishPut
    PROVE  TypeInv'
<1> USE DEF TypeInv, TypeOK, Readability, ExodusStages, RunStages, DBBlockStages,
            WrittenStages, disk, tips, memory, Stages
<1>1. /\ job.hash \in Hashes /\ job.new \in Statuses /\ job.db \in DBBlocks \cup {None}
      /\ NoJob \in Jobs
  BY Tree DEF TreeAssumption, Jobs, NoJob
<1>2. job.db # None => JobTip \in Tips
  BY <1>1 DEF JobTip, Tips, DBBlocks
<1>3. AfterHeaderTip => \/ stage' = "reorganize" /\ job' = job
                        \/ stage' = "idle" /\ job' = NoJob
  BY DEF AfterHeaderTip
<1>4. CASE WriteStatus
  <2>1. status' \in [Hashes -> Statuses]
    BY <1>1, <1>4 DEF WriteStatus
  <2>2. \/ stage' = "idle" /\ job' = NoJob
        \/ stage' = "dbblock" /\ job' = job /\ job.db # None
    BY <1>4 DEF WriteStatus
  <2> QED
    BY <1>1, <1>4, <2>1, <2>2 DEF WriteStatus
<1>5. CASE WriteDBBlock
  BY <1>1, <1>5 DEF WriteDBBlock
<1>6. CASE AdvanceHeaderTip
  BY <1>1, <1>2, <1>3, <1>6, NoneIsNoValue DEF AdvanceHeaderTip
<1>7. CASE KeepHeaderTip
  BY <1>1, <1>3, <1>7 DEF KeepHeaderTip
<1>8. CASE Reorganize
  <2>1. status' \in [Hashes -> Statuses]
    BY <1>8 DEF Reorganize
  <2>2. /\ dbblock' \in [Hashes -> DBBlocks \cup {None}]
        /\ \A h \in Hashes : dbblock[h] # None => dbblock'[h] # None
    <3>1. \A h \in Hashes : dbblock[h] # None =>
             [dbblock[h] EXCEPT !.uncle = Flagged(h)] \in DBBlocks
      BY DEF DBBlocks, Flagged
    <3> QED
      BY <1>8, <3>1, NoneIsNoValue DEF Reorganize
  <2>3. hashAt' \in [Heights -> Hashes \cup {None}]
    <3>1. \A p \in Pushed : p \in Hashes
      BY <1>1, ChainType DEF Pushed
    <3>2. \A n : PushedAt(n) # {} => (CHOOSE p \in PushedAt(n) : TRUE) \in Hashes
      BY <3>1 DEF PushedAt
    <3> QED
      BY <1>8, <3>2 DEF Reorganize
  <2> QED
    BY <1>1, <1>8, <2>1, <2>2, <2>3, NoneIsNoValue DEF Reorganize
<1>9. CASE AbortReorganize
  BY <1>1, <1>9 DEF AbortReorganize
<1>10. CASE FailReorganize
  BY <1>1, <1>10 DEF FailReorganize
<1>11. CASE AdvanceBlockTip
  BY <1>1, <1>2, <1>11 DEF AdvanceBlockTip
<1> QED
  BY <1>4, <1>5, <1>6, <1>7, <1>8, <1>9, <1>10, <1>11 DEF FinishPut

LEMMA NextType ==
    ASSUME TypeInv, [Next]_vars
    PROVE  TypeInv'
<1> USE DEF TypeInv, TypeOK, Readability, ExodusStages, RunStages, DBBlockStages,
            WrittenStages, disk, tips, memory, Stages
<1>1. CASE \E h \in Hashes, body \in Bodies : Process(h, body)
  <2>1. PICK h \in Hashes, body \in Bodies : Process(h, body)
    BY <1>1
  <2> QED
    BY <2>1, ProcessType
<1>2. CASE Crash
  <2>1. NoJob \in Jobs
    BY Tree DEF TreeAssumption, Jobs, NoJob
  <2> QED
    BY <1>2, <2>1 DEF Crash
<1>3. CASE UNCHANGED vars
  BY <1>3 DEF vars, memory
<1> QED
  BY <1>1, <1>2, <1>3, StartType, FinishPutType DEF Next, Run

\* Every variable keeps its type, and no tip and no job ever refers to a DBBlock
\* that is not in the database, wherever the process dies.
THEOREM TypeCorrect == Spec => []TypeOK
<1>1. Spec => []TypeInv
  BY InitType, NextType, PTL DEF Spec
<1> QED
  BY <1>1, PTL DEF TypeInv

-----------------------------------------------------------------------------
(***************************************************************************)
(* The main chain is the chain of the tip.                                 *)
(***************************************************************************)

\* The invariant behind it: the tip in memory is the one on disk except between
\* the commit of a reorganization and the assignment that follows it, and the
\* job of a put never was on the main chain.
MainInv ==
    /\ Opened => Main = Chain[diskTip]
    /\ ~Opened => Main \subseteq {Genesis}
    /\ stage \in ExodusStages \cup {"exodusDBBlock"} => ~Opened
    /\ stage \in {"exodusHeight", "exodusHeaderTip", "exodusBlockTip"} => Genesis \in Main
    /\ stage \in ExodusStages => blockTip.hash = Genesis
    /\ stage \in RunStages \ {"tip"} => blockTip.hash = diskTip
    /\ stage = "tip" => diskTip = job.hash
    /\ stage \in {"status", "dbblock", "headerTip", "reorganize"} => job.hash \notin Main
    /\ stage = "status" => job.new # MainChain

\* The walk back from the new block pushes what its chain has and the main chain
\* has not, and the pops leave exactly what the two chains share.
LEMMA Fork ==
    ASSUME job.hash \in Hashes, blockTip.hash \in Hashes,
           Main = Chain[blockTip.hash], job.hash \notin Main
    PROVE  /\ Pushed = Chain[job.hash] \ Main
           /\ Main \ Popped = Main \cap Chain[job.hash]
           /\ job.hash \in Pushed
<1> DEFINE J == job.hash
           T == blockTip.hash
<1>1. /\ \A h \in Chain[J] \cup Chain[T] : h \in Hashes /\ Height[h] \in Nat
      /\ J \in Chain[J]
      /\ Genesis \in Chain[J] /\ Genesis \in Chain[T]
  BY ChainType, GenesisInChain
<1>2. Pushed = Chain[J] \ Chain[T]
  <2>1. ASSUME NEW h \in Chain[J], h \notin Pushed
        PROVE  h \in Chain[T]
    <3>1. PICK m \in Chain[J] \cap Chain[T] : Height[h] <= Height[m]
      BY <1>1, <2>1 DEF Pushed
    <3> QED
      BY <3>1, ChainLinear, ChainClosed
  <2>2. ASSUME NEW h \in Pushed
        PROVE  h \in Chain[J] /\ h \notin Chain[T]
    BY <1>1, <2>2 DEF Pushed
  <2> QED
    BY <2>1, <2>2
<1>3. J \in Pushed
  BY <1>1, <1>2
<1>4. ASSUME NEW h \in Chain[T], h \notin Popped
      PROVE  h \in Chain[J]
  <2>1. PICK p \in Pushed : \A q \in Pushed : Height[p] <= Height[q]
    BY <1>1, <1>2, <1>3, LowestHash
  <2>2. p \in Chain[J] \ {Genesis}
    BY <1>1, <1>2
  <2>3. Prev[p] \in Chain[J] /\ Height[p] = Height[Prev[p]] + 1
    BY <2>2, ChainPrev
  <2>4. Prev[p] \in Chain[T]
    <3>1. Prev[p] \notin Pushed
      BY <1>1, <2>1, <2>3
    <3> QED
      BY <1>2, <2>3, <3>1
  <2>5. Height[h] < Height[p]
    BY <1>1, <1>2, <1>4 DEF Popped
  <2>6. Height[h] <= Height[Prev[p]]
    BY <1>1, <2>3, <2>4, <2>5
  <2> QED
    BY <2>3, <2>4, <2>6, ChainLinear, ChainClosed
<1>5. ASSUME NEW h \in Chain[J] \cap Chain[T]
      PROVE  h \notin Popped
  BY <1>1, <1>5 DEF Popped, Pushed
<1> QED
  BY <1>2, <1>3, <1>4, <1>5

LEMMA InitMain == Init => MainInv
BY DEF Init, MainInv, Opened, Main, ExodusStages, RunStages

LEMMA StartMain ==
    ASSUME TypeInv, MainInv, Start
    PROVE  MainInv'
<1> USE DEF MainInv, Opened, Main, ExodusStages, RunStages, disk, tips, memory
<1>1. Genesis \in Hashes /\ Chain[Genesis] = {Genesis} /\ Genesis # None
  BY Tree, NoneIsNoValue DEF TreeAssumption
<1>2. CASE Restart
  BY <1>2 DEF Restart, TipFromDisk
<1>3. CASE FirstStart
  BY <1>3 DEF FirstStart
<1>4. CASE WriteExodusDBBlock
  BY <1>4 DEF WriteExodusDBBlock
<1>5. CASE WriteExodusStatus
  BY <1>1, <1>5 DEF WriteExodusStatus, TypeInv, TypeOK
<1>6. CASE WriteExodusHeight
  BY <1>6 DEF WriteExodusHeight
<1>7. CASE WriteExodusHeaderTip
  BY <1>7 DEF WriteExodusHeaderTip
<1>8. CASE WriteExodusBlockTip
  <2>1. Main = {Genesis}
    BY <1>8 DEF WriteExodusBlockTip
  <2>2. blockTip.hash = Genesis
    BY <1>8 DEF WriteExodusBlockTip
  <2> QED
    BY <1>1, <1>8, <2>1, <2>2 DEF WriteExodusBlockTip
<1> QED
  BY <1>2, <1>3, <1>4, <1>5, <1>6, <1>7, <1>8 DEF Start, WriteExodus

LEMMA FinishPutMain ==
    ASSUME TypeInv, MainInv, FinishPut
    PROVE  MainInv'
<1> USE DEF MainInv, Opened, Main, ExodusStages, RunStages, disk, tips, memory
<1>1. /\ job.hash \in Hashes /\ status \in [Hashes -> Statuses]
      /\ stage \in RunStages => diskTip \in Hashes /\ diskTip # None
  BY DEF TypeInv, TypeOK, Readability, Jobs
<1>2. job.hash # None
  BY <1>1, NoneIsNoValue
<1>3. CASE WriteStatus
  <2>1. Main' = Main /\ job.hash \notin Main'
    BY <1>1, <1>3 DEF WriteStatus
  <2> QED
    BY <1>1, <1>3, <2>1 DEF WriteStatus
<1>4. CASE WriteDBBlock
  BY <1>1, <1>4 DEF WriteDBBlock
<1>5. CASE AdvanceHeaderTip
  BY <1>1, <1>5 DEF AdvanceHeaderTip, AfterHeaderTip
<1>6. CASE KeepHeaderTip
  BY <1>1, <1>6 DEF KeepHeaderTip, AfterHeaderTip
<1>7. CASE Reorganize
  <2>1. Main' = (Main \ Popped) \cup Pushed
    BY <1>1, <1>7, ChainType DEF Reorganize, Pushed
  <2>2. Main' = Chain[job.hash]
    BY <1>1, <1>7, <2>1, Fork DEF Reorganize
  <2> QED
    BY <1>2, <1>7, <2>2 DEF Reorganize
<1>8. CASE AbortReorganize
  <2>1. Aborted \cap Main = {}
    BY <1>1, <1>8, Fork DEF AbortReorganize, Aborted
  <2>2. Main' = Main
    BY <1>1, <1>8, <2>1 DEF AbortReorganize
  <2> QED
    BY <1>1, <1>8, <2>2 DEF AbortReorganize
<1>9. CASE FailReorganize
  BY <1>1, <1>9 DEF FailReorganize
<1>10. CASE AdvanceBlockTip
  BY <1>1, <1>10 DEF AdvanceBlockTip, JobTip
<1> QED
  BY <1>3, <1>4, <1>5, <1>6, <1>7, <1>8, <1>9, <1>10 DEF FinishPut

\* A put goes past the process step only for a block it has no verdict on yet.
LEMMA ProcessJob ==
    ASSUME NEW h \in Hashes, NEW body \in Bodies, Process(h, body)
    PROVE  /\ h # Genesis
           /\ status[h] \in {Nothing, Header}
           /\ job'.hash = h
           /\ job'.new \in {Rejected, Header, InvalidBlock, Block}
BY DEF Process, RejectHeader, AcceptHeader, AwaitUncles, RejectUncles, RejectDifficulty,
   IgnoreBody, RejectTxs, AcceptBlock, UnclesProcessed, CanProcessBlock, CanProcess, Finish

LEMMA NextMain ==
    ASSUME TypeInv, MainInv, [Next]_vars
    PROVE  MainInv'
<1> USE DEF MainInv, Opened, Main, ExodusStages, RunStages, disk, tips, memory
<1>1. CASE \E h \in Hashes, body \in Bodies : Process(h, body)
  <2>1. PICK h \in Hashes, body \in Bodies : Process(h, body)
    BY <1>1
  <2>2. /\ stage = "idle" /\ stage' = "status"
        /\ UNCHANGED <<disk, tips>>
    BY <2>1, ProcessType
  <2>3. job'.hash \notin Main /\ job'.new # MainChain
    BY <2>1, ProcessJob
  <2> QED
    BY <2>2, <2>3
<1>2. CASE Crash
  BY <1>2 DEF Crash
<1>3. CASE UNCHANGED vars
  BY <1>3 DEF vars, memory
<1> QED
  BY <1>1, <1>2, <1>3, StartMain, FinishPutMain DEF Next, Run

LEMMA SafeMain == Spec => [](TypeInv /\ MainInv)
<1>1. Init => TypeInv /\ MainInv
  BY InitType, InitMain
<1>2. TypeInv /\ MainInv /\ [Next]_vars => (TypeInv /\ MainInv)'
  BY NextType, NextMain
<1> QED
  BY <1>1, <1>2, PTL DEF Spec

\* Through reorganizations, aborts and crashes, the blocks with status MainChain
\* are the chain of the tip key: no block of an abandoned branch stays behind,
\* and none of the adopted one is missing.
THEOREM MainChainCorrect == Spec => []MainChainIsTipChain
<1>1. TypeInv /\ MainInv => MainChainIsTipChain
  BY DEF MainInv, MainChainIsTipChain
<1> QED
  BY <1>1, SafeMain, PTL

-----------------------------------------------------------------------------
(***************************************************************************)
(* Uncles on a valid chain.                                                *)
(***************************************************************************)

LEMMA AncestorFacts ==
    ASSUME NEW h \in Hashes, NEW a \in Chain[h]
    PROVE  /\ a \in Hashes /\ Chain[a] \subseteq Chain[h] /\ a \in Chain[a]
           /\ Height[a] \in Nat /\ Height[h] \in Nat
           /\ a # h => a \in Ancestors(h) /\ Height[a] < Height[h]
           /\ Genesis \in Chain[h]
BY ChainType, ChainClosed, ChainHeight, GenesisInChain DEF Ancestors

\* Of two members of a chain one is an ancestor of the other.
LEMMA AncestorOrder ==
    ASSUME NEW h \in Hashes, NEW a \in Chain[h], NEW b \in Chain[h], a # b
    PROVE  a \in Ancestors(b) \/ b \in Ancestors(a)
<1>1. Height[a] \in Nat /\ Height[b] \in Nat
  BY AncestorFacts
<1>2. Height[a] <= Height[b] => a \in Chain[b]
  BY ChainLinear
<1>3. Height[b] <= Height[a] => b \in Chain[a]
  BY ChainLinear
<1> QED
  BY <1>1, <1>2, <1>3 DEF Ancestors

\* A part of a valid chain is valid, and so are the uncles of each block in it.
LEMMA ChainValidParts ==
    ASSUME NEW h \in Hashes, ChainValid(h), NEW a \in Chain[h]
    PROVE  ChainValid(a) /\ UnclesChainValid(a)
<1>1. ChainValid(a)
  BY AncestorFacts DEF ChainValid
<1>2. CASE a = Genesis
  BY <1>1, <1>2, Tree DEF TreeAssumption, UnclesChainValid, TooOldUncles
<1>3. CASE a # Genesis
  BY <1>1, <1>3, AncestorFacts DEF ChainValid, BlockValid
<1> QED
  BY <1>1, <1>2, <1>3

\* No uncle is rewarded twice on a valid chain.
LEMMA UnclesDiffer ==
    ASSUME NEW h \in Hashes, ChainValid(h), NEW a \in Chain[h], NEW b \in Chain[h], a # b
    PROVE  Uncles[a] \cap Uncles[b] = {}
<1>1. UnclesChainValid(a) /\ UnclesChainValid(b)
  BY ChainValidParts
<1> QED
  BY <1>1, AncestorOrder DEF UnclesChainValid

\* No member of a valid chain is an uncle on it.
LEMMA UnclesOffChain ==
    ASSUME NEW h \in Hashes, ChainValid(h)
    PROVE  UnclesOf(Chain[h]) \cap Chain[h] = {}
<1>1. SUFFICES ASSUME NEW a \in Chain[h], NEW u \in Uncles[a], u \in Chain[h]
               PROVE  FALSE
  BY DEF UnclesOf
<1>2. /\ u # Genesis /\ u \notin Chain[a] /\ Prev[u] \in Ancestors(a)
      /\ u \in Hashes /\ a \in Hashes
  BY ChainValidParts, AncestorFacts, Tree DEF TreeAssumption, UnclesChainValid, TooOldUncles
<1>3. Height[u] = Height[Prev[u]] + 1
  BY <1>2, Tree DEF TreeAssumption
<1>4. Height[Prev[u]] < Height[a] /\ Height[Prev[u]] \in Nat /\ Height[a] \in Nat
  BY <1>2, AncestorFacts DEF Ancestors
<1>5. Height[u] <= Height[a]
  BY <1>3, <1>4
<1> QED
  BY <1>1, <1>2, <1>5, ChainLinear

-----------------------------------------------------------------------------
(***************************************************************************)
(* The inductive invariant.                                                *)
(***************************************************************************)

\* What process has found of a block before it becomes a Block: it says nothing
\* of the statuses the node had at the time.
Vetted(h) ==
    /\ h \in HeaderValid
    /\ TooOldUncles(h) = {}
    /\ IsGhost(h) \/ h \in DifficultyValid
    /\ h \in TxsValid

\* Its uncles were known and had DBBlocks; neither is ever taken back.
UnclesMet(h) == \A u \in Uncles[h] : status[u] \notin {Nothing, Rejected} /\ dbblock[u] # None

\* All of an accepted block's chain was vetted when it was accepted.  A member
\* may have been condemned since, but then by a reorganization, for its uncles.
AcceptedChain(h) ==
    \A a \in Chain[h] \ {Genesis} :
        /\ Vetted(a) /\ UnclesMet(a)
        /\ status[a] >= Block \/ (status[a] = InvalidBlock /\ ~ChainValid(a))

VerdictInv ==
    /\ status[Genesis] \in {Nothing, MainChain}
    /\ \A h \in Hashes \ {Genesis} :
         /\ status[h] \notin {Nothing, Rejected} => h \in HeaderValid
         /\ status[h] = Rejected => h \notin HeaderValid
         /\ dbblock[h] # None => status[h] # Nothing
    /\ \A h \in Hashes : status[h] >= Block => AcceptedChain(h)

\* The job that is about to write its status, and the one that has.
JobInv ==
    /\ stage = "status" =>
         /\ job.hash # Genesis
         /\ status[job.hash] \in {Nothing, Header}
         /\ job.new \in {Rejected, Header, InvalidBlock, Block}
         /\ job.new = Rejected => job.hash \notin HeaderValid /\ status[job.hash] = Nothing
         /\ job.new # Rejected => job.hash \in HeaderValid
         /\ job.new = Block => /\ Vetted(job.hash) /\ UnclesMet(job.hash)
                               /\ status[Prev[job.hash]] >= Block
    /\ stage \in {"dbblock", "headerTip", "reorganize"} =>
         /\ job.hash # Genesis
         /\ job.new \in {Header, InvalidBlock, Block}
         /\ status[job.hash] = job.new
    /\ stage = "reorganize" => job.new = Block

\* The uncle flags are those of the main chain, whose blocks are all valid.  A job
\* carries the flag of its own hash.
FlagInv ==
    /\ UncleFlags = UnclesOf(Main)
    /\ \A h \in Main : ChainValid(h)
    /\ stage \in {"status", "dbblock"} /\ job.db # None =>
         (job.db.uncle <=> job.hash \in UncleFlags)

Inv == TypeInv /\ MainInv /\ VerdictInv /\ JobInv /\ FlagInv

-----------------------------------------------------------------------------
(***************************************************************************)
(* A reorganization, seen from the chains.                                 *)
(***************************************************************************)

\* The new block's chain is accepted; popped and pushed blocks are what the two
\* chains do not share.
LEMMA ReorganizeChains ==
    ASSUME Inv, stage = "reorganize"
    PROVE  /\ job.hash \in Hashes \ {Genesis} /\ AcceptedChain(job.hash)
           /\ Opened /\ blockTip.hash \in Hashes /\ Main = Chain[blockTip.hash]
           /\ Pushed = Chain[job.hash] \ Main
           /\ Popped \subseteq Main
           /\ Main \ Popped = Main \cap Chain[job.hash]
           /\ job.hash \in Pushed
<1>1. /\ job.hash \in Hashes \ {Genesis} /\ status[job.hash] = Block
      /\ diskTip \in Hashes /\ diskTip # None
  BY DEF Inv, TypeInv, TypeOK, Readability, RunStages, JobInv, Jobs
<1>2. /\ Opened /\ blockTip.hash = diskTip /\ Main = Chain[diskTip]
      /\ job.hash \notin Main
  BY <1>1 DEF Inv, MainInv, Opened, RunStages
<1>3. AcceptedChain(job.hash)
  BY <1>1 DEF Inv, VerdictInv
<1>4. Popped \subseteq Main
  BY <1>2 DEF Popped
<1> QED
  BY <1>1, <1>2, <1>3, <1>4, Fork

\* When its turn comes, what is below a pushed block is its own chain.
LEMMA MainBeforePush ==
    ASSUME Inv, stage = "reorganize", NEW p \in Pushed
    PROVE  /\ p \in Hashes \ {Genesis} /\ p \in Chain[job.hash]
           /\ MainBefore(p) = Ancestors(p)
           /\ (Main \ Popped) \cup PushedBefore(p) = Ancestors(p)
<1> DEFINE J == job.hash
<1>1. /\ J \in Hashes
      /\ Pushed = Chain[J] \ Main /\ Main \ Popped = Main \cap Chain[J]
      /\ Genesis \in Main
  BY ReorganizeChains, GenesisInChain
<1>2. p \in Chain[J] /\ p \notin Main /\ p \in Hashes \ {Genesis}
  BY <1>1, AncestorFacts
<1>3. ASSUME NEW m \in Main \cap Chain[J]
      PROVE  m \in Ancestors(p)
  <2>1. Height[m] < Height[p]
    BY <1>3 DEF Pushed
  <2>2. Height[m] \in Nat /\ Height[p] \in Nat
    BY <1>1, <1>2, <1>3, AncestorFacts
  <2> QED
    BY <1>1, <1>2, <1>3, <2>1, <2>2, ChainLinear DEF Ancestors
<1>4. ASSUME NEW q \in PushedBefore(p)
      PROVE  q \in Ancestors(p)
  <2>1. q \in Chain[J] /\ Height[q] < Height[p]
    BY <1>1 DEF PushedBefore
  <2>2. Height[q] \in Nat /\ Height[p] \in Nat
    BY <1>1, <1>2, <2>1, AncestorFacts
  <2> QED
    BY <1>1, <1>2, <2>1, <2>2, ChainLinear DEF Ancestors
<1>5. ASSUME NEW a \in Ancestors(p)
      PROVE  a \in (Main \cap Chain[J]) \cup PushedBefore(p)
  <2>1. a \in Chain[p] /\ a # p
    BY DEF Ancestors
  <2>2. a \in Chain[J] /\ Height[a] < Height[p]
    BY <1>1, <1>2, <2>1, AncestorFacts
  <2> QED
    BY <1>1, <2>2 DEF PushedBefore
<1> QED
  BY <1>1, <1>2, <1>3, <1>4, <1>5 DEF MainBefore

\* ... and the flags are those of its own chain.
LEMMA FlagsBeforePush ==
    ASSUME Inv, stage = "reorganize", NEW p \in Pushed
    PROVE  FlagsBefore(p) = UnclesOf(Ancestors(p))
<1>1. ASSUME NEW a \in Main, NEW b \in Main, a # b
      PROVE  Uncles[a] \cap Uncles[b] = {}
  <2>1. /\ blockTip.hash \in Hashes /\ Main = Chain[blockTip.hash]
        /\ ChainValid(blockTip.hash)
    BY ReorganizeChains, ChainType DEF Inv, FlagInv
  <2> QED
    BY <1>1, <2>1, UnclesDiffer
<1>2. Popped \subseteq Main /\ UncleFlags = UnclesOf(Main)
  BY ReorganizeChains DEF Inv, FlagInv
<1>3. UncleFlags \ UnclesOf(Popped) = UnclesOf(Main \ Popped)
  BY <1>1, <1>2 DEF UnclesOf
<1>4. FlagsBefore(p) = UnclesOf((Main \ Popped) \cup PushedBefore(p))
  BY <1>3 DEF FlagsBefore, UnclesOf
<1> QED
  BY <1>4, MainBeforePush

\* validateUncles decides what the chain says of the uncles.
LEMMA UnclesValidIsOfChain ==
    ASSUME Inv, stage = "reorganize", NEW p \in Pushed
    PROVE  /\ UnclesValid(p) <=> UnclesChainValid(p)
           /\ Vetted(p) /\ UnclesMet(p)
           /\ status[p] \in {InvalidBlock, Block}
           /\ status[p] = InvalidBlock => ~ChainValid(p)
<1>1. /\ p \in Hashes \ {Genesis} /\ p \in Chain[job.hash] /\ MainBefore(p) = Ancestors(p)
      /\ FlagsBefore(p) = UnclesOf(Ancestors(p))
      /\ p \notin Main
  BY MainBeforePush, FlagsBeforePush, ReorganizeChains
<1>2. /\ Vetted(p) /\ UnclesMet(p)
      /\ status[p] >= Block \/ (status[p] = InvalidBlock /\ ~ChainValid(p))
  BY <1>1, ReorganizeChains DEF AcceptedChain
<1>3. status[p] \in Statuses /\ status[p] # MainChain
  BY <1>1 DEF Inv, TypeInv, TypeOK, Main
<1>4. ASSUME NEW u \in Uncles[p]
      PROVE  /\ u \in Hashes \ {Genesis} /\ u # p /\ u \in HeaderValid
             /\ status[u] \notin {Nothing, Rejected}
  <2>1. u \in Hashes \ {Genesis} /\ u # p
    BY <1>1, <1>2, Tree DEF TreeAssumption, Vetted, TooOldUncles
  <2>2. status[u] \notin {Nothing, Rejected}
    BY <1>2 DEF UnclesMet
  <2> QED
    BY <2>1, <2>2 DEF Inv, VerdictInv
<1>5. UnclesValid(p) <=>
         \A u \in Uncles[p] : /\ u \notin Ancestors(p) /\ u \notin UnclesOf(Ancestors(p))
                              /\ Prev[u] \in Ancestors(p)
  BY <1>1, <1>4 DEF UnclesValid
<1>6. UnclesChainValid(p) <=>
         \A u \in Uncles[p] : /\ u \notin Ancestors(p) /\ u \notin UnclesOf(Ancestors(p))
                              /\ Prev[u] \in Ancestors(p)
  BY <1>1, <1>2, <1>4 DEF UnclesChainValid, Ancestors, UnclesOf, Vetted
<1> QED
  BY <1>2, <1>3, <1>5, <1>6

\* A chain that is committed is valid ...
LEMMA CommittedIsValid ==
    ASSUME Inv, stage = "reorganize", Aborted = {}
    PROVE  ChainValid(job.hash)
<1>1. \A p \in Pushed : UnclesValid(p)
  <2>1. \A p \in Pushed : Height[p] <= Height[p]
    BY MainBeforePush, ChainType
  <2> QED
    BY <2>1 DEF Aborted
<1>2. SUFFICES ASSUME NEW a \in Chain[job.hash] \ {Genesis}
               PROVE  BlockValid(a)
  BY DEF ChainValid
<1>3. CASE a \in Main
  <2>1. ChainValid(a) /\ a \in Chain[a]
    BY <1>3, ReorganizeChains, AncestorFacts DEF Inv, FlagInv
  <2> QED
    BY <2>1 DEF ChainValid
<1>4. CASE a \in Pushed
  BY <1>1, <1>4, UnclesValidIsOfChain DEF BlockValid, Vetted
<1> QED
  BY <1>3, <1>4, ReorganizeChains

\* ... and what an abort condemns is not.
LEMMA AbortedIsInvalid ==
    ASSUME Inv, stage = "reorganize", NEW p \in Aborted
    PROVE  /\ ~ChainValid(p)
           /\ p \in Pushed /\ p \in Hashes \ {Genesis} /\ p \notin Main /\ p \in HeaderValid
           /\ status[p] \in {InvalidBlock, Block}
<1>1. PICK q \in Pushed : Height[q] <= Height[p] /\ ~UnclesValid(q)
  BY DEF Aborted
<1>2. /\ p \in Pushed /\ p \in Hashes \ {Genesis} /\ p \in Chain[job.hash] /\ q \in Chain[job.hash]
      /\ p \notin Main /\ job.hash \in Hashes
  BY MainBeforePush, ReorganizeChains DEF Aborted
<1>3. q \in Chain[p]
  BY <1>1, <1>2, ChainLinear
<1>4. ~UnclesChainValid(q)
  BY <1>1, UnclesValidIsOfChain
<1>5. ~ChainValid(p)
  BY <1>2, <1>3, <1>4, ChainValidParts
<1> QED
  BY <1>2, <1>5, UnclesValidIsOfChain DEF Vetted

-----------------------------------------------------------------------------
(***************************************************************************)
(* What process decides.                                                   *)
(***************************************************************************)

\* A job has a DBBlock of its own flag, and its verdict rests on what was looked at.
LEMMA ProcessVerdict ==
    ASSUME Inv, NEW h \in Hashes, NEW body \in Bodies, Process(h, body)
    PROVE  /\ h # Genesis /\ status[h] \in {Nothing, Header}
           /\ stage' = "status" /\ UNCHANGED <<status, dbblock>>
           /\ job'.hash = h
           /\ job'.new \in {Rejected, Header, InvalidBlock, Block}
           /\ job'.new = Rejected => h \notin HeaderValid /\ status[h] = Nothing
           /\ job'.new # Rejected => h \in HeaderValid
           /\ job'.new = Block => Vetted(h) /\ UnclesMet(h) /\ status[Prev[h]] >= Block
           /\ job'.db # None => (job'.db.uncle <=> h \in UncleFlags)
<1>1. /\ h # Genesis /\ status[h] \in {Nothing, Header} /\ CanProcess(h)
      /\ dbblock[h] \in DBBlocks \cup {None} /\ dbblock[Prev[h]] \in DBBlocks
  <2>1. CanProcess(h)
    BY DEF Process, RejectHeader, AcceptHeader, AwaitUncles, RejectUncles,
       RejectDifficulty, IgnoreBody, RejectTxs, AcceptBlock, UnclesProcessed, CanProcessBlock
  <2> QED
    BY <2>1, Tree DEF TreeAssumption, CanProcess, Inv, TypeInv, TypeOK
<1>2. status[h] = Header => h \in HeaderValid
  BY <1>1 DEF Inv, VerdictInv
<1>3. status[h] = Nothing => dbblock[h] = None
  BY <1>1 DEF Inv, VerdictInv
<1>4. ResultDBBlock(h) # None =>
         /\ ResultDBBlock(h) \in DBBlocks
         /\ (ResultDBBlock(h).uncle <=> h \in UncleFlags)
  <2>1. CASE status[h] = Nothing
    <3>1. /\ ResultDBBlock(h) = NewDBBlock(h) /\ h \notin UncleFlags
          /\ NewDBBlock(h).uncle = FALSE
      BY <1>3, <2>1 DEF ResultDBBlock, UncleFlags, NewDBBlock
    <3>2. NewDBBlock(h) \in DBBlocks
      BY <1>1, Works DEF WorkAssumption, NewDBBlock, DBBlocks
    <3> QED
      BY <3>1, <3>2
  <2>2. CASE status[h] = Header
    <3>1. ResultDBBlock(h) = dbblock[h]
      BY <2>2 DEF ResultDBBlock
    <3> QED
      BY <1>1, <3>1 DEF UncleFlags
  <2> QED
    BY <1>1, <2>1, <2>2
<1>5. ResultDBBlock(h) # None =>
         /\ (LinkedDBBlock(h).uncle <=> h \in UncleFlags)
         /\ (StoredDBBlock(h).uncle <=> h \in UncleFlags)
  BY <1>4 DEF LinkedDBBlock, StoredDBBlock, DBBlocks
<1>6. ASSUME NEW new \in {Rejected, Header, InvalidBlock, Block}, NEW db, Finish(h, new, db),
             new = Rejected => h \notin HeaderValid /\ status[h] = Nothing,
             new # Rejected => h \in HeaderValid,
             new = Block => Vetted(h) /\ UnclesMet(h) /\ status[Prev[h]] >= Block,
             db # None => (db.uncle <=> h \in UncleFlags)
      PROVE  /\ stage' = "status" /\ UNCHANGED <<status, dbblock>>
             /\ job'.hash = h
             /\ job'.new \in {Rejected, Header, InvalidBlock, Block}
             /\ job'.new = Rejected => h \notin HeaderValid /\ status[h] = Nothing
             /\ job'.new # Rejected => h \in HeaderValid
             /\ job'.new = Block => Vetted(h) /\ UnclesMet(h) /\ status[Prev[h]] >= Block
             /\ job'.db # None => (job'.db.uncle <=> h \in UncleFlags)
  BY <1>6 DEF Finish, disk
<1>7. CASE RejectHeader(h)
  BY <1>1, <1>6, <1>7 DEF RejectHeader
<1>8. CASE AcceptHeader(h, body)
  <2>1. NewDBBlock(h) = ResultDBBlock(h)
    BY <1>8 DEF AcceptHeader, ResultDBBlock
  <2> QED
    BY <1>1, <1>4, <1>6, <1>8, <2>1 DEF AcceptHeader
<1>9. CASE AwaitUncles(h, body)
  BY <1>1, <1>2, <1>4, <1>6, <1>9 DEF AwaitUncles, CanProcessBlock
<1>10. CASE RejectUncles(h, body)
  BY <1>1, <1>2, <1>4, <1>6, <1>10 DEF RejectUncles, CanProcessBlock
<1>11. CASE RejectDifficulty(h, body)
  BY <1>1, <1>2, <1>5, <1>6, <1>11 DEF RejectDifficulty, UnclesProcessed, CanProcessBlock
<1>12. CASE IgnoreBody(h, body)
  BY <1>1, <1>2, <1>5, <1>6, <1>12 DEF IgnoreBody, UnclesProcessed, CanProcessBlock
<1>13. CASE RejectTxs(h, body)
  BY <1>1, <1>2, <1>5, <1>6, <1>13 DEF RejectTxs, UnclesProcessed, CanProcessBlock
<1>14. CASE AcceptBlock(h, body)
  <2>1. Vetted(h) /\ UnclesMet(h) /\ status[Prev[h]] >= Block
    BY <1>2, <1>14 DEF AcceptBlock, UnclesProcessed, CanProcessBlock, Vetted, UnclesMet,
       DifficultyMatches
  <2> QED
    BY <1>1, <1>2, <1>5, <1>6, <1>14, <2>1 DEF AcceptBlock, UnclesProcessed, CanProcessBlock
<1> QED
  BY <1>1, <1>7, <1>8, <1>9, <1>10, <1>11, <1>12, <1>13, <1>14 DEF Process

-----------------------------------------------------------------------------
(***************************************************************************)
(* The invariant is inductive.                                             *)
(***************************************************************************)

LEMMA InitInv == Init => Inv
<1> SUFFICES ASSUME Init PROVE Inv
  OBVIOUS
<1>1. TypeInv /\ MainInv
  BY InitType, InitMain
<1>2. VerdictInv /\ JobInv
  BY Tree DEF TreeAssumption, Init, VerdictInv, JobInv
<1>3. FlagInv
  BY DEF Init, FlagInv, UncleFlags, Main, UnclesOf
<1> QED
  BY <1>1, <1>2, <1>3 DEF Inv

\* What was met stays met: no status falls back, no DBBlock goes.
LEMMA MetStaysMet ==
    ASSUME NEW h \in Hashes, UnclesMet(h),
           \A u \in Hashes : status[u] \notin {Nothing, Rejected} => status'[u] \notin {Nothing, Rejected},
           \A u \in Hashes : dbblock[u] # None => dbblock'[u] # None
    PROVE  UnclesMet(h)'
BY Tree DEF TreeAssumption, UnclesMet

LEMMA StartInv ==
    ASSUME Inv, Start
    PROVE  VerdictInv' /\ JobInv' /\ FlagInv'
<1>1. /\ stage' \in ExodusStages \cup {"exodusDBBlock", "idle"}
      /\ job' = job
  BY DEF Start, WriteExodus, Restart, FirstStart, WriteExodusDBBlock, WriteExodusStatus,
     WriteExodusHeight, WriteExodusHeaderTip, WriteExodusBlockTip, ExodusStages, memory
<1>2. JobInv'
  BY <1>1 DEF JobInv, ExodusStages
<1>3. Genesis \in Hashes /\ Uncles[Genesis] = {} /\ Chain[Genesis] = {Genesis}
  BY Tree DEF TreeAssumption
<1>4. status \in [Hashes -> Statuses] /\ dbblock \in [Hashes -> DBBlocks \cup {None}]
  BY DEF Inv, TypeInv, TypeOK
<1>5. CASE UNCHANGED <<status, dbblock>>
  <2>1. VerdictInv'
    BY <1>5 DEF Inv, VerdictInv, AcceptedChain, UnclesMet
  <2>2. FlagInv'
    BY <1>1, <1>5 DEF Inv, FlagInv, UncleFlags, Main, UnclesOf, ExodusStages
  <2> QED
    BY <1>2, <2>1, <2>2
<1>6. CASE WriteExodusDBBlock
  <2>1. Main \subseteq {Genesis} /\ Main' = Main
    BY <1>6 DEF Inv, MainInv, WriteExodusDBBlock, Main
  <2>2. UncleFlags = {} /\ UnclesOf(Main) = {}
    BY <1>3, <2>1 DEF Inv, FlagInv, UnclesOf
  <2>3. UncleFlags' = {} /\ UnclesOf(Main') = {}
    BY <1>3, <1>4, <1>6, <2>1, <2>2 DEF WriteExodusDBBlock, ExodusDBBlock, UncleFlags, UnclesOf
  <2>4. FlagInv'
    BY <1>1, <2>1, <2>3 DEF Inv, FlagInv, ExodusStages, UnclesOf
  <2>5. ExodusDBBlock # None
    <3>1. ExodusDBBlock \in DBBlocks
      BY DEF ExodusDBBlock, DBBlocks
    <3> QED
      BY <3>1, NoneIsNoValue
  <2>6. /\ \A u \in Hashes : dbblock[u] # None => dbblock'[u] # None
        /\ \A u \in Hashes \ {Genesis} : dbblock'[u] = dbblock[u]
        /\ status' = status
    BY <1>3, <1>4, <1>6, <2>5 DEF WriteExodusDBBlock
  <2>7. \A h \in Hashes : UnclesMet(h) => UnclesMet(h)'
    BY <2>6, MetStaysMet
  <2>8. VerdictInv'
    BY <2>6, <2>7, ChainType DEF Inv, VerdictInv, AcceptedChain
  <2> QED
    BY <1>2, <2>4, <2>8
<1>7. CASE WriteExodusStatus
  <2>1. Main \subseteq {Genesis} /\ Main' = {Genesis}
    BY <1>3, <1>4, <1>7 DEF Inv, MainInv, WriteExodusStatus, Main, ExodusStages
  <2>2. UncleFlags = {} /\ UncleFlags' = {} /\ UnclesOf(Main') = {}
    BY <1>3, <1>7, <2>1 DEF Inv, FlagInv, UnclesOf, UncleFlags, WriteExodusStatus
  <2>3. ChainValid(Genesis)
    BY <1>3 DEF ChainValid
  <2>4. FlagInv'
    BY <1>1, <2>1, <2>2, <2>3 DEF FlagInv, ExodusStages, UnclesOf
  <2>5. /\ \A u \in Hashes \ {Genesis} : status'[u] = status[u]
        /\ status'[Genesis] = MainChain
        /\ dbblock' = dbblock
    BY <1>3, <1>4, <1>7 DEF WriteExodusStatus
  <2>6. \A h \in Hashes : UnclesMet(h) => UnclesMet(h)'
    BY <2>5, MetStaysMet
  <2>7. \A h \in Hashes \ {Genesis} : AcceptedChain(h) => AcceptedChain(h)'
    BY <2>5, <2>6, ChainType DEF AcceptedChain
  <2>8. AcceptedChain(Genesis)'
    BY <1>3 DEF AcceptedChain
  <2>9. VerdictInv'
    BY <2>5, <2>7, <2>8 DEF Inv, VerdictInv
  <2> QED
    BY <1>2, <2>4, <2>9
<1> QED
  BY <1>5, <1>6, <1>7 DEF Start, WriteExodus, Restart, FirstStart, WriteExodusHeight,
     WriteExodusHeaderTip, WriteExodusBlockTip, disk

\* The status of a job is the first verdict on its block, or comes after a header's.
LEMMA WriteStatusInv ==
    ASSUME Inv, WriteStatus
    PROVE  VerdictInv' /\ JobInv' /\ FlagInv'
<1> DEFINE J == job.hash
<1>1. /\ J \in Hashes \ {Genesis} /\ status \in [Hashes -> Statuses]
      /\ job.new \in {Rejected, Header, InvalidBlock, Block}
      /\ status[J] \in {Nothing, Header}
      /\ dbblock' = dbblock /\ status' = [status EXCEPT ![J] = job.new]
  BY DEF WriteStatus, Inv, TypeInv, TypeOK, Jobs, JobInv
<1>2. \/ stage' = "idle"
      \/ /\ stage' = "dbblock" /\ job' = job /\ job.new >= Header
  BY DEF WriteStatus
<1>3. status'[J] = job.new /\ \A h \in Hashes : h # J => status'[h] = status[h]
  BY <1>1
<1>4. JobInv'
  BY <1>1, <1>2, <1>3 DEF JobInv
<1>5. FlagInv'
  <2>1. Main' = Main
    BY <1>1, <1>3 DEF Main
  <2>2. UncleFlags' = UncleFlags
    BY <1>1 DEF UncleFlags
  <2> QED
    BY <1>2, <2>1, <2>2, NoneIsNoValue DEF Inv, FlagInv, UnclesOf, WriteStatus
<1>6. \A h \in Hashes : UnclesMet(h) => UnclesMet(h)'
  <2>1. \A u \in Hashes : status[u] \notin {Nothing, Rejected} => status'[u] \notin {Nothing, Rejected}
    <3>1. job.new = Rejected => status[J] = Nothing
      BY DEF WriteStatus, Inv, JobInv
    <3> QED
      BY <1>1, <1>3, <3>1
  <2> QED
    BY <1>1, <2>1, MetStaysMet
<1>7. ASSUME NEW h \in Hashes, h # J, AcceptedChain(h)
      PROVE  AcceptedChain(h)'
  <2>1. J \notin Chain[h]
    BY <1>1, <1>7 DEF AcceptedChain
  <2>2. \A a \in Chain[h] : status'[a] = status[a] /\ (UnclesMet(a) => UnclesMet(a)')
    BY <1>3, <1>6, <2>1, ChainType
  <2> QED
    BY <1>7, <2>2 DEF AcceptedChain
<1>8. ASSUME job.new = Block, NEW j \in Hashes, j = J
      PROVE  AcceptedChain(j)'
  <2>1. /\ Prev[j] \in Hashes /\ Chain[j] = Chain[Prev[j]] \cup {j}
        /\ Height[j] = Height[Prev[j]] + 1 /\ Height[Prev[j]] \in Nat
    BY <1>1, <1>8, Tree DEF TreeAssumption
  <2>2. Vetted(j) /\ UnclesMet(j) /\ status[Prev[j]] >= Block /\ Prev[j] # j
    BY <1>8, <2>1 DEF WriteStatus, Inv, JobInv
  <2>3. AcceptedChain(Prev[j])'
    BY <1>7, <1>8, <2>1, <2>2 DEF Inv, VerdictInv
  <2> QED
    BY <1>3, <1>6, <1>8, <2>1, <2>2, <2>3 DEF AcceptedChain
<1>9. VerdictInv'
  <2>1. ASSUME NEW h \in Hashes \ {Genesis}
        PROVE  /\ status'[h] \notin {Nothing, Rejected} => h \in HeaderValid
               /\ status'[h] = Rejected => h \notin HeaderValid
               /\ dbblock'[h] # None => status'[h] # Nothing
    <3>1. CASE h = J
      BY <1>1, <1>3, <3>1 DEF WriteStatus, Inv, JobInv
    <3>2. CASE h # J
      BY <1>1, <1>3, <3>2 DEF Inv, VerdictInv
    <3> QED
      BY <3>1, <3>2
  <2>2. ASSUME NEW h \in Hashes, status'[h] >= Block
        PROVE  AcceptedChain(h)'
    <3>1. CASE h = J
      BY <1>1, <1>3, <1>8, <2>2, <3>1
    <3>2. CASE h # J
      BY <1>3, <1>7, <2>2, <3>2 DEF Inv, VerdictInv
    <3> QED
      BY <3>1, <3>2
  <2>3. status'[Genesis] = status[Genesis]
    BY <1>1, <1>3, Tree DEF TreeAssumption
  <2> QED
    BY <2>1, <2>2, <2>3 DEF Inv, VerdictInv
<1> QED
  BY <1>4, <1>5, <1>9

LEMMA WriteDBBlockInv ==
    ASSUME Inv, WriteDBBlock
    PROVE  VerdictInv' /\ JobInv' /\ FlagInv'
<1> DEFINE J == job.hash
<1>1. /\ J \in Hashes \ {Genesis} /\ dbblock \in [Hashes -> DBBlocks \cup {None}]
      /\ job.db \in DBBlocks /\ job.db # None
      /\ status' = status /\ dbblock' = [dbblock EXCEPT ![J] = job.db]
      /\ stage = "dbblock" /\ stage' = "headerTip" /\ job' = job
  BY DEF WriteDBBlock, Inv, TypeInv, TypeOK, Readability, DBBlockStages, Jobs, JobInv
<1>2. JobInv'
  BY <1>1 DEF Inv, JobInv
<1>3. FlagInv'
  <2>1. Main' = Main
    BY <1>1 DEF Main
  <2>2. job.db.uncle <=> J \in UncleFlags
    BY <1>1 DEF Inv, FlagInv
  <2>3. UncleFlags' = UncleFlags
    BY <1>1, <2>2 DEF UncleFlags
  <2> QED
    BY <1>1, <2>1, <2>3 DEF Inv, FlagInv, UnclesOf
<1>4. \A h \in Hashes : UnclesMet(h) => UnclesMet(h)'
  BY <1>1, MetStaysMet
<1>5. status[J] # Nothing
  BY <1>1 DEF Inv, JobInv
<1>6. VerdictInv'
  BY <1>1, <1>4, <1>5, ChainType DEF Inv, VerdictInv, AcceptedChain
<1> QED
  BY <1>2, <1>3, <1>6

\* The batch of a reorganization, hash by hash.
LEMMA ReorganizeEffect ==
    ASSUME Inv, Reorganize
    PROVE  /\ stage = "reorganize" /\ stage' = "tip" /\ job' = job
           /\ ChainValid(job.hash)
           /\ Main' = Chain[job.hash]
           /\ \A h \in Hashes : \/ h \in Pushed /\ status'[h] = MainChain
                                \/ h \in Popped /\ h \notin Pushed /\ status[h] = MainChain /\ status'[h] = Block
                                \/ h \notin Pushed /\ status'[h] = status[h]
           /\ \A h \in Hashes : dbblock[h] # None <=> dbblock'[h] # None
           /\ \A h \in Hashes : dbblock[h] # None =>
                 /\ dbblock'[h].work = dbblock[h].work
                 /\ dbblock'[h].linked = dbblock[h].linked
                 /\ dbblock'[h].stored = dbblock[h].stored
           /\ UncleFlags' = UnclesOf(Chain[job.hash])
<1>1. stage = "reorganize" /\ stage' = "tip" /\ job' = job /\ Aborted = {} /\ Readable
  BY DEF Reorganize, memory
<1>2. /\ ChainValid(job.hash) /\ job.hash \in Hashes
      /\ Pushed = Chain[job.hash] \ Main /\ Popped \subseteq Main
      /\ Main \ Popped = Main \cap Chain[job.hash]
  BY <1>1, CommittedIsValid, ReorganizeChains
<1>3. /\ status \in [Hashes -> Statuses]
      /\ dbblock \in [Hashes -> DBBlocks \cup {None}]
  BY DEF Inv, TypeInv, TypeOK
<1>4. \A h \in Hashes : status'[h] = IF h \in Pushed THEN MainChain
                                     ELSE IF h \in Popped THEN Block ELSE status[h]
  BY DEF Reorganize
<1>5. Pushed \subseteq Hashes
  BY <1>2, ChainType
<1>6. Main' = Chain[job.hash]
  BY <1>2, <1>4, <1>5 DEF Main
<1>7. ASSUME NEW h \in Hashes, dbblock[h] # None
      PROVE  /\ dbblock'[h] \in DBBlocks
             /\ dbblock'[h].uncle = Flagged(h)
             /\ dbblock'[h].work = dbblock[h].work
             /\ dbblock'[h].linked = dbblock[h].linked
             /\ dbblock'[h].stored = dbblock[h].stored
  <2>1. dbblock'[h] = [dbblock[h] EXCEPT !.uncle = Flagged(h)] /\ dbblock[h] \in DBBlocks
    BY <1>3, <1>7 DEF Reorganize
  <2>2. Flagged(h) \in BOOLEAN
    BY DEF Flagged
  <2> QED
    BY <2>1, <2>2 DEF DBBlocks
<1>8. \A h \in Hashes : dbblock[h] # None <=> dbblock'[h] # None
  <2>1. \A h \in Hashes : dbblock[h] = None => dbblock'[h] = None
    BY DEF Reorganize
  <2> QED
    BY <1>7, <2>1, NoneIsNoValue
<1>9. UncleFlags' = UnclesOf(Chain[job.hash])
  <2>1. UnclesOf(Pushed \cup Popped) \subseteq {h \in Hashes : dbblock[h] # None}
    <3>1. Checked = Pushed
      <4>1. \A p \in Pushed : Height[p] <= Height[p]
        BY <1>5, ChainType
      <4> QED
        BY <1>1, <4>1 DEF Aborted, Checked, PushedBefore
    <3>2. Pushed \cup Popped \subseteq Hashes
      BY <1>2, <1>5 DEF Main
    <3> QED
      BY <1>1, <3>1, <3>2, Tree DEF TreeAssumption, Readable, UnclesOf
  <2>2. \A h \in Hashes : h \in UncleFlags' <=>
           dbblock[h] # None /\ (h \in UnclesOf(Pushed) \/ (h \in UncleFlags /\ h \notin UnclesOf(Popped)))
    BY <1>7, <1>8 DEF UncleFlags, Flagged
  <2>3. UncleFlags \ UnclesOf(Popped) = UnclesOf(Main \ Popped)
    <3>1. ASSUME NEW a \in Main, NEW b \in Main, a # b
          PROVE  Uncles[a] \cap Uncles[b] = {}
      <4>1. /\ blockTip.hash \in Hashes /\ Main = Chain[blockTip.hash]
            /\ ChainValid(blockTip.hash)
        BY <1>1, ReorganizeChains, ChainType DEF Inv, FlagInv
      <4> QED
        BY <3>1, <4>1, UnclesDiffer
    <3> QED
      BY <1>2, <3>1 DEF Inv, FlagInv, UnclesOf
  <2>4. UncleFlags' \subseteq Hashes /\ UnclesOf(Chain[job.hash]) \subseteq Hashes
    BY <1>2, ChainType, Tree DEF TreeAssumption, UncleFlags, UnclesOf
  <2>5. UnclesOf(Chain[job.hash]) = UnclesOf(Pushed) \cup UnclesOf(Main \ Popped)
    BY <1>2 DEF UnclesOf
  <2>6. UncleFlags \subseteq {h \in Hashes : dbblock[h] # None}
    BY DEF UncleFlags
  <2>7. UnclesOf(Pushed) \subseteq {h \in Hashes : dbblock[h] # None}
    BY <2>1 DEF UnclesOf
  <2> QED
    BY <2>2, <2>3, <2>4, <2>5, <2>6, <2>7
<1>10. \A h \in Popped : status[h] = MainChain
  BY <1>2 DEF Main
<1> QED
  BY <1>1, <1>2, <1>4, <1>6, <1>7, <1>8, <1>9, <1>10

LEMMA ReorganizeInv ==
    ASSUME Inv, Reorganize
    PROVE  VerdictInv' /\ JobInv' /\ FlagInv'
<1>1. /\ job.hash \in Hashes /\ AcceptedChain(job.hash)
      /\ Pushed = Chain[job.hash] \ Main
      /\ Genesis \in Main
  BY ReorganizeEffect, ReorganizeChains, GenesisInChain
<1>2. stage' = "tip"
  BY ReorganizeEffect
<1>3. JobInv'
  BY <1>2 DEF JobInv
<1>4. FlagInv'
  <2>1. UncleFlags' = UnclesOf(Main)'
    BY ReorganizeEffect DEF UnclesOf
  <2>2. \A h \in Main' : ChainValid(h)
    BY <1>1, ReorganizeEffect, ChainValidParts
  <2> QED
    BY <1>2, <2>1, <2>2 DEF FlagInv, UnclesOf
<1>5. \A h \in Hashes : UnclesMet(h) => UnclesMet(h)'
  <2>1. \A u \in Hashes : status[u] \notin {Nothing, Rejected} => status'[u] \notin {Nothing, Rejected}
    BY ReorganizeEffect
  <2>2. \A u \in Hashes : dbblock[u] # None => dbblock'[u] # None
    BY ReorganizeEffect
  <2> QED
    BY <2>1, <2>2, MetStaysMet
<1>6. \A a \in Hashes : \/ status'[a] = status[a]
                        \/ status'[a] >= Block
  BY ReorganizeEffect
<1>7. \A h \in Hashes : AcceptedChain(h) => AcceptedChain(h)'
  BY <1>5, <1>6, ChainType DEF AcceptedChain
<1>8. ASSUME NEW h \in Hashes, status'[h] >= Block
      PROVE  AcceptedChain(h)
  <2>1. CASE h \in Pushed
    BY <1>1, <2>1, AncestorFacts DEF AcceptedChain
  <2>2. CASE h \notin Pushed
    <3>1. status[h] >= Block
      BY <1>8, <2>2, ReorganizeEffect
    <3> QED
      BY <3>1 DEF Inv, VerdictInv
  <2> QED
    BY <2>1, <2>2
<1>9. ASSUME NEW h \in Hashes \ {Genesis}
      PROVE  /\ status'[h] \notin {Nothing, Rejected} => h \in HeaderValid
             /\ status'[h] = Rejected => h \notin HeaderValid
             /\ dbblock'[h] # None => status'[h] # Nothing
  <2>1. CASE h \in Pushed
    <3>1. Vetted(h) /\ status'[h] = MainChain
      BY <1>1, <2>1, ReorganizeEffect DEF AcceptedChain
    <3> QED
      BY <3>1 DEF Vetted
  <2>2. CASE h \notin Pushed
    BY <2>2, ReorganizeEffect DEF Inv, VerdictInv
  <2> QED
    BY <2>1, <2>2
<1>10. VerdictInv'
  <2>1. Genesis \notin Popped /\ Genesis \notin Pushed
    BY <1>1, ReorganizeEffect, ReorganizeChains, GenesisInChain
  <2>2. status'[Genesis] = status[Genesis]
    BY <2>1, ReorganizeEffect, Tree DEF TreeAssumption
  <2> QED
    BY <1>7, <1>8, <1>9, <2>2 DEF Inv, VerdictInv
<1> QED
  BY <1>3, <1>4, <1>10

LEMMA AbortInv ==
    ASSUME Inv, AbortReorganize
    PROVE  VerdictInv' /\ JobInv' /\ FlagInv'
<1>1. /\ stage = "reorganize" /\ stage' = "idle" /\ dbblock' = dbblock
      /\ \A h \in Hashes : status'[h] = IF h \in Aborted THEN InvalidBlock ELSE status[h]
      /\ status \in [Hashes -> Statuses]
  BY DEF AbortReorganize, Inv, TypeInv, TypeOK
<1>2. JobInv'
  BY <1>1 DEF JobInv
<1>3. \A p \in Aborted : /\ ~ChainValid(p) /\ p \in Hashes \ {Genesis} /\ p \notin Main
                         /\ p \in HeaderValid /\ status[p] \in {InvalidBlock, Block}
  BY <1>1, AbortedIsInvalid
<1>4. FlagInv'
  <2>1. Main' = Main
    BY <1>1, <1>3 DEF Main
  <2>2. UncleFlags' = UncleFlags
    BY <1>1 DEF UncleFlags
  <2> QED
    BY <1>1, <2>1, <2>2 DEF Inv, FlagInv, UnclesOf
<1>5. \A h \in Hashes : UnclesMet(h) => UnclesMet(h)'
  BY <1>1, MetStaysMet
<1>6. \A h \in Hashes : AcceptedChain(h) => AcceptedChain(h)'
  BY <1>1, <1>3, <1>5, ChainType DEF AcceptedChain
<1>7. VerdictInv'
  <2>1. status'[Genesis] = status[Genesis]
    BY <1>1, <1>3, Tree DEF TreeAssumption
  <2> QED
    BY <1>1, <1>3, <1>6, <2>1 DEF Inv, VerdictInv
<1> QED
  BY <1>2, <1>4, <1>7

\* Steps that leave statuses and DBBlocks alone.
LEMMA QuietInv ==
    ASSUME Inv, UNCHANGED <<status, dbblock>>, JobInv',
           stage' \in {"status", "dbblock"} /\ job'.db # None =>
              (job'.db.uncle <=> job'.hash \in UncleFlags)
    PROVE  VerdictInv' /\ JobInv' /\ FlagInv'
<1>1. VerdictInv'
  BY DEF Inv, VerdictInv, AcceptedChain, UnclesMet
<1>2. Main' = Main /\ UncleFlags' = UncleFlags
  BY DEF Main, UncleFlags
<1>3. FlagInv'
  BY <1>2 DEF Inv, FlagInv, UnclesOf
<1> QED
  BY <1>1, <1>3

LEMMA NextInv ==
    ASSUME Inv, [Next]_vars
    PROVE  Inv'
<1>1. TypeInv' /\ MainInv'
  BY NextType, NextMain DEF Inv
<1>2. CASE \E h \in Hashes, body \in Bodies : Process(h, body)
  <2>1. PICK h \in Hashes, body \in Bodies : Process(h, body)
    BY <1>2
  <2>2. UNCHANGED <<status, dbblock>>
    BY <2>1, ProcessVerdict
  <2>3. UnclesMet(h) => UnclesMet(h)'
    BY <2>2 DEF UnclesMet
  <2>4. JobInv'
    BY <2>1, <2>2, <2>3, ProcessVerdict DEF JobInv
  <2> QED
    BY <1>1, <2>1, <2>2, <2>4, ProcessVerdict, QuietInv DEF Inv
<1>3. CASE FinishPut
  <2>1. CASE WriteStatus
    BY <1>1, <2>1, WriteStatusInv DEF Inv
  <2>2. CASE WriteDBBlock
    BY <1>1, <2>2, WriteDBBlockInv DEF Inv
  <2>3. CASE Reorganize
    BY <1>1, <2>3, ReorganizeInv DEF Inv
  <2>4. CASE AbortReorganize
    BY <1>1, <2>4, AbortInv DEF Inv
  <2>5. CASE AdvanceHeaderTip \/ KeepHeaderTip
    <3>1. /\ UNCHANGED <<status, dbblock>> /\ stage = "headerTip"
          /\ \/ stage' = "reorganize" /\ job' = job /\ job.new >= Block
             \/ stage' = "idle"
      BY <2>5 DEF AdvanceHeaderTip, KeepHeaderTip, AfterHeaderTip, disk
    <3>2. JobInv'
      BY <3>1 DEF Inv, JobInv
    <3> QED
      BY <1>1, <3>1, <3>2, QuietInv DEF Inv
  <2>6. CASE FailReorganize \/ AdvanceBlockTip
    <3>1. UNCHANGED <<status, dbblock>> /\ stage' = "idle"
      BY <2>6 DEF FailReorganize, AdvanceBlockTip, disk
    <3>2. JobInv'
      BY <3>1 DEF JobInv
    <3> QED
      BY <1>1, <3>1, <3>2, QuietInv DEF Inv
  <2> QED
    BY <1>3, <2>1, <2>2, <2>3, <2>4, <2>5, <2>6 DEF FinishPut
<1>4. CASE Crash
  <2>1. UNCHANGED <<status, dbblock>> /\ stage' = "down"
    BY <1>4 DEF Crash, disk
  <2>2. JobInv'
    BY <2>1 DEF JobInv
  <2> QED
    BY <1>1, <2>1, <2>2, QuietInv DEF Inv
<1>5. CASE UNCHANGED vars
  <2>1. UNCHANGED <<status, dbblock, stage, job>>
    BY <1>5 DEF vars, disk
  <2>2. JobInv'
    BY <2>1 DEF Inv, JobInv, Vetted, UnclesMet
  <2> QED
    BY <1>1, <2>1, <2>2, QuietInv DEF Inv, FlagInv
<1> QED
  BY <1>1, <1>2, <1>3, <1>4, <1>5, StartInv DEF Inv, Next, Run

LEMMA Safe == Spec => []Inv
  BY InitInv, NextInv, PTL DEF Spec

-----------------------------------------------------------------------------
(***************************************************************************)
(* What readers of the store may rely on.                                  *)
(***************************************************************************)

\* Whatever is popped, pushed, aborted or interrupted, a block carries the uncle
\* flag exactly while a main chain block rewards it, and none of the main chain does.
THEOREM FlagsCorrect == Spec => []UncleFlagsFollowMainChain
<1>1. Inv => UncleFlagsFollowMainChain
  <2> SUFFICES ASSUME Inv PROVE UncleFlags \cap Main = {}
    BY DEF Inv, FlagInv, UncleFlagsFollowMainChain
  <2>1. CASE Opened
    <3>1. diskTip \in Hashes /\ Main = Chain[diskTip]
      BY <2>1 DEF Inv, MainInv, TypeInv, TypeOK, Opened
    <3>2. ChainValid(diskTip)
      BY <3>1, ChainType DEF Inv, FlagInv
    <3> QED
      BY <3>1, <3>2, UnclesOffChain DEF Inv, FlagInv
  <2>2. CASE ~Opened
    BY <2>2, Tree DEF TreeAssumption, Inv, MainInv, FlagInv, UnclesOf
  <2> QED
    BY <2>1, <2>2
<1> QED
  BY <1>1, Safe, PTL

\* The main chain passes the rules of its own chain: nothing is taken over that a
\* node with another history would refuse.
THEOREM MainChainOnlyValid == Spec => []MainChainIsValid
<1>1. Inv => MainChainIsValid
  BY DEF Inv, FlagInv, MainChainIsValid
<1> QED
  BY <1>1, Safe, PTL

\* A rejected header stays rejected, a condemned block never becomes anything else,
\* though reorganizations walk through it again.
THEOREM VerdictsFinal == Spec => VerdictsAreFinal
<1>1. Inv /\ [Next]_vars =>
        [\A h \in Hashes : status[h] \in {Rejected, InvalidBlock} => status'[h] = status[h]]_status
  <2> SUFFICES ASSUME Inv, Next, NEW h \in Hashes, status[h] \in {Rejected, InvalidBlock}
               PROVE  status'[h] = status[h]
    BY DEF vars, disk
  <2>1. status \in [Hashes -> Statuses]
    BY DEF Inv, TypeInv, TypeOK
  <2>2. CASE WriteStatus
    <3>1. status[job.hash] \in {Nothing, Header}
      BY <2>2 DEF WriteStatus, Inv, JobInv
    <3> QED
      BY <2>1, <2>2, <3>1 DEF WriteStatus
  <2>3. CASE Reorganize
    <3>1. h \notin Pushed
      <4>1. SUFFICES ASSUME h \in Pushed PROVE FALSE
        OBVIOUS
      <4>2. stage = "reorganize" /\ ChainValid(job.hash) /\ job.hash \in Hashes
        BY <2>3, ReorganizeEffect, ReorganizeChains
      <4>3. ChainValid(h)
        BY <4>1, <4>2, MainBeforePush, ChainValidParts
      <4> QED
        BY <4>1, <4>2, <4>3, UnclesValidIsOfChain
    <3> QED
      BY <2>3, <3>1, ReorganizeEffect
  <2>4. CASE AbortReorganize
    <3>1. stage = "reorganize"
      BY <2>4 DEF AbortReorganize
    <3>2. h \in Aborted => status[h] = InvalidBlock
      BY <3>1, AbortedIsInvalid
    <3> QED
      BY <2>4, <3>2 DEF AbortReorganize
  <2>5. CASE WriteExodusStatus
    <3>1. h # Genesis
      BY DEF Inv, VerdictInv
    <3> QED
      BY <2>1, <2>5, <3>1 DEF WriteExodusStatus
  <2>6. WriteStatus \/ Reorganize \/ AbortReorganize \/ WriteExodusStatus \/ UNCHANGED status
    <3>1. \A k \in Hashes, body \in Bodies : Process(k, body) => UNCHANGED status
      BY ProcessVerdict
    <3>2. Start => WriteExodusStatus \/ UNCHANGED status
      BY DEF Start, Restart, FirstStart, WriteExodus, WriteExodusDBBlock, WriteExodusHeight,
         WriteExodusHeaderTip, WriteExodusBlockTip, disk
    <3>3. FinishPut => WriteStatus \/ Reorganize \/ AbortReorganize \/ UNCHANGED status
      BY DEF FinishPut, WriteDBBlock, AdvanceHeaderTip, KeepHeaderTip, FailReorganize,
         AdvanceBlockTip, disk
    <3>4. Crash => UNCHANGED status
      BY DEF Crash, disk
    <3> QED
      BY <3>1, <3>2, <3>3, <3>4 DEF Next, Run
  <2> QED
    BY <2>2, <2>3, <2>4, <2>5, <2>6
<1> QED
  BY <1>1, Safe, PTL DEF Spec, VerdictsAreFinal

\* The height index: complete before the tip key is there for the first time.
HeightInv ==
    /\ Opened => \A h \in Main : hashAt[Height[h]] = h
    /\ stage \in {"exodusHeaderTip", "exodusBlockTip"} => hashAt[0] = Genesis

LEMMA NextHeights ==
    ASSUME Inv, HeightInv, [Next]_vars
    PROVE  HeightInv'
<1>1. /\ hashAt \in [Heights -> Hashes \cup {None}]
      /\ 0 \in Heights /\ \A h \in Hashes : Height[h] \in Heights
      /\ Height[Genesis] = 0 /\ Genesis \in Hashes
      /\ \A h \in Main : h \in Hashes
  BY HeightsType, Tree DEF TreeAssumption, Inv, TypeInv, TypeOK, Main
<1>2. CASE Reorganize
  <2>1. /\ stage' = "tip" /\ Main' = Chain[job.hash] /\ job.hash \in Hashes
        /\ Pushed = Chain[job.hash] \ Main /\ Opened
        /\ Main \ Popped = Main \cap Chain[job.hash]
    BY <1>2, ReorganizeEffect, ReorganizeChains
  <2>2. \A h \in Chain[job.hash] : h \in Hashes /\ Height[h] \in Nat
    BY <2>1, AncestorFacts
  <2>3. \A p, q \in Chain[job.hash] : Height[p] = Height[q] => p = q
    <3>1. ASSUME NEW p \in Chain[job.hash], NEW q \in Chain[job.hash], p # q
          PROVE  Height[p] # Height[q]
      <4>1. p \in Ancestors(q) \/ q \in Ancestors(p)
        BY <2>1, <3>1, AncestorOrder
      <4> QED
        BY <2>2, <3>1, <4>1, ChainHeight DEF Ancestors
    <3> QED
      BY <3>1
  <2>4. ASSUME NEW h \in Chain[job.hash]
        PROVE  hashAt'[Height[h]] = h
    <3>1. hashAt'[Height[h]] = IF PushedAt(Height[h]) = {} THEN hashAt[Height[h]]
                               ELSE CHOOSE p \in PushedAt(Height[h]) : TRUE
      BY <1>1, <1>2, <2>2 DEF Reorganize
    <3>2. CASE h \in Pushed
      <4>1. PushedAt(Height[h]) = {h}
        BY <2>1, <2>3, <3>2 DEF PushedAt
      <4> QED
        BY <3>1, <4>1
    <3>3. CASE h \notin Pushed
      <4>1. h \in Main
        BY <2>1, <3>3
      <4>2. PushedAt(Height[h]) = {}
        BY <2>1, <2>3, <3>3 DEF PushedAt
      <4> QED
        BY <2>1, <3>1, <4>1, <4>2 DEF HeightInv
    <3> QED
      BY <3>2, <3>3
  <2> QED
    BY <2>1, <2>4 DEF HeightInv
<1>3. CASE UNCHANGED <<Main, hashAt, diskTip>>
           /\ (stage' \in {"exodusHeaderTip", "exodusBlockTip"} => stage' = stage)
  BY <1>3 DEF HeightInv, Opened
<1>4. CASE Start
  <2>1. CASE WriteExodusHeight
    BY <1>1, <2>1 DEF WriteExodusHeight, HeightInv, Inv, MainInv, Opened, ExodusStages
  <2>2. CASE WriteExodusHeaderTip
    BY <2>2 DEF WriteExodusHeaderTip, HeightInv, Inv, MainInv, Opened, ExodusStages
  <2>3. CASE WriteExodusBlockTip
    <3>1. Main' = Main /\ Main \subseteq {Genesis} /\ hashAt' = hashAt /\ hashAt[0] = Genesis
          /\ stage' = "idle"
      BY <2>3 DEF WriteExodusBlockTip, HeightInv, Inv, MainInv, Opened, ExodusStages, Main
    <3> QED
      BY <1>1, <3>1 DEF HeightInv
  <2>4. CASE WriteExodusStatus
    BY <2>4 DEF WriteExodusStatus, HeightInv, Inv, MainInv, Opened, ExodusStages
  <2>5. CASE Restart \/ FirstStart \/ WriteExodusDBBlock
    BY <1>3, <2>5 DEF Restart, FirstStart, WriteExodusDBBlock, disk, Main
  <2> QED
    BY <1>4, <2>1, <2>2, <2>3, <2>4, <2>5 DEF Start, WriteExodus
<1>5. CASE WriteStatus
  <2>1. Main' = Main
    <3>1. job.hash \notin Main /\ job.new # MainChain /\ status \in [Hashes -> Statuses]
      BY <1>5 DEF WriteStatus, Inv, MainInv, TypeInv, TypeOK
    <3> QED
      BY <1>5, <3>1 DEF WriteStatus, Main
  <2> QED
    BY <1>3, <1>5, <2>1 DEF WriteStatus
<1>6. CASE AbortReorganize
  <2>1. Main' = Main
    <3>1. \A p \in Aborted : p \notin Main
      BY <1>6, AbortedIsInvalid DEF AbortReorganize
    <3> QED
      BY <1>6, <3>1 DEF AbortReorganize, Main
  <2> QED
    BY <1>3, <1>6, <2>1 DEF AbortReorganize
<1>7. CASE \E h \in Hashes, body \in Bodies : Process(h, body)
  <2>1. UNCHANGED disk /\ stage' = "status"
    BY <1>7, ProcessType DEF Inv
  <2> QED
    BY <1>3, <2>1 DEF disk, Main
<1>8. CASE WriteDBBlock \/ AdvanceHeaderTip \/ KeepHeaderTip \/ FailReorganize \/ AdvanceBlockTip
  BY <1>3, <1>8 DEF WriteDBBlock, AdvanceHeaderTip, KeepHeaderTip, AfterHeaderTip, FailReorganize,
     AdvanceBlockTip, disk, Main
<1>9. CASE Crash \/ UNCHANGED vars
  BY <1>3, <1>9 DEF Crash, vars, disk, Main
<1> QED
  BY <1>2, <1>4, <1>5, <1>6, <1>7, <1>8, <1>9 DEF Next, Run, FinishPut

\* The hash at a main chain block's height is that block: a reorganization to a
\* chain of any length leaves no entry of the abandoned branch below the new tip.
THEOREM HeightIndexCorrect == Spec => []HeightIndexFollowsMainChain
<1>1. Init => HeightInv
  BY DEF Init, HeightInv, Opened
<1>2. Inv /\ HeightInv /\ [Next]_vars => HeightInv'
  BY NextHeights
<1>3. HeightInv => HeightIndexFollowsMainChain
  BY DEF HeightInv, HeightIndexFollowsMainChain
<1> QED
  BY <1>1, <1>2, <1>3, Safe, PTL DEF Spec

-----------------------------------------------------------------------------
(***************************************************************************)
(* The store implements the abstract fork choice.                          *)
(***************************************************************************)

\* Under Ghost the work of a block's uncles is added when the block is processed,
\* so what a descendant starts from depends on the order of arrival.  A total work
\* is the chain's where no Ghost block rewards an uncle.
NoGhostUncleWork == \A h \in Hashes : IsGhost(h) => UncleWork[h] = 0

WorkInv ==
    /\ \A h \in Hashes : dbblock[h] # None => dbblock[h].work = ChainWork[h]
    /\ stage \in RunStages \ {"idle"} /\ job.db # None => job.db.work = ChainWork[job.hash]
    /\ stage \in ExodusStages \cup RunStages => blockTip.work = ChainWork[blockTip.hash]
    /\ stage = "reorganize" => job.db.work > blockTip.work

LEMMA ProcessWork ==
    ASSUME NoGhostUncleWork, Inv, WorkInv, NEW h \in Hashes, NEW body \in Bodies, Process(h, body)
    PROVE  job'.db # None => job'.db.work = ChainWork[h]
<1>1. /\ h # Genesis /\ Prev[h] \in Hashes /\ dbblock[Prev[h]] # None
      /\ dbblock[h] \in DBBlocks \cup {None} /\ dbblock[Prev[h]] \in DBBlocks
      /\ status[h] \in {Nothing, Header}
  <2>1. CanProcess(h)
    BY DEF Process, RejectHeader, AcceptHeader, AwaitUncles, RejectUncles,
       RejectDifficulty, IgnoreBody, RejectTxs, AcceptBlock, UnclesProcessed, CanProcessBlock
  <2> QED
    BY <2>1, Tree DEF TreeAssumption, CanProcess, Inv, TypeInv, TypeOK
<1>2. NewDBBlock(h).work = ChainWork[h] /\ NewDBBlock(h) \in DBBlocks
  BY <1>1, Works DEF WorkAssumption, NewDBBlock, WorkInv, DBBlocks
<1>3. ResultDBBlock(h) # None => ResultDBBlock(h) \in DBBlocks /\ ResultDBBlock(h).work = ChainWork[h]
  BY <1>1, <1>2 DEF ResultDBBlock, WorkInv
<1>4. ResultDBBlock(h) # None => LinkedDBBlock(h).work = ChainWork[h]
  BY <1>3 DEF LinkedDBBlock, DBBlocks
<1>5. ResultDBBlock(h) # None => StoredDBBlock(h).work = ChainWork[h]
  <2>1. IsGhost(h) => UncleWork[h] = 0
    BY DEF NoGhostUncleWork
  <2>2. ChainWork[h] \in Nat
    BY Works DEF WorkAssumption
  <2> QED
    BY <1>3, <2>1, <2>2 DEF StoredDBBlock
<1>6. \E db \in {None, NewDBBlock(h), ResultDBBlock(h), LinkedDBBlock(h), StoredDBBlock(h)} :
         /\ job'.db = db
         /\ db \in {LinkedDBBlock(h), StoredDBBlock(h)} => ResultDBBlock(h) # None
                                                           \/ db \in {NewDBBlock(h), ResultDBBlock(h)}
  BY DEF Process, RejectHeader, AcceptHeader, AwaitUncles, RejectUncles, RejectDifficulty,
     IgnoreBody, RejectTxs, AcceptBlock, UnclesProcessed, Finish
<1> QED
  BY <1>2, <1>3, <1>4, <1>5, <1>6

LEMMA NextWork ==
    ASSUME NoGhostUncleWork, Inv, WorkInv, [Next]_vars
    PROVE  WorkInv'
<1>1. /\ Genesis \in Hashes /\ ChainWork[Genesis] = 0
      /\ job.hash \in Hashes /\ job.db \in DBBlocks \cup {None}
      /\ dbblock \in [Hashes -> DBBlocks \cup {None}]
      /\ diskTip \in Hashes \cup {None}
  BY Tree, Works DEF TreeAssumption, WorkAssumption, Inv, TypeInv, TypeOK, Jobs
<1>2. CASE Restart
  <2>1. dbblock[diskTip] # None /\ diskTip \in Hashes
    BY <1>1, <1>2 DEF Restart, Inv, TypeInv, Readability
  <2> QED
    BY <1>2, <2>1 DEF Restart, TipFromDisk, WorkInv, disk, RunStages
<1>3. CASE FirstStart
  BY <1>3 DEF FirstStart, WorkInv, disk, memory, tips, RunStages, ExodusStages
<1>4. CASE WriteExodusDBBlock
  <2>1. dbblock'[Genesis].work = 0 /\ \A h \in Hashes \ {Genesis} : dbblock'[h] = dbblock[h]
    BY <1>1, <1>4 DEF WriteExodusDBBlock, ExodusDBBlock
  <2> QED
    BY <1>1, <1>4, <2>1 DEF WriteExodusDBBlock, WorkInv, RunStages
<1>5. CASE WriteExodusStatus \/ WriteExodusHeight \/ WriteExodusHeaderTip \/ WriteExodusBlockTip
  BY <1>5 DEF WriteExodusStatus, WriteExodusHeight, WriteExodusHeaderTip, WriteExodusBlockTip,
     WorkInv, memory, tips, RunStages, ExodusStages
<1>6. CASE \E h \in Hashes, body \in Bodies : Process(h, body)
  <2>1. PICK h \in Hashes, body \in Bodies : Process(h, body)
    BY <1>6
  <2>2. /\ stage = "idle" /\ stage' = "status" /\ job'.hash = h
        /\ UNCHANGED <<dbblock, blockTip>>
    BY <2>1, ProcessType DEF disk, tips, Inv
  <2>3. job'.db # None => job'.db.work = ChainWork[h]
    BY <2>1, ProcessWork
  <2> QED
    BY <2>2, <2>3 DEF WorkInv, RunStages
<1>7. CASE WriteStatus
  BY <1>7 DEF WriteStatus, WorkInv, memory, tips, RunStages, ExodusStages
<1>8. CASE WriteDBBlock
  <2>1. /\ job.db # None /\ dbblock'[job.hash] = job.db
        /\ \A h \in Hashes \ {job.hash} : dbblock'[h] = dbblock[h]
    BY <1>1, <1>8 DEF WriteDBBlock, Inv, TypeInv, Readability, DBBlockStages
  <2> QED
    BY <1>1, <1>8, <2>1 DEF WriteDBBlock, WorkInv, memory, tips, RunStages, ExodusStages
<1>9. CASE AdvanceHeaderTip \/ KeepHeaderTip
  <2>1. /\ UNCHANGED <<dbblock, blockTip>> /\ stage = "headerTip"
        /\ \/ stage' = "reorganize" /\ job' = job /\ job.db.work > blockTip.work
           \/ stage' = "idle"
    BY <1>9 DEF AdvanceHeaderTip, KeepHeaderTip, AfterHeaderTip, ForkChoice, disk, memory, tips
  <2> QED
    BY <2>1 DEF WorkInv, RunStages, ExodusStages
<1>10. CASE Reorganize
  <2>1. stage = "reorganize" /\ stage' = "tip" /\ job' = job /\ blockTip' = blockTip
    BY <1>10 DEF Reorganize, memory, tips
  <2> QED
    BY <1>10, <2>1, ReorganizeEffect DEF WorkInv, RunStages
<1>11. CASE AbortReorganize \/ FailReorganize
  BY <1>11 DEF AbortReorganize, FailReorganize, WorkInv, disk, memory, tips, RunStages
<1>12. CASE AdvanceBlockTip
  <2>1. job.db # None
    BY <1>12 DEF AdvanceBlockTip, Inv, TypeInv, Readability, DBBlockStages
  <2> QED
    BY <1>12, <2>1 DEF AdvanceBlockTip, JobTip, WorkInv, disk, RunStages
<1>13. CASE Crash
  BY <1>13 DEF Crash, WorkInv, disk, RunStages, ExodusStages
<1>14. CASE UNCHANGED vars
  BY <1>14 DEF vars, WorkInv, disk, memory, tips
<1> QED
  BY <1>2, <1>3, <1>4, <1>5, <1>6, <1>7, <1>8, <1>9, <1>10, <1>11, <1>12, <1>13, <1>14
     DEF Next, Run, Start, WriteExodus, FinishPut

TipSet == IF diskTip = None THEN {} ELSE {diskTip}

\* Only three steps are seen by a reader: the exodus block's status, its tip key,
\* and the batch of a reorganization.
LEMMA VisibleSteps ==
    ASSUME Inv, [Next]_vars
    PROVE  \/ Main = {} /\ Main' = {Genesis} /\ UNCHANGED TipSet
           \/ Main = {Genesis} /\ TipSet = {} /\ TipSet' = {Genesis} /\ UNCHANGED Main
           \/ /\ stage = "reorganize" /\ job.hash \in Hashes /\ ChainValid(job.hash)
              /\ Opened /\ blockTip.hash = diskTip
              /\ Main' = Chain[job.hash] /\ diskTip' = job.hash
           \/ UNCHANGED <<Main, TipSet>>
<1>1. CASE Reorganize
  BY <1>1, ReorganizeEffect, ReorganizeChains DEF Reorganize, Inv, MainInv, RunStages
<1>2. CASE WriteExodusStatus
  <2>1. Main \subseteq {Genesis} /\ Main' = {Genesis} /\ diskTip' = diskTip
    BY <1>2, Tree DEF TreeAssumption, WriteExodusStatus, Inv, MainInv, TypeInv, TypeOK, Main, ExodusStages
  <2> QED
    BY <2>1 DEF TipSet
<1>3. CASE WriteExodusBlockTip
  <2>1. Main = {Genesis} /\ Main' = Main /\ diskTip = None /\ diskTip' = Genesis
    BY <1>3 DEF WriteExodusBlockTip, Inv, MainInv, Opened, Main, ExodusStages
  <2>2. Genesis # None
    BY Tree, NoneIsNoValue DEF TreeAssumption
  <2> QED
    BY <2>1, <2>2 DEF TipSet
<1>4. CASE WriteStatus
  <2>1. job.hash \notin Main /\ job.new # MainChain /\ status \in [Hashes -> Statuses]
    BY <1>4 DEF WriteStatus, Inv, MainInv, TypeInv, TypeOK
  <2> QED
    BY <1>4, <2>1 DEF WriteStatus, Main, TipSet
<1>5. CASE AbortReorganize
  <2>1. \A p \in Aborted : p \notin Main
    BY <1>5, AbortedIsInvalid DEF AbortReorganize
  <2> QED
    BY <1>5, <2>1 DEF AbortReorganize, Main, TipSet
<1>6. UNCHANGED <<status, diskTip>> => UNCHANGED <<Main, TipSet>>
  BY DEF Main, TipSet
<1>7. CASE \E h \in Hashes, body \in Bodies : Process(h, body)
  BY <1>6, <1>7, ProcessType DEF Inv, disk
<1>8. CASE WriteDBBlock \/ AdvanceHeaderTip \/ KeepHeaderTip \/ FailReorganize \/ AdvanceBlockTip
  BY <1>6, <1>8 DEF WriteDBBlock, AdvanceHeaderTip, KeepHeaderTip, FailReorganize, AdvanceBlockTip, disk
<1>9. CASE Restart \/ FirstStart \/ WriteExodusDBBlock \/ WriteExodusHeight \/ WriteExodusHeaderTip
  BY <1>6, <1>9 DEF Restart, FirstStart, WriteExodusDBBlock, WriteExodusHeight, WriteExodusHeaderTip, disk
<1>10. CASE Crash \/ UNCHANGED vars
  BY <1>6, <1>10 DEF Crash, vars, disk
<1> QED
  BY <1>1, <1>2, <1>3, <1>4, <1>5, <1>7, <1>8, <1>9, <1>10 DEF Next, Run, Start, WriteExodus, FinishPut

LEMMA StepImplements ==
    ASSUME Inv, WorkInv, [Next]_vars
    PROVE  \/ Main = {} /\ Main' = {Genesis} /\ UNCHANGED TipSet
           \/ Main = {Genesis} /\ TipSet = {} /\ TipSet' = {Genesis} /\ UNCHANGED Main
           \/ \E h \in Hashes : /\ ChainValid(h)
                                /\ \E t \in TipSet : ChainWork[h] > ChainWork[t]
                                /\ Main' = Chain[h] /\ TipSet' = {h}
           \/ UNCHANGED <<Main, TipSet>>
<1>1. CASE /\ stage = "reorganize" /\ job.hash \in Hashes /\ ChainValid(job.hash)
           /\ Opened /\ blockTip.hash = diskTip
           /\ Main' = Chain[job.hash] /\ diskTip' = job.hash
  <2>1. job.hash # None
    BY <1>1, NoneIsNoValue
  <2>2. ChainWork[job.hash] > ChainWork[diskTip]
    BY <1>1 DEF WorkInv, Inv, TypeInv, Readability, DBBlockStages, RunStages
  <2> QED
    BY <1>1, <2>1, <2>2 DEF TipSet, Opened
<1> QED
  BY <1>1, VisibleSteps

\* Readers of the store see a main chain that is only ever replaced, in one step, by
\* the complete chain of a heavier valid block, wherever the process dies.
THEOREM StoreImplementsForkChoice ==
    ASSUME NoGhostUncleWork
    PROVE  Spec => ImplementsForkChoice
<1>1. Init => WorkInv
  BY DEF Init, WorkInv, RunStages, ExodusStages
<1>2. Inv /\ WorkInv /\ [Next]_vars => WorkInv'
  BY NextWork
<1>3. Init => MainChainStore!Init
  BY DEF Init, Main, MainChainStore!Init
<1>4. ASSUME Inv, WorkInv, [Next]_vars
      PROVE  [MainChainStore!Next]_MainChainStore!vars
  <2>1. \A h \in Hashes : ChainValid(h) => MainChainStore!ChainValid(h)
    BY DEF ChainValid, BlockValid, UnclesChainValid, TooOldUncles, Ancestors, IsGhost,
       MainChainStore!ChainValid, MainChainStore!BlockValid, MainChainStore!UnclesChainValid,
       MainChainStore!TooOldUncles, MainChainStore!Ancestors, MainChainStore!IsGhost
  <2>2. Main = {} /\ Main' = {Genesis} /\ UNCHANGED TipSet => MainChainStore!Found
    BY DEF MainChainStore!Found, TipSet
  <2>3. Main = {Genesis} /\ TipSet = {} /\ TipSet' = {Genesis} /\ UNCHANGED Main
           => MainChainStore!Open
    BY DEF MainChainStore!Open, TipSet
  <2>4. ASSUME NEW h \in Hashes, ChainValid(h), \E t \in TipSet : ChainWork[h] > ChainWork[t],
               Main' = Chain[h], TipSet' = {h}
        PROVE  MainChainStore!Adopt(h)
    BY <2>1, <2>4 DEF MainChainStore!Adopt, TipSet
  <2>5. UNCHANGED <<Main, TipSet>> => UNCHANGED MainChainStore!vars
    BY DEF MainChainStore!vars, TipSet
  <2> QED
    BY <1>4, StepImplements, <2>2, <2>3, <2>4, <2>5 DEF MainChainStore!Next
<1> QED
  BY <1>1, <1>2, <1>3, <1>4, Safe, PTL DEF Spec, ImplementsForkChoice, MainChainStore!Spec

-----------------------------------------------------------------------------
(***************************************************************************)
(* A job's DBBlock and verdict.                                            *)
(***************************************************************************)

\* What every outcome of process needs of its header.
LEMMA ProcessNeeds ==
    ASSUME Inv, NEW h \in Hashes, NEW body \in Bodies, Process(h, body)
    PROVE  /\ CanProcess(h) /\ h # Genesis /\ Prev[h] \in Hashes
           /\ status[h] \in {Nothing, Header}
           /\ dbblock[h] \in DBBlocks \cup {None} /\ dbblock[Prev[h]] \in DBBlocks
           /\ NewDBBlock(h) \in DBBlocks /\ NewDBBlock(h) # None
           /\ status[h] = Nothing => ResultDBBlock(h) = NewDBBlock(h)
           /\ status[h] = Header => ResultDBBlock(h) = dbblock[h]
           /\ ResultDBBlock(h) # None => /\ LinkedDBBlock(h) \in DBBlocks
                                         /\ StoredDBBlock(h) \in DBBlocks
<1>1. CanProcess(h)
  BY DEF Process, RejectHeader, AcceptHeader, AwaitUncles, RejectUncles,
     RejectDifficulty, IgnoreBody, RejectTxs, AcceptBlock, UnclesProcessed, CanProcessBlock
<1>2. /\ h # Genesis /\ Prev[h] \in Hashes /\ status[h] \in {Nothing, Header}
      /\ dbblock[h] \in DBBlocks \cup {None} /\ dbblock[Prev[h]] \in DBBlocks
  BY <1>1, Tree DEF TreeAssumption, CanProcess, Inv, TypeInv, TypeOK
<1>3. NewDBBlock(h) \in DBBlocks
  BY <1>2, Works DEF WorkAssumption, NewDBBlock, DBBlocks
<1>4. NewDBBlock(h) # None
  BY <1>3, NoneIsNoValue
<1>5. /\ status[h] = Nothing => ResultDBBlock(h) = NewDBBlock(h)
      /\ status[h] = Header => ResultDBBlock(h) = dbblock[h]
  BY DEF ResultDBBlock
<1>6. ResultDBBlock(h) # None => LinkedDBBlock(h) \in DBBlocks
  BY <1>2, <1>3, <1>5 DEF LinkedDBBlock, DBBlocks, IsGhost
<1>7. ResultDBBlock(h) # None => StoredDBBlock(h) \in DBBlocks
  <2>1. UncleWork[h] \in Nat
    BY Works DEF WorkAssumption
  <2> QED
    BY <1>2, <1>3, <1>5, <1>6, <2>1 DEF StoredDBBlock, DBBlocks
<1> QED
  BY <1>1, <1>2, <1>3, <1>4, <1>5, <1>6, <1>7

\* The five DBBlocks a job may carry.
LEMMA ProcessDBBlock ==
    ASSUME Inv, NEW h \in Hashes, NEW body \in Bodies, Process(h, body)
    PROVE  \/ job'.new = Rejected /\ job'.db = None
           \/ job'.new = Header /\ job'.db = NewDBBlock(h)
           \/ job'.new \in {Header, InvalidBlock} /\ job'.db = ResultDBBlock(h)
           \/ /\ job'.new \in {Header, InvalidBlock} /\ job'.db = LinkedDBBlock(h)
              /\ ResultDBBlock(h) # None
           \/ /\ job'.new = Block /\ job'.db = StoredDBBlock(h)
              /\ ResultDBBlock(h) # None
BY DEF Process, RejectHeader, AcceptHeader, AwaitUncles, RejectUncles, RejectDifficulty,
   IgnoreBody, RejectTxs, AcceptBlock, UnclesProcessed, Finish

\* What is known stays known, and keeps its DBBlock.
LEMMA KnownStaysKnown ==
    ASSUME Inv, [Next]_vars, NEW h \in Hashes
    PROVE  /\ status[h] \notin {Nothing, Rejected} => status'[h] \notin {Nothing, Rejected}
           /\ dbblock[h] # None => dbblock'[h] # None
<1>1. status \in [Hashes -> Statuses] /\ dbblock \in [Hashes -> DBBlocks \cup {None}]
  BY DEF Inv, TypeInv, TypeOK
<1>2. CASE Start
  <2>1. ExodusDBBlock \in DBBlocks
    BY DEF ExodusDBBlock, DBBlocks
  <2>2. ExodusDBBlock # None
    BY <2>1, NoneIsNoValue
  <2> QED
    BY <1>1, <1>2, <2>2 DEF Start, Restart, FirstStart, WriteExodus, WriteExodusDBBlock,
       WriteExodusStatus, WriteExodusHeight, WriteExodusHeaderTip, WriteExodusBlockTip, disk
<1>3. CASE WriteStatus
  <2>1. /\ status[job.hash] \in {Nothing, Header}
        /\ job.new \in {Rejected, Header, InvalidBlock, Block}
        /\ job.new = Rejected => status[job.hash] = Nothing
    BY <1>3 DEF WriteStatus, Inv, JobInv
  <2> QED
    BY <1>1, <1>3, <2>1 DEF WriteStatus
<1>4. CASE WriteDBBlock
  <2>1. job.db # None
    BY <1>4 DEF WriteDBBlock, Inv, TypeInv, Readability, DBBlockStages
  <2> QED
    BY <1>1, <1>4, <2>1 DEF WriteDBBlock
<1>5. CASE Reorganize
  BY <1>5, ReorganizeEffect
<1>6. CASE AbortReorganize
  BY <1>6 DEF AbortReorganize
<1>7. CASE \E k \in Hashes, body \in Bodies : Process(k, body)
  BY <1>7, ProcessVerdict
<1>8. CASE AdvanceHeaderTip \/ KeepHeaderTip \/ FailReorganize \/ AdvanceBlockTip \/ Crash \/ UNCHANGED vars
  BY <1>8 DEF AdvanceHeaderTip, KeepHeaderTip, FailReorganize, AdvanceBlockTip, Crash, vars, disk
<1> QED
  BY <1>2, <1>3, <1>4, <1>5, <1>6, <1>7, <1>8 DEF Next, Run, FinishPut

-----------------------------------------------------------------------------
(***************************************************************************)
(* The uncles a node offers.                                               *)
(***************************************************************************)

\* A header that is remembered has a valid header, and a DBBlock as soon as the put
\* that has met it is over.
RecentInv ==
    \A h \in recentHeaders :
       /\ h \in HeaderValid \ {Genesis}
       /\ \/ status[h] \notin {Nothing, Rejected} /\ dbblock[h] # None
          \/ stage = "status" /\ h = job.hash /\ job.db # None /\ job.new # Rejected
          \/ /\ stage = "dbblock" /\ h = job.hash
             /\ status[h] \notin {Nothing, Rejected}

LEMMA NextRecent ==
    ASSUME Inv, RecentInv, [Next]_vars
    PROVE  RecentInv'
<1>1. recentHeaders \subseteq Hashes /\ status \in [Hashes -> Statuses]
      /\ dbblock \in [Hashes -> DBBlocks \cup {None}] /\ job.hash \in Hashes
  BY DEF Inv, TypeInv, TypeOK, Jobs
<1>2. CASE \E k \in Hashes, body \in Bodies : Process(k, body)
  <2>1. PICK k \in Hashes, body \in Bodies : Process(k, body)
    BY <1>2
  <2>2. /\ stage = "idle" /\ stage' = "status" /\ job'.hash = k
        /\ UNCHANGED <<status, dbblock>>
        /\ job'.new # Rejected => k \in HeaderValid
        /\ k # Genesis
    BY <2>1, ProcessType, ProcessVerdict DEF Inv
  <2>3. ASSUME NEW h \in recentHeaders', h \notin recentHeaders
        PROVE  h = k /\ status[k] = Nothing /\ job'.new # Rejected
    BY <2>1, <2>3 DEF Process, RejectHeader, AcceptHeader, AwaitUncles, RejectUncles,
       RejectDifficulty, IgnoreBody, RejectTxs, AcceptBlock, Finish, SetUncleHeader
  <2>4. status[k] = Nothing /\ job'.new # Rejected => job'.db # None
    BY <2>1, ProcessNeeds, ProcessDBBlock, NoneIsNoValue
  <2> QED
    BY <2>2, <2>3, <2>4 DEF RecentInv
<1>3. CASE WriteStatus
  <2>1. /\ recentHeaders' = recentHeaders /\ dbblock' = dbblock /\ stage = "status"
        /\ status' = [status EXCEPT ![job.hash] = job.new]
        /\ job.new \in {Rejected, Header, InvalidBlock, Block}
        /\ job.new = Rejected => status[job.hash] = Nothing
        /\ \/ job.db = None \/ job.new < Header
           \/ stage' = "dbblock" /\ job' = job
    BY <1>3 DEF WriteStatus, memory, Inv, JobInv
  <2> QED
    BY <1>1, <2>1 DEF RecentInv
<1>4. CASE WriteDBBlock
  <2>1. job.db # None /\ recentHeaders' = recentHeaders /\ status' = status /\ stage = "dbblock"
        /\ dbblock' = [dbblock EXCEPT ![job.hash] = job.db]
    BY <1>4 DEF WriteDBBlock, memory, Inv, TypeInv, Readability, DBBlockStages
  <2> QED
    BY <1>1, <2>1 DEF RecentInv
<1>5. CASE Crash
  BY <1>5 DEF Crash, RecentInv
<1>6. ASSUME recentHeaders' = recentHeaders, stage \notin {"status", "dbblock"}
      PROVE  RecentInv'
  BY <1>1, <1>6, KnownStaysKnown DEF RecentInv
<1>7. CASE Start
  BY <1>6, <1>7 DEF Start, Restart, FirstStart, WriteExodus, WriteExodusDBBlock, WriteExodusStatus,
     WriteExodusHeight, WriteExodusHeaderTip, WriteExodusBlockTip, memory
<1>8. CASE AdvanceHeaderTip \/ KeepHeaderTip \/ Reorganize \/ AbortReorganize \/ FailReorganize
           \/ AdvanceBlockTip
  BY <1>6, <1>8 DEF AdvanceHeaderTip, KeepHeaderTip, Reorganize, AbortReorganize, FailReorganize,
     AdvanceBlockTip, memory
<1>9. CASE UNCHANGED vars
  BY <1>9 DEF vars, disk, memory, RecentInv
<1> QED
  BY <1>2, <1>3, <1>4, <1>5, <1>7, <1>8, <1>9 DEF Next, Run, FinishPut

\* Headers are remembered and candidates kept twice as far from the tip as an uncle
\* may be from its nephew (recentHeaderTrackingRange = 2 * maxUncleHeightDelta).
TrackedFarEnough == MaxUncleHeightDelta <= RecentHeaderTrackingRange + 1

\* Right after the commit of a reorganization, whoever looks at statuses and flags
\* looks at the chain of the new tip.
LEMMA CandidatesAreFit ==
    ASSUME TrackedFarEnough, Inv, RecentInv, stage = "tip"
    PROVE  {h \in UncleCandidates(job.hash) \ {job.hash} :
               Height[h] \in Height[job.hash] + 1 - MaxUncleHeightDelta .. Height[job.hash]}
           = {h \in recentHeaders : FitsAsUncle(h, job.hash)}
<1> DEFINE J == job.hash
<1>1. /\ J \in Hashes /\ Main = Chain[J] /\ UncleFlags = UnclesOf(Chain[J])
      /\ recentHeaders \subseteq Hashes /\ Height[J] \in Nat
      /\ status \in [Hashes -> Statuses]
      /\ dbblock \in [Hashes -> DBBlocks \cup {None}]
  <2>1. diskTip = J /\ diskTip # None
    BY DEF Inv, MainInv, TypeInv, Readability, RunStages
  <2> QED
    BY <2>1, ChainType DEF Inv, TypeInv, TypeOK, Jobs, MainInv, FlagInv, Opened
<1>2. MaxUncleHeightDelta \in Nat /\ RecentHeaderTrackingRange \in Nat
  BY Verdicts, RangeAssumption DEF VerdictAssumption
<1>3. ASSUME NEW h \in recentHeaders
      PROVE  /\ h \in UncleCandidates(J) \ {J}
             /\ Height[h] \in Height[J] + 1 - MaxUncleHeightDelta .. Height[J]
             <=> FitsAsUncle(h, J)
  <2>1. /\ h \in Hashes \ {Genesis} /\ h \in HeaderValid /\ Height[h] \in Nat
        /\ status[h] \in {Header, InvalidBlock, Block, MainChain} /\ dbblock[h] \in DBBlocks
        /\ dbblock[h] # None /\ Prev[h] \in Hashes
    BY <1>1, ChainType, Tree DEF TreeAssumption, RecentInv
  <2>2. status[h] = MainChain <=> h \in Chain[J]
    BY <1>1, <2>1 DEF Main
  <2>3. status[Prev[h]] = MainChain <=> Prev[h] \in Chain[J]
    BY <1>1, <2>1 DEF Main
  <2>4. dbblock[h].uncle <=> \E a \in Chain[J] : h \in Uncles[a]
    BY <1>1, <2>1 DEF UncleFlags, UnclesOf
  <2>5. MayBeUncle(h) <=> /\ h \notin Chain[J] /\ Prev[h] \in Chain[J]
                          /\ \A a \in Chain[J] : h \notin Uncles[a]
    BY <2>1, <2>2, <2>3, <2>4 DEF MayBeUncle
  <2>6. Height[h] \in Height[J] + 1 - MaxUncleHeightDelta .. Height[J]
           => Near(Height[h], Height[J], RecentHeaderTrackingRange)
    BY <1>1, <1>2, <2>1 DEF Near, TrackedFarEnough
  <2>7. J \in Chain[J]
    BY <1>1, ChainType
  <2> QED
    BY <2>1, <2>5, <2>6, <2>7 DEF UncleCandidates, FitsAsUncle
<1>4. UncleCandidates(J) \subseteq recentHeaders
  BY DEF UncleCandidates
<1> QED
  BY <1>3, <1>4

\* The uncles announced with a new tip are valid in a block on that tip, and none that
\* the process has seen is passed over while there is room, whatever came before.
THEOREM CandidatesFit ==
    ASSUME TrackedFarEnough
    PROVE  Spec => []CandidateUnclesFit
<1>1. Init => RecentInv
  BY DEF Init, RecentInv
<1>2. Inv /\ RecentInv /\ [Next]_vars => RecentInv'
  BY NextRecent
<1>3. Inv /\ RecentInv => CandidateUnclesFit
  <2> SUFFICES ASSUME Inv, RecentInv, stage = "tip",
                      NEW S \in GetUncleCandidates(job.hash)
               PROVE  LET fit == {h \in recentHeaders : FitsAsUncle(h, job.hash)}
                      IN  /\ S \subseteq fit
                          /\ Cardinality(S) = Min({MaxNumberOfUncles, Cardinality(fit)})
    BY DEF CandidateUnclesFit
  <2> QED
    BY CandidatesAreFit DEF GetUncleCandidates, kSubset
<1> QED
  BY <1>1, <1>2, <1>3, Safe, PTL DEF Spec

-----------------------------------------------------------------------------
(***************************************************************************)
(* A process that is not interrupted.                                      *)
(***************************************************************************)

StartStages == {"down", "exodusDBBlock"} \cup ExodusStages

InFlight(h, stages) == stage \in stages /\ h = job.hash

\* A node that starts has met nothing but the exodus block.
FreshInv ==
    /\ stage = "down" => ~Opened
    /\ stage \in {"down", "exodusDBBlock", "exodusStatus"} => status[Genesis] = Nothing
    /\ stage \in StartStages => \A h \in Hashes \ {Genesis} : status[h] = Nothing

\* What an accepted block's DBBlock has to hold before a successor is judged by it.
Complete(db, h) == db.stored /\ (IsGhost(h) \/ db.linked)

\* Every status that is set has its DBBlock, up to the one write between the two.
StoredInv ==
    /\ \A h \in Hashes : status[h] >= Header => dbblock[h] # None \/ InFlight(h, {"dbblock"})
    /\ stage = "exodusStatus" => dbblock[Genesis] # None /\ Complete(dbblock[Genesis], Genesis)
    /\ stage = "status" /\ job.new >= Header => job.db # None
    /\ stage = "dbblock" =>
         \A h \in Hashes \ {job.hash} : job.hash \in Chain[h] => status[h] < Block
    /\ stage \in {"status", "dbblock"} /\ job.new = Block => Complete(job.db, job.hash)
    /\ \A h \in Hashes : status[h] >= Block =>
         \A a \in Chain[h] : \/ dbblock[a] # None /\ Complete(dbblock[a], a)
                             \/ InFlight(a, {"dbblock"})

CondemnedInv ==
    /\ OnlyInvalidIsCondemned
    /\ stage = "status" /\ job.new \in {Rejected, InvalidBlock} => ~ChainValid(job.hash)

CleanInv == FreshInv /\ StoredInv /\ CondemnedInv

LEMMA InitClean == Init => CleanInv
BY Tree DEF TreeAssumption, Init, CleanInv, FreshInv, StoredInv, CondemnedInv, Opened,
   OnlyInvalidIsCondemned

\* A verdict against a block is one against its chain: its uncles are known to be
\* bad, and its predecessor's difficulty has been computed.
LEMMA ProcessCondemns ==
    ASSUME Inv, CleanInv, NEW h \in Hashes, NEW body \in Bodies, Process(h, body),
           job'.new \in {Rejected, InvalidBlock}
    PROVE  ~ChainValid(h)
<1>1. /\ h \in Chain[h] \ {Genesis} /\ Prev[h] \in Hashes /\ Prev[h] \in Chain[Prev[h]]
      /\ stage = "idle"
  BY ProcessNeeds, ProcessType, ChainType DEF Inv
<1>2. SUFFICES ~BlockValid(h)
  BY <1>1 DEF ChainValid
<1>3. CASE RejectHeader(h)
  BY <1>3 DEF RejectHeader, BlockValid
<1>4. CASE RejectUncles(h, body)
  <2>1. CASE UncleRejected(h)
    <3>1. PICK u \in Uncles[h] : status[u] = Rejected
      BY <2>1 DEF UncleRejected
    <3>2. u \in Hashes \ {Genesis}
      BY <3>1, Tree DEF TreeAssumption, Inv, VerdictInv
    <3>3. u \notin HeaderValid
      BY <3>1, <3>2 DEF Inv, VerdictInv
    <3> QED
      BY <3>1, <3>3 DEF BlockValid, UnclesChainValid
  <2>2. CASE TooOldUncles(h) # {}
    BY <2>2 DEF BlockValid, UnclesChainValid
  <2> QED
    BY <1>4, <2>1, <2>2 DEF RejectUncles
<1>5. CASE RejectDifficulty(h, body)
  <2>1. status[Prev[h]] >= Block
    BY <1>5 DEF RejectDifficulty, UnclesProcessed, CanProcessBlock
  <2>2. IsGhost(Prev[h]) \/ dbblock[Prev[h]].linked
    BY <1>1, <2>1 DEF CleanInv, StoredInv, Complete, InFlight
  <2> QED
    BY <1>5, <2>2 DEF RejectDifficulty, DifficultyMatches, BlockValid
<1>6. CASE RejectTxs(h, body)
  BY <1>6 DEF RejectTxs, BlockValid
<1>7. CASE AcceptHeader(h, body) \/ AwaitUncles(h, body) \/ IgnoreBody(h, body) \/ AcceptBlock(h, body)
  BY <1>7 DEF AcceptHeader, AwaitUncles, IgnoreBody, AcceptBlock, Finish
<1> QED
  BY <1>3, <1>4, <1>5, <1>6, <1>7 DEF Process

\* The job of an uninterrupted process never carries less than its status asks for.
LEMMA ProcessStores ==
    ASSUME Inv, CleanInv, NEW h \in Hashes, NEW body \in Bodies, Process(h, body)
    PROVE  /\ job'.new >= Header => job'.db # None
           /\ job'.new = Block => Complete(job'.db, h)
<1>1. stage = "idle"
  BY ProcessType DEF Inv
<1>2. ResultDBBlock(h) # None
  BY <1>1, ProcessNeeds DEF CleanInv, StoredInv, InFlight
<1>3. /\ NewDBBlock(h) # None /\ LinkedDBBlock(h) # None /\ StoredDBBlock(h) # None
      /\ ResultDBBlock(h) \in DBBlocks
  BY <1>2, ProcessNeeds, NoneIsNoValue
<1>4. Complete(StoredDBBlock(h), h)
  BY <1>3 DEF Complete, StoredDBBlock, LinkedDBBlock, DBBlocks
<1> QED
  BY <1>2, <1>3, <1>4, ProcessDBBlock

LEMMA ProcessClean ==
    ASSUME Inv, CleanInv, NEW h \in Hashes, NEW body \in Bodies, Process(h, body)
    PROVE  CleanInv'
<1>1. /\ stage = "idle" /\ stage' = "status" /\ job'.hash = h
      /\ UNCHANGED <<status, dbblock, diskTip>>
      /\ job'.new \in {Rejected, Header, InvalidBlock, Block}
  BY ProcessType, ProcessVerdict DEF Inv, disk
<1>2. FreshInv'
  BY <1>1 DEF FreshInv, StartStages, ExodusStages
<1>3. StoredInv'
  BY <1>1, ProcessStores DEF CleanInv, StoredInv, InFlight, Complete
<1>4. CondemnedInv'
  BY <1>1, ProcessCondemns DEF CleanInv, CondemnedInv, OnlyInvalidIsCondemned
<1> QED
  BY <1>2, <1>3, <1>4 DEF CleanInv

\* Writing a status completes nothing and condemns nothing that process has not: no
\* accepted chain runs through a block that is still being judged.
LEMMA WriteStatusClean ==
    ASSUME Inv, CleanInv, WriteStatus
    PROVE  CleanInv'
<1> DEFINE J == job.hash
<1>1. /\ J \in Hashes \ {Genesis} /\ status \in [Hashes -> Statuses]
      /\ stage = "status" /\ status[J] \in {Nothing, Header}
      /\ job.new \in {Rejected, Header, InvalidBlock, Block}
      /\ dbblock' = dbblock /\ diskTip' = diskTip
      /\ status' = [status EXCEPT ![J] = job.new]
      /\ job.new >= Header => job.db # None
  BY DEF WriteStatus, Inv, TypeInv, TypeOK, Jobs, JobInv, CleanInv, StoredInv
<1>2. \/ stage' = "idle" /\ job.new = Rejected
      \/ stage' = "dbblock" /\ job' = job /\ job.new >= Header
  BY <1>1 DEF WriteStatus
<1>3. ASSUME NEW h \in Hashes, J \in Chain[h]
      PROVE  status[h] < Block
  <2>1. status[h] \in Statuses
    BY <1>1
  <2> QED
    BY <1>1, <1>3, <2>1 DEF Inv, VerdictInv, AcceptedChain
<1>4. FreshInv'
  BY <1>1, <1>2 DEF FreshInv, StartStages, ExodusStages
<1>5. StoredInv'
  <2>1. CASE stage' = "idle" /\ job.new = Rejected
    BY <1>1, <2>1 DEF CleanInv, StoredInv, InFlight
  <2>2. CASE stage' = "dbblock" /\ job' = job /\ job.new >= Header
    <3>1. \A h \in Hashes : h # J => status'[h] = status[h]
      BY <1>1
    <3>2. ASSUME NEW h \in Hashes, status'[h] >= Block, NEW a \in Chain[h]
          PROVE  (dbblock[a] # None /\ Complete(dbblock[a], a)) \/ a = J
      <4>1. CASE h = J
        <5>1. CASE a # J
          <6>1. Prev[J] \in Hashes /\ Chain[J] = Chain[Prev[J]] \cup {J}
            BY <1>1, Tree DEF TreeAssumption
          <6>2. status[Prev[J]] >= Block
            BY <1>1, <3>2, <4>1 DEF Inv, JobInv
          <6> QED
            BY <1>1, <3>2, <4>1, <5>1, <6>1, <6>2 DEF CleanInv, StoredInv, InFlight
        <5> QED
          BY <5>1
      <4>2. CASE h # J
        BY <1>1, <3>1, <3>2, <4>2 DEF CleanInv, StoredInv, InFlight
      <4> QED
        BY <4>1, <4>2
    <3>3. \A h \in Hashes : status'[h] >= Header => dbblock[h] # None \/ h = J
      BY <1>1, <3>1 DEF CleanInv, StoredInv, InFlight
    <3>4. \A h \in Hashes \ {J} : J \in Chain[h] => status'[h] < Block
      BY <1>3, <3>1
    <3>5. job.new = Block => Complete(job.db, J)
      BY <1>1 DEF CleanInv, StoredInv
    <3> QED
      BY <1>1, <2>2, <3>2, <3>3, <3>4, <3>5 DEF StoredInv, InFlight, Complete
  <2> QED
    BY <1>2, <2>1, <2>2
<1>6. CondemnedInv'
  BY <1>1, <1>2 DEF CleanInv, CondemnedInv, OnlyInvalidIsCondemned
<1> QED
  BY <1>4, <1>5, <1>6 DEF CleanInv

LEMMA WriteDBBlockClean ==
    ASSUME Inv, CleanInv, WriteDBBlock
    PROVE  CleanInv'
<1> DEFINE J == job.hash
<1>1. /\ J \in Hashes /\ dbblock \in [Hashes -> DBBlocks \cup {None}]
      /\ stage = "dbblock" /\ stage' = "headerTip" /\ job' = job
      /\ job.db # None /\ job.new \in {Header, InvalidBlock, Block} /\ status[J] = job.new
      /\ status' = status /\ diskTip' = diskTip
      /\ dbblock' = [dbblock EXCEPT ![J] = job.db]
  BY DEF WriteDBBlock, Inv, TypeInv, TypeOK, Readability, DBBlockStages, Jobs, JobInv
<1>2. dbblock'[J] = job.db /\ \A h \in Hashes : h # J => dbblock'[h] = dbblock[h]
  BY <1>1
<1>3. FreshInv'
  BY <1>1 DEF FreshInv, StartStages, ExodusStages
<1>4. CondemnedInv'
  BY <1>1 DEF CleanInv, CondemnedInv, OnlyInvalidIsCondemned
<1>5. StoredInv'
  <2>1. \A h \in Hashes : status[h] >= Header => dbblock'[h] # None
    BY <1>1, <1>2 DEF CleanInv, StoredInv, InFlight
  <2>2. ASSUME NEW h \in Hashes, status[h] >= Block, NEW a \in Chain[h]
        PROVE  dbblock'[a] # None /\ Complete(dbblock'[a], a)
    <3>1. CASE a = J
      <4>1. h = J
        <5>1. status[h] \in Statuses
          BY DEF Inv, TypeInv, TypeOK
        <5> QED
          BY <1>1, <2>2, <3>1, <5>1 DEF CleanInv, StoredInv
      <4>2. Complete(job.db, J)
        BY <1>1, <2>2, <4>1 DEF CleanInv, StoredInv
      <4> QED
        BY <1>1, <1>2, <3>1, <4>2
    <3>2. CASE a # J
      <4>1. a \in Hashes
        BY <2>2, ChainType
      <4> QED
        BY <1>1, <1>2, <2>2, <3>2, <4>1 DEF CleanInv, StoredInv, InFlight
    <3> QED
      BY <3>1, <3>2
  <2> QED
    BY <1>1, <2>1, <2>2 DEF StoredInv, Complete
<1> QED
  BY <1>3, <1>4, <1>5 DEF CleanInv

\* Every body and uncle that a reorganization looks at is there.
LEMMA AllReadable ==
    ASSUME Inv, CleanInv, stage = "reorganize"
    PROVE  Readable
<1>1. /\ job.hash \in Hashes /\ blockTip.hash \in Hashes /\ Main = Chain[blockTip.hash]
      /\ Pushed = Chain[job.hash] \ Main /\ Popped \subseteq Main
      /\ AcceptedChain(job.hash)
  BY ReorganizeChains
<1>2. status[job.hash] = Block /\ status[blockTip.hash] = MainChain
  BY <1>1, ChainType DEF Inv, JobInv, Main
<1>3. AcceptedChain(blockTip.hash)
  BY <1>1, <1>2 DEF Inv, VerdictInv
<1>4. Pushed \cup Popped \subseteq Chain[job.hash] \cup Chain[blockTip.hash]
  BY <1>1
<1>5. \A h \in Pushed \cup Popped : dbblock[h] # None /\ dbblock[h].stored
  BY <1>1, <1>2, <1>4 DEF CleanInv, StoredInv, InFlight, Complete
<1>6. \A h \in Pushed \cup Popped : UnclesMet(h)
  <2>1. UnclesMet(Genesis)
    BY Tree DEF TreeAssumption, UnclesMet
  <2> QED
    BY <1>1, <1>3, <1>4, <2>1 DEF AcceptedChain
<1>7. Checked \subseteq Pushed
  BY DEF Checked
<1> QED
  BY <1>5, <1>6, <1>7 DEF Readable, UnclesOf, UnclesMet

\* A reorganization raises no status but that of blocks which were Blocks already.
LEMMA ReorganizeStatus ==
    ASSUME Inv, Reorganize, NEW h \in Hashes
    PROVE  /\ status'[h] >= Block => status[h] >= Block
           /\ status'[h] >= Header => status[h] >= Header
           /\ status'[h] \in {Rejected, InvalidBlock} => status[h] = status'[h]
<1>1. /\ stage = "reorganize" /\ job.hash \in Hashes /\ ChainValid(job.hash)
      /\ Pushed \subseteq Chain[job.hash]
  BY ReorganizeEffect, ReorganizeChains
<1>2. \A p \in Pushed : ChainValid(p)
  BY <1>1, ChainValidParts
<1>3. \A p \in Pushed : status[p] \in {InvalidBlock, Block} /\ (status[p] = InvalidBlock => ~ChainValid(p))
  BY <1>1, UnclesValidIsOfChain
<1>4. status[h] \in Statuses
  BY DEF Inv, TypeInv, TypeOK
<1> QED
  BY <1>2, <1>3, <1>4, ReorganizeEffect

LEMMA ReorganizeClean ==
    ASSUME Inv, CleanInv, Reorganize
    PROVE  CleanInv'
<1>1. /\ stage = "reorganize" /\ stage' = "tip" /\ job' = job
      /\ job.hash \in Hashes /\ ChainValid(job.hash) /\ status[job.hash] = Block
      /\ Pushed \subseteq Chain[job.hash] /\ Opened
  BY ReorganizeEffect, ReorganizeChains DEF Inv, JobInv
<1>2. \A h \in Hashes : /\ dbblock[h] # None => /\ dbblock'[h] # None
                                                /\ Complete(dbblock[h], h) => Complete(dbblock'[h], h)
  BY ReorganizeEffect DEF Complete
<1>3. \A h \in Hashes : /\ status'[h] >= Block => status[h] >= Block
                        /\ status'[h] >= Header => status[h] >= Header
                        /\ status'[h] \in {Rejected, InvalidBlock} => status[h] = status'[h]
  BY ReorganizeStatus
<1>4. FreshInv'
  BY <1>1 DEF FreshInv, StartStages, ExodusStages
<1>5. CondemnedInv'
  BY <1>1, <1>3 DEF CleanInv, CondemnedInv, OnlyInvalidIsCondemned
<1>6. StoredInv'
  <2>1. \A h \in Hashes : status'[h] >= Header => dbblock'[h] # None
    BY <1>1, <1>2, <1>3 DEF CleanInv, StoredInv, InFlight
  <2>2. ASSUME NEW h \in Hashes, status'[h] >= Block, NEW a \in Chain[h]
        PROVE  dbblock'[a] # None /\ Complete(dbblock'[a], a)
    <3>1. a \in Hashes /\ dbblock[a] # None /\ Complete(dbblock[a], a)
      BY <1>1, <1>3, <2>2, ChainType DEF CleanInv, StoredInv, InFlight
    <3> QED
      BY <1>2, <3>1
  <2> QED
    BY <1>1, <2>1, <2>2 DEF StoredInv, Complete
<1> QED
  BY <1>4, <1>5, <1>6 DEF CleanInv

LEMMA AbortClean ==
    ASSUME Inv, CleanInv, AbortReorganize
    PROVE  CleanInv'
<1>1. /\ stage = "reorganize" /\ stage' = "idle" /\ dbblock' = dbblock /\ diskTip' = diskTip
      /\ \A h \in Hashes : status'[h] = IF h \in Aborted THEN InvalidBlock ELSE status[h]
  BY DEF AbortReorganize
<1>2. \A p \in Aborted : ~ChainValid(p) /\ p \in Hashes /\ status[p] \in {InvalidBlock, Block}
  BY <1>1, AbortedIsInvalid
<1>3. FreshInv'
  BY <1>1 DEF FreshInv, StartStages, ExodusStages
<1>4. CondemnedInv'
  BY <1>1, <1>2 DEF CleanInv, CondemnedInv, OnlyInvalidIsCondemned
<1>5. \A h \in Hashes : /\ status'[h] >= Block => status[h] >= Block
                        /\ status'[h] >= Header => status[h] >= Header
  BY <1>1, <1>2
<1>6. StoredInv'
  BY <1>1, <1>5 DEF CleanInv, StoredInv, InFlight, Complete
<1> QED
  BY <1>3, <1>4, <1>6 DEF CleanInv

LEMMA StartClean ==
    ASSUME Inv, CleanInv, Start
    PROVE  CleanInv'
<1>1. /\ Genesis \in Hashes /\ Height[Genesis] = 0 /\ Chain[Genesis] = {Genesis}
      /\ status \in [Hashes -> Statuses] /\ dbblock \in [Hashes -> DBBlocks \cup {None}]
  BY Tree DEF TreeAssumption, Inv, TypeInv, TypeOK
<1>2. ~Restart
  BY DEF Restart, CleanInv, FreshInv, Opened
<1>3. CASE FirstStart
  <2>1. /\ stage = "down" /\ stage' = "exodusDBBlock" /\ UNCHANGED <<status, dbblock, diskTip>>
    BY <1>3 DEF FirstStart, disk
  <2> QED
    BY <1>1, <2>1 DEF CleanInv, FreshInv, StoredInv, CondemnedInv, OnlyInvalidIsCondemned,
       InFlight, Complete, StartStages, ExodusStages
<1>4. CASE WriteExodusDBBlock
  <2>1. /\ stage = "exodusDBBlock" /\ stage' = "exodusStatus" /\ UNCHANGED <<status, diskTip>>
        /\ dbblock'[Genesis] = ExodusDBBlock
    BY <1>1, <1>4 DEF WriteExodusDBBlock
  <2>2. ExodusDBBlock # None /\ Complete(ExodusDBBlock, Genesis)
    <3>1. ExodusDBBlock \in DBBlocks
      BY DEF ExodusDBBlock, DBBlocks
    <3> QED
      BY <3>1, NoneIsNoValue DEF ExodusDBBlock, Complete
  <2>3. \A h \in Hashes : status[h] = Nothing
    BY <2>1 DEF CleanInv, FreshInv, StartStages
  <2> QED
    BY <1>1, <2>1, <2>2, <2>3 DEF CleanInv, FreshInv, StoredInv, CondemnedInv,
       OnlyInvalidIsCondemned, InFlight, Complete, StartStages, ExodusStages
<1>5. CASE WriteExodusStatus
  <2>1. /\ stage = "exodusStatus" /\ stage' = "exodusHeight" /\ UNCHANGED <<dbblock, diskTip>>
        /\ status' = [status EXCEPT ![Genesis] = MainChain]
    BY <1>5 DEF WriteExodusStatus
  <2>2. \A h \in Hashes \ {Genesis} : status[h] = Nothing
    BY <2>1 DEF CleanInv, FreshInv, StartStages, ExodusStages
  <2>3. \A h \in Hashes : status'[h] = IF h = Genesis THEN MainChain ELSE Nothing
    BY <1>1, <2>1, <2>2
  <2> QED
    BY <1>1, <2>1, <2>3 DEF CleanInv, FreshInv, StoredInv, CondemnedInv, OnlyInvalidIsCondemned,
       InFlight, Complete, StartStages, ExodusStages
<1>6. CASE WriteExodusHeight \/ WriteExodusHeaderTip \/ WriteExodusBlockTip
  <2>1. /\ UNCHANGED <<status, dbblock>>
        /\ stage \in {"exodusHeight", "exodusHeaderTip", "exodusBlockTip"}
        /\ stage' \in {"exodusHeaderTip", "exodusBlockTip", "idle"}
    BY <1>6 DEF WriteExodusHeight, WriteExodusHeaderTip, WriteExodusBlockTip
  <2> QED
    BY <1>1, <2>1 DEF CleanInv, FreshInv, StoredInv, CondemnedInv, OnlyInvalidIsCondemned,
       InFlight, Complete, StartStages, ExodusStages
<1> QED
  BY <1>2, <1>3, <1>4, <1>5, <1>6 DEF Start, WriteExodus

LEMMA RunClean ==
    ASSUME Inv, CleanInv, [Run]_vars
    PROVE  CleanInv'
<1>1. CASE AdvanceHeaderTip \/ KeepHeaderTip
  <2>1. /\ UNCHANGED <<status, dbblock, diskTip>> /\ stage = "headerTip"
        /\ stage' \in {"reorganize", "idle"}
    BY <1>1 DEF AdvanceHeaderTip, KeepHeaderTip, AfterHeaderTip, disk
  <2> QED
    BY <2>1 DEF CleanInv, FreshInv, StoredInv, CondemnedInv, OnlyInvalidIsCondemned,
       InFlight, Complete, StartStages, ExodusStages
<1>2. ~FailReorganize
  BY AllReadable DEF FailReorganize
<1>3. CASE AdvanceBlockTip
  <2>1. UNCHANGED <<status, dbblock, diskTip>> /\ stage = "tip" /\ stage' = "idle"
    BY <1>3 DEF AdvanceBlockTip, disk
  <2> QED
    BY <2>1 DEF CleanInv, FreshInv, StoredInv, CondemnedInv, OnlyInvalidIsCondemned,
       InFlight, Complete, StartStages, ExodusStages
<1>4. CASE UNCHANGED vars
  <2>1. UNCHANGED <<status, dbblock, diskTip, stage, job>>
    BY <1>4 DEF vars, disk
  <2> QED
    BY <2>1 DEF CleanInv, FreshInv, StoredInv, CondemnedInv, OnlyInvalidIsCondemned,
       InFlight, Complete, Opened
<1> QED
  BY <1>1, <1>2, <1>3, <1>4, StartClean, ProcessClean, WriteStatusClean, WriteDBBlockClean,
     ReorganizeClean, AbortClean DEF Run, FinishPut

LEMMA CrashFreeSafe == CrashFreeSpec => [](Inv /\ CleanInv)
<1>1. [Run]_vars => [Next]_vars
  BY DEF Next
<1>2. Inv /\ CleanInv /\ [Run]_vars => Inv' /\ CleanInv'
  BY <1>1, NextInv, RunClean
<1> QED
  BY <1>2, InitInv, InitClean, PTL DEF CrashFreeSpec

\* No order of arrival condemns a valid block: headers ahead of blocks, nephews ahead of
\* uncles, another branch on the main chain when the block is judged, bad bodies before
\* the good one.
THEOREM NoValidBlockCondemned == CrashFreeSpec => []OnlyInvalidIsCondemned
<1>1. CleanInv => OnlyInvalidIsCondemned
  BY DEF CleanInv, CondemnedInv
<1> QED
  BY <1>1, CrashFreeSafe, PTL

\* Only a crash between the writes of a put makes a later reorganization read what is
\* not there: without one, no block that has won the fork choice is dropped.
THEOREM NoReorganizationFails == CrashFreeSpec => [][~FailReorganize]_vars
<1>1. Inv /\ CleanInv => ~FailReorganize
  BY AllReadable DEF FailReorganize
<1> QED
  BY <1>1, CrashFreeSafe, PTL

-----------------------------------------------------------------------------
(***************************************************************************)
(* The tips.                                                               *)
(***************************************************************************)

\* No total work on the way to a tip is lost: what is heavier than a tip is the job
\* that is about to become it.
TipInv ==
    /\ stage \in ExodusStages \cup RunStages => \A h \in Hashes :
         /\ status[h] >= Block => \/ InFlight(h, DBBlockStages)
                                  \/ dbblock[h].work <= blockTip.work
         /\ status[h] >= Header => \/ InFlight(h, {"dbblock", "headerTip"})
                                   \/ dbblock[h].work <= headerTip.work
    /\ stage \in WrittenStages => dbblock[job.hash].work = job.db.work
    /\ stage \in {"reorganize", "tip"} => job.db.work > blockTip.work
    /\ stage = "exodusStatus" => /\ dbblock[Genesis].work <= blockTip.work
                                 /\ dbblock[Genesis].work <= headerTip.work

LEMMA RunTips ==
    ASSUME Inv, CleanInv, TipInv, [Run]_vars
    PROVE  TipInv'
<1> USE DEF TipInv, InFlight, RunStages, ExodusStages, DBBlockStages, WrittenStages
<1>1. /\ status \in [Hashes -> Statuses] /\ dbblock \in [Hashes -> DBBlocks \cup {None}]
      /\ job.hash \in Hashes /\ job.db \in DBBlocks \cup {None} /\ Genesis \in Hashes
      /\ job.new \in Statuses
      /\ stage \in ExodusStages \cup RunStages => blockTip \in Tips /\ headerTip \in Tips
      /\ stage \in DBBlockStages => job.db \in DBBlocks
  BY Tree DEF TreeAssumption, Inv, TypeInv, TypeOK, Readability, Jobs
<1>2. stage \in ExodusStages \cup RunStages => blockTip.work \in Nat /\ headerTip.work \in Nat
  BY <1>1 DEF Tips
<1>3. stage \in DBBlockStages => job.db.work \in Nat
  BY <1>1 DEF DBBlocks
<1>4. \A h \in Hashes : status[h] >= Header =>
         dbblock[h].work \in Nat \/ InFlight(h, {"dbblock"})
  BY <1>1 DEF CleanInv, StoredInv, DBBlocks
<1>5. CASE FirstStart \/ Restart
  <2>1. ~Restart
    BY DEF Restart, CleanInv, FreshInv, Opened
  <2> QED
    BY <1>5, <2>1 DEF FirstStart
<1>6. CASE WriteExodusDBBlock
  <2>1. \A h \in Hashes : status'[h] = Nothing
    BY <1>6 DEF WriteExodusDBBlock, CleanInv, FreshInv, StartStages
  <2>2. /\ dbblock'[Genesis].work = 0 /\ blockTip'.work = 0 /\ headerTip'.work = 0
        /\ stage' = "exodusStatus"
    BY <1>1, <1>6 DEF WriteExodusDBBlock, ExodusDBBlock
  <2> QED
    BY <2>1, <2>2
<1>7. CASE WriteExodusStatus
  <2>1. \A h \in Hashes \ {Genesis} : status'[h] = Nothing
    BY <1>1, <1>7 DEF WriteExodusStatus, CleanInv, FreshInv, StartStages
  <2>2. stage' = "exodusHeight" /\ UNCHANGED <<dbblock, blockTip, headerTip>>
    BY <1>7 DEF WriteExodusStatus, memory, tips
  <2>3. dbblock[Genesis].work <= blockTip.work /\ dbblock[Genesis].work <= headerTip.work
    BY <1>7 DEF WriteExodusStatus
  <2> QED
    BY <2>1, <2>2, <2>3
<1>8. CASE WriteExodusHeight \/ WriteExodusHeaderTip \/ WriteExodusBlockTip
  <2>1. /\ UNCHANGED <<status, dbblock, blockTip, headerTip>>
        /\ stage \in {"exodusHeight", "exodusHeaderTip", "exodusBlockTip"}
        /\ stage' \in {"exodusHeaderTip", "exodusBlockTip", "idle"}
    BY <1>8 DEF WriteExodusHeight, WriteExodusHeaderTip, WriteExodusBlockTip, memory, tips
  <2> QED
    BY <2>1
<1>9. CASE \E h \in Hashes, body \in Bodies : Process(h, body)
  <2>1. stage = "idle" /\ stage' = "status" /\ UNCHANGED <<status, dbblock, blockTip, headerTip>>
    BY <1>9, ProcessType DEF Inv, disk, tips
  <2> QED
    BY <2>1
<1>10. CASE WriteStatus
  <2>1. /\ stage = "status" /\ UNCHANGED <<dbblock, blockTip, headerTip>>
        /\ status' = [status EXCEPT ![job.hash] = job.new]
        /\ \/ stage' = "idle" /\ job.new < Header
           \/ stage' = "dbblock" /\ job' = job
    BY <1>1, <1>10 DEF WriteStatus, memory, tips, CleanInv, StoredInv
  <2> QED
    BY <1>1, <2>1
<1>11. CASE WriteDBBlock
  <2>1. /\ stage = "dbblock" /\ stage' = "headerTip" /\ UNCHANGED <<status, blockTip, headerTip, job>>
        /\ dbblock' = [dbblock EXCEPT ![job.hash] = job.db]
    BY <1>11 DEF WriteDBBlock, memory, tips
  <2> QED
    BY <1>1, <2>1
<1>12. CASE AdvanceHeaderTip \/ KeepHeaderTip
  <2>1. /\ stage = "headerTip" /\ UNCHANGED <<status, dbblock, blockTip>>
        /\ \/ stage' = "reorganize" /\ job' = job /\ job.db.work > blockTip.work
           \/ stage' = "idle" /\ ~(job.new >= Block /\ job.db.work > blockTip.work)
        /\ \/ job.db.work > headerTip.work /\ headerTip'.work = job.db.work
           \/ ~(job.db.work > headerTip.work) /\ headerTip' = headerTip
    BY <1>12 DEF AdvanceHeaderTip, KeepHeaderTip, AfterHeaderTip, ForkChoice, JobTip, disk, memory, tips
  <2>2. status[job.hash] = job.new
    BY <2>1 DEF Inv, JobInv
  <2> QED
    BY <1>1, <1>2, <1>3, <1>4, <2>1, <2>2
<1>13. CASE Reorganize
  <2>1. /\ stage = "reorganize" /\ stage' = "tip" /\ job' = job /\ UNCHANGED <<blockTip, headerTip>>
    BY <1>13 DEF Reorganize, memory, tips
  <2>2. \A h \in Hashes : /\ status'[h] >= Block => status[h] >= Block
                          /\ status'[h] >= Header => status[h] >= Header
    BY <1>13, ReorganizeStatus
  <2>3. \A h \in Hashes : dbblock[h] # None => dbblock'[h].work = dbblock[h].work
    BY <1>13, ReorganizeEffect
  <2>4. \A h \in Hashes : status[h] >= Header => dbblock[h] # None
    BY <2>1 DEF CleanInv, StoredInv
  <2>5. \A h \in Hashes : status[h] >= Block => status[h] >= Header
    BY <1>1
  <2>6. dbblock[job.hash] # None
    BY <2>1 DEF Inv, TypeInv, Readability
  <2> QED
    BY <1>1, <2>1, <2>2, <2>3, <2>4, <2>5, <2>6
<1>14. CASE AbortReorganize
  <2>1. /\ stage = "reorganize" /\ stage' = "idle" /\ UNCHANGED <<dbblock, blockTip, headerTip>>
        /\ \A h \in Hashes : status'[h] = IF h \in Aborted THEN InvalidBlock ELSE status[h]
    BY <1>14 DEF AbortReorganize, memory, tips
  <2>2. \A p \in Aborted : p \in Hashes /\ status[p] \in {InvalidBlock, Block}
    BY <2>1, AbortedIsInvalid
  <2>3. job.hash \in Aborted
    <3>1. job.hash \in Hashes /\ job.hash \in Pushed /\ Pushed \subseteq Chain[job.hash]
      BY <2>1, ReorganizeChains
    <3>2. PICK q \in Pushed : ~UnclesValid(q)
      BY <1>14 DEF AbortReorganize, Aborted
    <3>3. Height[q] <= Height[job.hash]
      BY <3>1, <3>2, AncestorFacts
    <3> QED
      BY <3>1, <3>2, <3>3 DEF Aborted
  <2> QED
    BY <2>1, <2>2, <2>3
<1>15. ~FailReorganize
  BY AllReadable DEF FailReorganize
<1>16. CASE AdvanceBlockTip
  <2>1. /\ stage = "tip" /\ stage' = "idle" /\ UNCHANGED <<status, dbblock, headerTip>>
        /\ blockTip'.work = job.db.work
    BY <1>16 DEF AdvanceBlockTip, JobTip, disk
  <2> QED
    BY <1>1, <1>2, <1>3, <1>4, <2>1
<1>17. CASE UNCHANGED vars
  BY <1>17 DEF vars, disk, memory, tips
<1> QED
  BY <1>5, <1>6, <1>7, <1>8, <1>9, <1>10, <1>11, <1>12, <1>13, <1>14, <1>15, <1>16, <1>17
     DEF Run, Start, WriteExodus, FinishPut

\* Between two puts no accepted block is heavier than the tip and no known header
\* heavier than the header tip, under either rule and in any order of arrival.
THEOREM TipsHeaviest == CrashFreeSpec => []TipsAreHeaviest
<1>1. Init => TipInv
  BY DEF Init, TipInv, ExodusStages, RunStages, WrittenStages
<1>2. Inv /\ CleanInv /\ TipInv /\ [Run]_vars => TipInv'
  BY RunTips
<1>3. TipInv => TipsAreHeaviest
  BY DEF TipInv, TipsAreHeaviest, RunStages, InFlight, DBBlockStages
<1> QED
  BY <1>1, <1>2, <1>3, CrashFreeSafe, PTL DEF CrashFreeSpec

-----------------------------------------------------------------------------
(***************************************************************************)
(* The fork choice across crashes, by the total works of the database.     *)
(***************************************************************************)

\* The tip in memory has the total work of its DBBlock, and so does the job once it
\* has written its own.
TotalsInv ==
    /\ stage \in ExodusStages \cup RunStages => dbblock[blockTip.hash].work = blockTip.work
    /\ stage \in WrittenStages => dbblock[job.hash].work = job.db.work
    /\ stage = "reorganize" => job.db.work > blockTip.work

LEMMA NextTotals ==
    ASSUME Inv, TotalsInv, [Next]_vars
    PROVE  TotalsInv'
<1> USE DEF TotalsInv, RunStages, ExodusStages, WrittenStages
<1>1. /\ dbblock \in [Hashes -> DBBlocks \cup {None}]
      /\ job.hash \in Hashes /\ Genesis \in Hashes
  BY Tree DEF TreeAssumption, Inv, TypeInv, TypeOK, Jobs
<1>2. CASE Restart
  BY <1>2 DEF Restart, TipFromDisk, disk
<1>3. CASE FirstStart
  BY <1>3 DEF FirstStart
<1>4. CASE WriteExodusDBBlock
  BY <1>1, <1>4 DEF WriteExodusDBBlock, ExodusDBBlock
<1>5. CASE WriteExodusStatus \/ WriteExodusHeight \/ WriteExodusHeaderTip \/ WriteExodusBlockTip
  BY <1>5 DEF WriteExodusStatus, WriteExodusHeight, WriteExodusHeaderTip, WriteExodusBlockTip,
     memory, tips
<1>6. CASE \E h \in Hashes, body \in Bodies : Process(h, body)
  <2>1. stage = "idle" /\ stage' = "status" /\ UNCHANGED <<dbblock, blockTip>>
    BY <1>6, ProcessType DEF Inv, disk, tips
  <2> QED
    BY <2>1
<1>7. CASE WriteStatus
  BY <1>7 DEF WriteStatus, memory, tips
<1>8. CASE WriteDBBlock
  <2>1. /\ stage = "dbblock" /\ stage' = "headerTip" /\ UNCHANGED <<status, blockTip, job>>
        /\ dbblock' = [dbblock EXCEPT ![job.hash] = job.db]
    BY <1>8 DEF WriteDBBlock, memory, tips
  <2>2. blockTip.hash # job.hash
    <3>1. /\ blockTip.hash = diskTip /\ diskTip # None /\ job.hash \notin Main
          /\ diskTip \in Hashes /\ Main = Chain[diskTip]
      BY <2>1 DEF Inv, MainInv, TypeInv, TypeOK, Readability, Opened
    <3> QED
      BY <3>1, ChainType
  <2> QED
    BY <1>1, <2>1, <2>2
<1>9. CASE AdvanceHeaderTip \/ KeepHeaderTip
  <2>1. /\ stage = "headerTip" /\ UNCHANGED <<dbblock, blockTip>>
        /\ \/ stage' = "reorganize" /\ job' = job /\ job.db.work > blockTip.work
           \/ stage' = "idle"
    BY <1>9 DEF AdvanceHeaderTip, KeepHeaderTip, AfterHeaderTip, ForkChoice, disk, memory, tips
  <2> QED
    BY <2>1
<1>10. CASE Reorganize
  <2>1. stage = "reorganize" /\ stage' = "tip" /\ job' = job /\ blockTip' = blockTip
    BY <1>10 DEF Reorganize, memory, tips
  <2>2. \A h \in Hashes : dbblock[h] # None => dbblock'[h].work = dbblock[h].work
    BY <1>10, ReorganizeEffect
  <2>3. /\ dbblock[job.hash] # None /\ dbblock[blockTip.hash] # None
        /\ blockTip.hash \in Hashes
    BY <2>1 DEF Inv, MainInv, TypeInv, TypeOK, Readability
  <2> QED
    BY <1>1, <2>1, <2>2, <2>3
<1>11. CASE AbortReorganize \/ FailReorganize
  BY <1>11 DEF AbortReorganize, FailReorganize, disk, memory, tips
<1>12. CASE AdvanceBlockTip
  BY <1>12 DEF AdvanceBlockTip, JobTip, disk
<1>13. CASE Crash
  BY <1>13 DEF Crash
<1>14. CASE UNCHANGED vars
  BY <1>14 DEF vars, disk, memory, tips
<1> QED
  BY <1>2, <1>3, <1>4, <1>5, <1>6, <1>7, <1>8, <1>9, <1>10, <1>11, <1>12, <1>13, <1>14
     DEF Next, Run, Start, WriteExodus, FinishPut

\* A main chain is only replaced at once, by the whole chain of a valid block whose
\* total work on disk exceeds the old tip's, whatever a crash has left behind.
Outweighed ==
    [][Opened /\ Main' # Main =>
          \E h \in Hashes : /\ ChainValid(h) /\ Main' = Chain[h] /\ diskTip' = h
                            /\ dbblock[h].work > dbblock[diskTip].work]_vars

\* The fork choice also under Ghost, where a total work is not the chain's alone.
THEOREM MainChainOnlyOutweighed == Spec => Outweighed
<1>1. Init => TotalsInv
  BY DEF Init, TotalsInv, RunStages, ExodusStages, WrittenStages
<1>2. Inv /\ TotalsInv /\ [Next]_vars => TotalsInv'
  BY NextTotals
<1>3. ASSUME Inv, TotalsInv, Next, Opened, Main' # Main
      PROVE  \E h \in Hashes : /\ ChainValid(h) /\ Main' = Chain[h] /\ diskTip' = h
                               /\ dbblock[h].work > dbblock[diskTip].work
  <2>1. ~(Main = {}) /\ TipSet # {}
    BY <1>3, ChainType DEF Inv, MainInv, TypeInv, TypeOK, Opened, TipSet
  <2>2. /\ stage = "reorganize" /\ job.hash \in Hashes /\ ChainValid(job.hash)
        /\ blockTip.hash = diskTip /\ Main' = Chain[job.hash] /\ diskTip' = job.hash
    BY <1>3, <2>1, VisibleSteps
  <2>3. dbblock[job.hash].work > dbblock[diskTip].work
    BY <1>3, <2>2 DEF TotalsInv, RunStages, WrittenStages
  <2> QED
    BY <2>2, <2>3
<1> QED
  BY <1>1, <1>2, <1>3, Safe, PTL DEF Spec, Outweighed

=============================================================================
