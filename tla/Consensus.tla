------------------------------ MODULE Consensus ------------------------------
(***************************************************************************)
(* The block store of a hycon node: what Consensus.put does to a header or *)
(* a block, write by write.                                                *)
(*                                                                         *)
(* put runs under Consensus.lock, so one header or block (the job) is in   *)
(* flight at a time; between its writes to the database the process may    *)
(* die, and readers outside the lock see what is written so far.  The      *)
(* database survives a crash, the two tips in memory and the job do not.   *)
(***************************************************************************)
EXTENDS BlockTree, Integers

CONSTANTS
    None,                        \* an absent database entry, an undefined tip
    RecentHeaderTrackingRange    \* 20; 0 if headers are not remembered as uncles

\* BlockStatus, in the order of its numeric values -1, 0, 1, 1.5, 2, 3.
Rejected     == 0
Nothing      == 1
Header       == 2
InvalidBlock == 3   \* header valid, uncles or block invalid
Block        == 4
MainChain    == 5
Statuses == Rejected .. MainChain

Bodies == {"none", "match", "mismatch"}  \* mismatch: not the header's merkle root

VARIABLES
    \* the database
    status,         \* "s" + hash
    dbblock,        \* "b" + hash
    hashAt,         \* height -> hash
    diskTip,        \* "__blockTip"
    diskHeaderTip,  \* "__headerTip"
    \* memory
    blockTip,       \* the hash and total work of Consensus.blockTip
    headerTip,      \* the hash and total work of Consensus.headerTip
    recentHeaders,  \* of UncleManager
    stage,          \* the next write of the job, or of the node's start
    job             \* the put that holds the lock

disk == <<status, dbblock, hashAt, diskTip, diskHeaderTip>>
tips == <<blockTip, headerTip>>
memory == <<tips, recentHeaders>>
vars == <<disk, memory, stage, job>>

Heights == {Height[h] : h \in Hashes}

\* linked: nextBlockDifficulty has been computed; stored: the body is in the
\* block file.  A header's entry has neither.
DBBlocks == [work : Nat, uncle : BOOLEAN, linked : BOOLEAN, stored : BOOLEAN]
Tips == [hash : Hashes, work : Nat]
Jobs == [hash : Hashes, new : Statuses, db : DBBlocks \cup {None}]
Stages == {"down", "exodusDBBlock", "exodusStatus", "exodusHeight",
           "exodusHeaderTip", "exodusBlockTip", "idle", "status", "dbblock",
           "headerTip", "reorganize", "tip"}

ASSUME RangeAssumption == RecentHeaderTrackingRange \in Nat
ASSUME NoneIsNoValue == None \notin Hashes /\ None \notin DBBlocks /\ None \notin Tips

NoJob == [hash |-> Genesis, new |-> Nothing, db |-> None]

TypeOK ==
    /\ status \in [Hashes -> Statuses]
    /\ dbblock \in [Hashes -> DBBlocks \cup {None}]
    /\ hashAt \in [Heights -> Hashes \cup {None}]
    /\ diskTip \in Hashes \cup {None}
    /\ diskHeaderTip \in Hashes \cup {None}
    /\ blockTip \in Tips \cup {None}
    /\ headerTip \in Tips \cup {None}
    /\ recentHeaders \subseteq Hashes
    /\ stage \in Stages
    /\ job \in Jobs

Init ==
    /\ status = [h \in Hashes |-> Nothing]
    /\ dbblock = [h \in Hashes |-> None]
    /\ hashAt = [n \in Heights |-> None]
    /\ diskTip = None
    /\ diskHeaderTip = None
    /\ blockTip = None
    /\ headerTip = None
    /\ recentHeaders = {}
    /\ stage = "down"
    /\ job = NoJob

-----------------------------------------------------------------------------
(***************************************************************************)
(* Start, the exodus block, and the end of the process at any moment.      *)
(***************************************************************************)

\* A tip key may only be read back when its DBBlock can be.
TipWithoutWork(h) == [hash |-> h, work |-> None]      \* mutant of TipFromDisk
TipFromDisk(h) == [hash |-> h, work |-> dbblock[h].work]

Restart ==
    /\ stage = "down"
    /\ diskTip # None
    /\ blockTip' = TipFromDisk(diskTip)
    /\ headerTip' = TipFromDisk(diskHeaderTip)
    /\ stage' = "idle"
    /\ UNCHANGED <<disk, recentHeaders, job>>

\* Without a block tip the exodus block is written, its tip key last.
FirstStart ==
    /\ stage = "down"
    /\ diskTip = None
    /\ stage' = "exodusDBBlock"
    /\ UNCHANGED <<disk, memory, job>>

ExodusDBBlock == [work |-> 0, uncle |-> FALSE, linked |-> TRUE, stored |-> TRUE]

WriteExodusDBBlock ==
    /\ stage = "exodusDBBlock"
    /\ dbblock' = [dbblock EXCEPT ![Genesis] = ExodusDBBlock]
    /\ blockTip' = [hash |-> Genesis, work |-> 0]
    /\ headerTip' = [hash |-> Genesis, work |-> 0]
    /\ stage' = "exodusStatus"
    /\ UNCHANGED <<status, hashAt, diskTip, diskHeaderTip, recentHeaders, job>>

WriteExodusStatus ==
    /\ stage = "exodusStatus"
    /\ status' = [status EXCEPT ![Genesis] = MainChain]
    /\ stage' = "exodusHeight"
    /\ UNCHANGED <<dbblock, hashAt, diskTip, diskHeaderTip, memory, job>>

WriteExodusHeight ==
    /\ stage = "exodusHeight"
    /\ hashAt' = [hashAt EXCEPT ![0] = Genesis]
    /\ stage' = "exodusHeaderTip"
    /\ UNCHANGED <<status, dbblock, diskTip, diskHeaderTip, memory, job>>

WriteExodusHeaderTip ==
    /\ stage = "exodusHeaderTip"
    /\ diskHeaderTip' = Genesis
    /\ stage' = "exodusBlockTip"
    /\ UNCHANGED <<status, dbblock, hashAt, diskTip, memory, job>>

WriteExodusBlockTip ==
    /\ stage = "exodusBlockTip"
    /\ diskTip' = Genesis
    /\ stage' = "idle"
    /\ UNCHANGED <<status, dbblock, hashAt, diskHeaderTip, memory, job>>

WriteExodus == \/ WriteExodusDBBlock \/ WriteExodusStatus \/ WriteExodusHeight
               \/ WriteExodusHeaderTip \/ WriteExodusBlockTip

Crash ==
    /\ stage # "down"
    /\ stage' = "down"
    /\ blockTip' = None
    /\ headerTip' = None
    /\ recentHeaders' = {}
    /\ job' = NoJob
    /\ UNCHANGED disk

-----------------------------------------------------------------------------
(***************************************************************************)
(* process: what the database says of the header or block decides which of *)
(* the following outcomes the job carries to its writes.  An outcome that  *)
(* writes nothing (an unknown predecessor, a status that is final, an      *)
(* exception on a missing DBBlock) is a stuttering step and has no action. *)
(***************************************************************************)

\* Mutant of CanProcess: a verdict is not final.
CanProcessAgain(h) ==
    /\ stage = "idle"
    /\ h # Genesis
    /\ status[h] \in {Nothing, Header, InvalidBlock}
    /\ status[Prev[h]] > Nothing
    /\ dbblock[Prev[h]] # None

CanProcess(h) ==
    /\ stage = "idle"
    /\ h # Genesis
    /\ status[h] \in {Nothing, Header}
    /\ status[Prev[h]] > Nothing
    /\ dbblock[Prev[h]] # None

HasBlock(h, body) == body # "none" \/ h \in NoTxs
Matches(h, body) == body = "match" \/ h \in NoTxs

\* The result's dbBlock: made from the header, or read back if that was done.
\* The first total work of a header never counts its uncles.
NewDBBlock(h) == [work |-> dbblock[Prev[h]].work + Work[h], uncle |-> FALSE,
                  linked |-> FALSE, stored |-> FALSE]
ResultDBBlock(h) == IF status[h] = Nothing THEN NewDBBlock(h) ELSE dbblock[h]

Near(height, tipHeight, range) == height - tipHeight \in -range .. range

\* setUncleHeader, for a header that is valid and was not known before.  Nothing is
\* ever taken out of recentHeaders.
SetUncleHeader(h, new) ==
    recentHeaders' =
        IF /\ status[h] = Nothing
           /\ new # Rejected
           /\ Near(Height[h], Height[blockTip.hash], RecentHeaderTrackingRange - 1)
        THEN recentHeaders \cup {h}
        ELSE recentHeaders

Finish(h, new, db) ==
    /\ stage' = "status"
    /\ job' = [hash |-> h, new |-> new, db |-> db]
    /\ SetUncleHeader(h, new)
    /\ UNCHANGED <<disk, tips>>

RejectHeader(h) ==
    /\ CanProcess(h)
    /\ status[h] = Nothing
    /\ h \notin HeaderValid
    /\ Finish(h, Rejected, None)

\* A header alone, or a block whose predecessor is not (yet) a valid block.
AcceptHeader(h, body) ==
    /\ CanProcess(h)
    /\ status[h] = Nothing
    /\ h \in HeaderValid
    /\ ~HasBlock(h, body) \/ status[Prev[h]] < Block
    /\ Finish(h, Header, NewDBBlock(h))

CanProcessBlock(h, body) ==
    /\ CanProcess(h)
    /\ status[h] = Header \/ h \in HeaderValid
    /\ HasBlock(h, body)
    /\ status[Prev[h]] >= Block

UncleMissing(h) == \E u \in Uncles[h] : status[u] = Nothing
\* Mutant of UncleRejected: an unknown uncle is held against the block.
UncleNotKnownValid(h) == \E u \in Uncles[h] : status[u] \in {Nothing, Rejected}
UncleRejected(h) == \E u \in Uncles[h] : status[u] = Rejected

\* missingUncles is emitted: the block has to be put again once they are known.
AwaitUncles(h, body) ==
    /\ CanProcessBlock(h, body)
    /\ UncleMissing(h)
    /\ ~UncleRejected(h)
    /\ ResultDBBlock(h) # None
    /\ Finish(h, Header, ResultDBBlock(h))

RejectUncles(h, body) ==
    /\ CanProcessBlock(h, body)
    /\ \/ UncleRejected(h)
       \/ /\ ~UncleMissing(h)
          /\ ResultDBBlock(h) # None
          /\ \E u \in TooOldUncles(h) : dbblock[u] # None
    /\ Finish(h, InvalidBlock, ResultDBBlock(h))

\* From here on the uncles' DBBlocks and the result's have been dereferenced.
UnclesProcessed(h, body) ==
    /\ CanProcessBlock(h, body)
    /\ \A u \in Uncles[h] : status[u] \notin {Nothing, Rejected} /\ dbblock[u] # None
    /\ TooOldUncles(h) = {}
    /\ ResultDBBlock(h) # None

\* Jabiru computes nextBlockDifficulty before it looks at the block itself.
LinkedDBBlock(h) == [ResultDBBlock(h) EXCEPT !.linked = @ \/ ~IsGhost(h)]

\* The predecessor's nextBlockDifficulty: the last ghost block's is filled in
\* from its header, a DBBlock that was never linked reads back as 0.
DifficultyMatchesAfterGhost(h) ==     \* mutant: unchecked at the change of rules
    \/ IsGhost(h) \/ IsGhost(Prev[h])
    \/ h \in DifficultyValid /\ dbblock[Prev[h]].linked
DifficultyMatches(h) ==
    \/ IsGhost(h)
    \/ h \in DifficultyValid /\ (IsGhost(Prev[h]) \/ dbblock[Prev[h]].linked)

RejectDifficulty(h, body) ==
    /\ UnclesProcessed(h, body)
    /\ ~DifficultyMatches(h)
    /\ Finish(h, InvalidBlock, LinkedDBBlock(h))

\* A body that is not the header's: the header keeps waiting for its block.
IgnoreBody(h, body) ==
    /\ UnclesProcessed(h, body)
    /\ DifficultyMatches(h)
    /\ ~Matches(h, body)
    /\ Finish(h, Header, LinkedDBBlock(h))

RejectTxs(h, body) ==
    /\ UnclesProcessed(h, body)
    /\ DifficultyMatches(h)
    /\ Matches(h, body)
    /\ h \notin TxsValid
    /\ Finish(h, InvalidBlock, LinkedDBBlock(h))

\* The body is in the block file; under Ghost the uncles' work is added now.
StoredDBBlock(h) ==
    [work   |-> ResultDBBlock(h).work + (IF IsGhost(h) THEN UncleWork[h] ELSE 0),
     uncle  |-> ResultDBBlock(h).uncle,
     linked |-> LinkedDBBlock(h).linked,
     stored |-> TRUE]

AcceptBlock(h, body) ==
    /\ UnclesProcessed(h, body)
    /\ DifficultyMatches(h)
    /\ Matches(h, body)
    /\ h \in TxsValid
    /\ Finish(h, Block, StoredDBBlock(h))

Process(h, body) ==
    \/ RejectHeader(h)
    \/ AcceptHeader(h, body)
    \/ AwaitUncles(h, body)
    \/ RejectUncles(h, body)
    \/ RejectDifficulty(h, body)
    \/ IgnoreBody(h, body)
    \/ RejectTxs(h, body)
    \/ AcceptBlock(h, body)

-----------------------------------------------------------------------------
(***************************************************************************)
(* put: the writes of the job, one database call at a time.                *)
(***************************************************************************)

WriteStatus ==
    /\ stage = "status"
    /\ status' = [status EXCEPT ![job.hash] = job.new]
    /\ \/ /\ job.db = None \/ job.new < Header
          /\ stage' = "idle"
          /\ job' = NoJob
       \/ /\ job.db # None
          /\ job.new >= Header
          /\ stage' = "dbblock"
          /\ UNCHANGED job
    /\ UNCHANGED <<dbblock, hashAt, diskTip, diskHeaderTip, memory>>

WriteDBBlock ==
    /\ stage = "dbblock"
    /\ dbblock' = [dbblock EXCEPT ![job.hash] = job.db]
    /\ stage' = "headerTip"
    /\ UNCHANGED <<status, hashAt, diskTip, diskHeaderTip, memory, job>>

JobTip == [hash |-> job.hash, work |-> job.db.work]

ForkChoiceNotLighter(tip) == job.db.work >= tip.work                  \* mutant
ForkChoiceLongest(tip) == Height[job.hash] > Height[tip.hash]        \* mutant
ForkChoice(tip) == job.db.work > tip.work

AfterHeaderTip ==
    \/ job.new >= Block /\ ForkChoice(blockTip) /\ stage' = "reorganize" /\ UNCHANGED job
    \/ ~(job.new >= Block /\ ForkChoice(blockTip)) /\ stage' = "idle" /\ job' = NoJob

AdvanceHeaderTip ==
    /\ stage = "headerTip"
    /\ ForkChoice(headerTip)
    /\ headerTip' = JobTip
    /\ diskHeaderTip' = job.hash
    /\ AfterHeaderTip
    /\ UNCHANGED <<status, dbblock, hashAt, diskTip, blockTip, recentHeaders>>

KeepHeaderTip ==
    /\ stage = "headerTip"
    /\ ~ForkChoice(headerTip)
    /\ AfterHeaderTip
    /\ UNCHANGED <<disk, memory>>

-----------------------------------------------------------------------------
(***************************************************************************)
(* reorganize: the walk back from the new block to the main chain, the     *)
(* blocks popped above it, and the uncles checked push by push against the *)
(* deferred changes, which one batch commits.                              *)
(***************************************************************************)

Main == {h \in Hashes : status[h] = MainChain}
UncleFlags == {h \in Hashes : dbblock[h] # None /\ dbblock[h].uncle}
UnclesOf(S) == UNION {Uncles[h] : h \in S}

\* newBlockHashes: back from the new block until the first MainChain ancestor.
Pushed == {h \in Chain[job.hash] :
              \A m \in Chain[job.hash] \cap Main : Height[m] < Height[h]}

\* Down from the tip to popStopHeight, the height of the lowest pushed block.
PoppedTooFew == {h \in Chain[blockTip.hash] : \E p \in Pushed : Height[p] < Height[h]} \* mutant
Popped == {h \in Chain[blockTip.hash] : \E p \in Pushed : Height[p] <= Height[h]}

PushedBefore(p) == {q \in Pushed : Height[q] < Height[p]}

\* What the deferred database holds when p is about to be pushed.
MainBefore(p) == (Main \ Popped) \cup PushedBefore(p)
FlagsBeforeUnpopped(p) == UncleFlags \cup UnclesOf(PushedBefore(p))   \* mutant
FlagsBefore(p) == (UncleFlags \ UnclesOf(Popped)) \cup UnclesOf(PushedBefore(p))

\* validateUncles
UnclesValid(p) ==
    \A u \in Uncles[p] :
        /\ status[u] \notin {Nothing, Rejected}
        /\ u \notin MainBefore(p)
        /\ u \notin FlagsBefore(p)
        /\ u # Genesis
        /\ Prev[u] \in MainBefore(p)

\* The first pushed block with bad uncles, and every block after it.
Aborted == {p \in Pushed : \E q \in Pushed : Height[q] <= Height[p] /\ ~UnclesValid(q)}

\* The pushed blocks whose uncles are looked at.
Checked == {p \in Pushed : \A q \in PushedBefore(p) : UnclesValid(q)}

\* Every body on either side of the fork and every uncle of a popped or checked
\* block has to be read back: an exception ends the put without a change.
Readable ==
    /\ \A h \in (Pushed \cup Popped) \ {job.hash} :
          dbblock[h] # None /\ dbblock[h].stored
    /\ \A u \in UnclesOf(Popped \cup Checked) : dbblock[u] # None

\* setUncle: pops give the flag back first, pushes then take it.
FlaggedForever(h) == h \in UnclesOf(Pushed) \/ dbblock[h].uncle         \* mutant
Flagged(h) == h \in UnclesOf(Pushed) \/ (dbblock[h].uncle /\ h \notin UnclesOf(Popped))

\* setHashAtHeight
PushedTipAt(n) == {p \in {job.hash} : Height[p] = n}                   \* mutant
PushedAt(n) == {p \in Pushed : Height[p] = n}

Reorganize ==
    /\ stage = "reorganize"
    /\ Readable
    /\ Aborted = {}
    /\ status' = [h \in Hashes |-> IF h \in Pushed THEN MainChain
                                   ELSE IF h \in Popped THEN Block ELSE status[h]]
    /\ dbblock' = [h \in Hashes |->
                      IF dbblock[h] = None THEN None
                      ELSE [dbblock[h] EXCEPT !.uncle = Flagged(h)]]
    /\ hashAt' = [n \in Heights |-> IF PushedAt(n) = {} THEN hashAt[n]
                                    ELSE CHOOSE p \in PushedAt(n) : TRUE]
    /\ diskTip' = job.hash
    /\ stage' = "tip"
    /\ UNCHANGED <<diskHeaderTip, memory, job>>

\* The changes are reverted, then the aborted blocks marked and committed.
AbortReorganize ==
    /\ stage = "reorganize"
    /\ Readable
    /\ Aborted # {}
    /\ status' = [h \in Hashes |-> IF h \in Aborted THEN InvalidBlock ELSE status[h]]
    /\ stage' = "idle"
    /\ job' = NoJob
    /\ UNCHANGED <<dbblock, hashAt, diskTip, diskHeaderTip, memory>>

FailReorganize ==
    /\ stage = "reorganize"
    /\ ~Readable
    /\ stage' = "idle"
    /\ job' = NoJob
    /\ UNCHANGED <<disk, memory>>

AdvanceBlockTip ==
    /\ stage = "tip"
    /\ blockTip' = JobTip
    /\ stage' = "idle"
    /\ job' = NoJob
    /\ UNCHANGED <<disk, headerTip, recentHeaders>>

-----------------------------------------------------------------------------

Start == Restart \/ FirstStart \/ WriteExodus

FinishPut ==
    \/ WriteStatus
    \/ WriteDBBlock
    \/ AdvanceHeaderTip
    \/ KeepHeaderTip
    \/ Reorganize
    \/ AbortReorganize
    \/ FailReorganize
    \/ AdvanceBlockTip

Run == Start \/ FinishPut \/ \E h \in Hashes, body \in Bodies : Process(h, body)

Next == Run \/ Crash

Spec == Init /\ [][Next]_vars

\* The lock holder always gets on, and peers keep sending every block until it is
\* stored.
Fairness ==
    /\ WF_vars(Start)
    /\ WF_vars(FinishPut)
    /\ \A h \in Hashes : SF_vars(Process(h, "match"))

\* A process that never dies.
CrashFreeSpec == Init /\ [][Run]_vars /\ Fairness

=============================================================================
