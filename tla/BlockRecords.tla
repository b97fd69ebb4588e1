------------------------------ MODULE BlockRecords ------------------------------
(***************************************************************************)
(* How Consensus records a block: it goes to the block file, its accounts  *)
(* to the account database, and then its DBBlock, with its place in the    *)
(* file, to the block database.  The process may die between any two of    *)
(* these writes; it then starts again from what is written.                *)
(***************************************************************************)
EXTENDS WorldState, BlockFile

VARIABLE places        \* offset, length and file number in the DBBlocks of blocks

recordVars == <<vars, fileVars, places>>

RecordInit == Init /\ FilesInit /\ places = <<>>

\* The write of the block that is being put: nothing else is ever written twice.
Unit == <<Len(blocks), crashes>>

\* The exodus block is filed after its accounts are written, any other one before.
Filed == writing = "done"
MayFile == job.step = IF blocks = <<>> THEN "written" ELSE "computed"

File ==
    /\ MayFile
    /\ Put(Unit) \/ PutFileNumber \/ PutFilePosition
    /\ UNCHANGED <<vars, places>>

LateZeros == ZerosLand /\ UNCHANGED <<vars, places>>

PutAccounts ==
    /\ blocks = <<>> \/ Filed
    /\ WriteAccounts
    /\ UNCHANGED <<fileVars, places>>

Record ==
    /\ Filed
    /\ RecordBlock
    /\ places' = Append(places, place)
    /\ writing' = "no" /\ place' = NoPlace
    /\ UNCHANGED <<files, fileNumberKey, filePositionKey, handle, zeros>>

CrashAndStart == Crash /\ FileInit /\ UNCHANGED places

RecordNext ==
    \/ (Initialize \/ PutBlock \/ CreateCandidate \/ PutCandidate) /\ UNCHANGED <<fileVars, places>>
    \/ File \/ LateZeros \/ PutAccounts \/ Record \/ CrashAndStart

RecordSpec == RecordInit /\ [][RecordNext]_recordVars

-----------------------------------------------------------------------------

\* Nothing but zeros of an expandFile that are overtaken ever harms a recorded block: not
\* a block appended later, a next file, a crash between the file and its two keys, nor an
\* expansion that began after the block was recorded; and whatever harms one keeps its place.
OnlyLateZerosHarm ==
    \A i \in DOMAIN places : \E c \in 0 .. crashes : HoldsButForZeros(places[i], <<i - 1, c>>)

=============================================================================
