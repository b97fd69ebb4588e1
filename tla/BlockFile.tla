------------------------------- MODULE BlockFile -------------------------------
(***************************************************************************)
(* The append-only files that hold the blocks themselves.  The file in use *)
(* and the place where the next block goes are in memory; two keys of the  *)
(* database, written one after the other once a block is in its file, say  *)
(* where to go on after a restart.                                         *)
(*                                                                         *)
(* A file is a sequence of units, each of which knows which write it came  *)
(* from.  expandFile does not wait for its zeros: they go to the place the *)
(* next blocks go to, and land before the block that the file was expanded *)
(* for or at any time after it, as long as the process lives.              *)
(***************************************************************************)
EXTENDS Integers, Sequences

CONSTANTS
    Lengths,         \* of encoded blocks
    MaxFileSize,     \* 128 MB: a file that is larger is not expanded
    Expansion        \* 16 MB, more than any block

ASSUME FileAssumption ==
    /\ Lengths \subseteq 1 .. Expansion
    /\ MaxFileSize \in Nat /\ Expansion \in Nat

VARIABLES
    files,           \* the contents by file number
    fileNumberKey, filePositionKey,      \* "fileNumber" and "filePosition" of the database
    n, filePosition, fileSize,           \* memory
    zeros,           \* of expandFile, handed over and not written yet
    writing,         \* how far writeBlock of the database is
    place            \* where it has put the block

handle == <<n, filePosition, fileSize>>
fileVars == <<files, fileNumberKey, filePositionKey, handle, zeros, writing, place>>

Hole == <<>>                             \* no write at all
Zero(from) == <<from>>                   \* by the expandFile that began there
NoPlace == [file |-> 0, from |-> 0, to |-> 0]

FilesInit ==
    /\ files = [f \in {0} |-> <<>>]
    /\ fileNumberKey = 0 /\ filePositionKey = 0
    /\ n = 0 /\ filePosition = 0 /\ fileSize = 0
    /\ zeros = {}
    /\ writing = "no" /\ place = NoPlace

-----------------------------------------------------------------------------

\* write at a place, beyond the end as well
Written(content, from, length, unit) ==
    [i \in 1 .. (IF Len(content) > from + length THEN Len(content) ELSE from + length) |->
        IF i \in from + 1 .. from + length THEN unit
        ELSE IF i <= Len(content) THEN content[i]
        ELSE Hole]

\* O_CREAT without O_TRUNC: a file that is there keeps what is in it.
Contents(f) == IF f \in DOMAIN files THEN files[f] ELSE <<>>
Holding(f, content) == [k \in DOMAIN files \cup {f} |-> IF k = f THEN content ELSE files[k]]

\* After a start the file goes on where the keys say; open() itself starts at 0.
FileInitAtStart ==                       \* mutant: the position is set before the file is opened
    /\ n' = fileNumberKey
    /\ files' = Holding(fileNumberKey, Contents(fileNumberKey))
    /\ fileSize' = Len(Contents(fileNumberKey))
    /\ filePosition' = 0
    /\ zeros' = {} /\ writing' = "no" /\ place' = NoPlace
    /\ UNCHANGED <<fileNumberKey, filePositionKey>>

FileInit ==
    /\ n' = fileNumberKey
    /\ files' = Holding(fileNumberKey, Contents(fileNumberKey))
    /\ fileSize' = Len(Contents(fileNumberKey))
    /\ filePosition' = filePositionKey
    /\ zeros' = {} /\ writing' = "no" /\ place' = NoPlace
    /\ UNCHANGED <<fileNumberKey, filePositionKey>>

\* The block is at a place in file f, the contents of which are now c.
PutAt(f, c, from, length) ==
    /\ n' = f
    /\ files' = Holding(f, c)
    /\ filePosition' = from + length
    /\ place' = [file |-> f, from |-> from, to |-> from + length]
    /\ writing' = IF f # fileNumberKey THEN "number" ELSE "position"
    /\ UNCHANGED <<fileNumberKey, filePositionKey>>

HasRoom(length) == fileSize >= filePosition + length

PutInRoom(length, unit) ==
    /\ HasRoom(length)
    /\ PutAt(n, Written(files[n], filePosition, length, unit), filePosition, length)
    /\ UNCHANGED <<fileSize, zeros>>

Zeroed(content, from) == Written(content, from, Expansion, Zero(from))

\* The zeros and the block both go to filePosition and on; the zeros land first, or later.
PutExpanding(length, unit) ==
    /\ ~HasRoom(length) /\ fileSize <= MaxFileSize
    /\ \/ /\ PutAt(n, Written(Zeroed(files[n], filePosition), filePosition, length, unit),
                    filePosition, length)
          /\ UNCHANGED zeros
       \/ /\ PutAt(n, Written(files[n], filePosition, length, unit), filePosition, length)
          /\ zeros' = zeros \cup {[file |-> n, from |-> filePosition]}
    /\ fileSize' = fileSize + Expansion

ZerosLand ==
    \E z \in zeros :
        /\ files' = Holding(z.file, Zeroed(Contents(z.file), z.from))
        /\ zeros' = zeros \ {z}
        /\ UNCHANGED <<fileNumberKey, filePositionKey, handle, writing, place>>

PutInNextFile(length, unit) ==
    /\ ~HasRoom(length) /\ fileSize > MaxFileSize
    /\ PutAt(n + 1, Written(Contents(n + 1), 0, length, unit), 0, length)
    /\ fileSize' = Len(Contents(n + 1))
    /\ UNCHANGED zeros

\* Database.writeBlock: the file, then the two keys.
Put(unit) ==
    /\ writing = "no"
    /\ \E length \in Lengths :
          PutInRoom(length, unit) \/ PutExpanding(length, unit) \/ PutInNextFile(length, unit)

PutFileNumber ==
    /\ writing = "number"
    /\ fileNumberKey' = n
    /\ writing' = "position"
    /\ UNCHANGED <<files, filePositionKey, handle, zeros, place>>

PutFilePosition ==
    /\ writing = "position"
    /\ filePositionKey' = filePosition
    /\ writing' = "done"
    /\ UNCHANGED <<files, fileNumberKey, handle, zeros, place>>

\* What get reads back is the block that was written there, but where the zeros of an
\* expandFile have come over it that began no later in the file than the block.
HoldsButForZeros(p, unit) ==
    /\ p.to <= Len(Contents(p.file))
    /\ \A i \in p.from + 1 .. p.to :
          files[p.file][i] = unit \/ \E from \in 0 .. p.from : files[p.file][i] = Zero(from)

=============================================================================
