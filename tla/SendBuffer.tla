------------------------------ MODULE SendBuffer ------------------------------
(***************************************************************************)
(* The sending half of SocketParser on both ends of a connection: the send *)
(* lock, the write buffer that all packet headers share, the bytes Node    *)
(* keeps in user memory while the kernel is full, and the drain event.     *)
(*                                                                         *)
(* A packet is written in three parts, prefix, header and body.  The parts *)
(* lie in outq until the kernel has room; the channel between the kernels  *)
(* holds Capacity parts.  The header part is a reference to writeBuffer:   *)
(* what leaves is what the buffer holds by then.                           *)
(***************************************************************************)
EXTENDS Integers, Sequences, FiniteSetsExt, SequencesExt

CONSTANTS
    Ends,
    Packets,    \* the packets that the two ends send
    From,       \* the end a packet is sent by
    Size,       \* the size of its body
    HighWater,  \* 16 KB: a write that reaches it is followed by a drain event
    Limit,      \* 1 MB: from here on the lock is kept until the drain event
    Capacity    \* bound: parts that the kernels hold in one direction

ASSUME SizesAssumption == /\ Size \in [Packets -> Nat]
                          /\ HighWater \in Nat /\ Limit \in Nat
                          /\ Capacity \in Nat \ {0}
ASSUME EndsAssumption == From \in [Packets -> Ends]

VARIABLES
    locked,      \* of the send lock of an end
    waiters,     \* its lockTransferQueue
    send,        \* where a call of send is
    writeBuffer, \* the packet whose route and length it holds
    outq,        \* parts in user memory
    needDrain,   \* of the writable stream
    paused,      \* the end does not read
    channel,     \* parts on their way from an end to the other
    received     \* what arrived from an end

lockVars == <<locked, waiters, send>>
wireVars == <<channel, received>>
vars == <<lockVars, writeBuffer, outq, needDrain, paused, wireVars>>

SendStates == {"new", "waiting", "holding", "keeping", "done", "failed"}
Fields == {"prefix", "header", "body"}
Parts == [packet : Packets, field : Fields]

TypeOK ==
    /\ locked \in [Ends -> Int] /\ \A e \in Ends : locked[e] <= 1
    /\ waiters \in [Ends -> Seq(Packets)]
    /\ send \in [Packets -> SendStates]
    /\ writeBuffer \in [Ends -> SUBSET Packets]
    /\ outq \in [Ends -> Seq(Parts)]
    /\ needDrain \in [Ends -> BOOLEAN]
    /\ paused \in [Ends -> BOOLEAN]
    /\ channel \in [Ends -> Seq(Parts)]
    /\ \A e \in Ends : Len(channel[e]) <= Capacity
    /\ received \in [Ends -> Seq(Parts)]

Init ==
    /\ locked = [e \in Ends |-> 0]
    /\ waiters = [e \in Ends |-> <<>>]
    /\ send = [p \in Packets |-> "new"]
    /\ writeBuffer = [e \in Ends |-> {}]
    /\ outq = [e \in Ends |-> <<>>]
    /\ needDrain = [e \in Ends |-> FALSE]
    /\ paused = [e \in Ends |-> FALSE]
    /\ channel = [e \in Ends |-> <<>>]
    /\ received = [e \in Ends |-> <<>>]

-----------------------------------------------------------------------------

Other(e) == CHOOSE d \in Ends : d # e

\* releaseLock: calls is what the caller has made of send.
Release(e, calls) ==
    \/ /\ waiters[e] = <<>>
       /\ locked' = [locked EXCEPT ![e] = @ - 1]
       /\ send' = calls
       /\ UNCHANGED waiters
    \/ /\ waiters[e] # <<>>
       /\ waiters' = [waiters EXCEPT ![e] = Tail(@)]
       /\ send' = [calls EXCEPT ![Head(waiters[e])] = IF @ = "waiting" THEN "holding" ELSE @]
       /\ UNCHANGED locked

GetLock(p) ==
    /\ send[p] = "new"
    /\ \/ /\ locked[From[p]] < 1
          /\ locked' = [locked EXCEPT ![From[p]] = @ + 1]
          /\ send' = [send EXCEPT ![p] = "holding"]
          /\ UNCHANGED waiters
       \/ /\ locked[From[p]] >= 1
          /\ waiters' = [waiters EXCEPT ![From[p]] = Append(@, p)]
          /\ send' = [send EXCEPT ![p] = "waiting"]
          /\ UNCHANGED locked
    /\ UNCHANGED <<writeBuffer, outq, needDrain, paused, wireVars>>

\* The call gives up after 30 seconds; its entry stays in the queue.
TimeOut(p) ==
    /\ send[p] = "waiting"
    /\ send' = [send EXCEPT ![p] = "failed"]
    /\ UNCHANGED <<locked, waiters, writeBuffer, outq, needDrain, paused, wireVars>>

SizeOf(parts) ==
    FoldLeft(LAMBDA sum, part : sum + (IF part.field = "body" THEN Size[part.packet] ELSE 0), 0, parts)

\* A header leaves with what the shared buffer holds at that moment.
Resolved(part, buffer) ==
    IF part.field = "header" THEN [part EXCEPT !.packet = CHOOSE p \in buffer : TRUE] ELSE part

\* The kernel takes at once what it has room for, if nothing is queued before.
TakenAtOnce(e) == IF outq[e] = <<>> THEN Min({3, Capacity - Len(channel[e])}) ELSE 0

Write(p) ==
    LET e == From[p]
        parts == <<[packet |-> p, field |-> "prefix"], [packet |-> p, field |-> "header"],
                   [packet |-> p, field |-> "body"]>>
        taken == SubSeq(parts, 1, TakenAtOnce(e))
        queued == outq[e] \o SubSeq(parts, TakenAtOnce(e) + 1, 3)
    IN  /\ send[p] = "holding"
        /\ writeBuffer' = [writeBuffer EXCEPT ![e] = {p}]
        /\ outq' = [outq EXCEPT ![e] = queued]
        /\ channel' = [channel EXCEPT ![e] = @ \o taken]
        /\ needDrain' = [needDrain EXCEPT ![e] = @ \/ SizeOf(outq[e] \o parts) >= HighWater]
        /\ \/ /\ SizeOf(queued) < Limit
              /\ Release(e, [send EXCEPT ![p] = "done"])
              /\ UNCHANGED paused
           \/ /\ SizeOf(queued) >= Limit
              /\ paused' = [paused EXCEPT ![e] = TRUE]
              /\ send' = [send EXCEPT ![p] = "keeping"]
              /\ UNCHANGED <<locked, waiters>>
        /\ UNCHANGED received

\* The kernel has room again for the next part.
Flush(e) ==
    /\ outq[e] # <<>>
    /\ Len(channel[e]) < Capacity
    /\ channel' = [channel EXCEPT ![e] = Append(@, Resolved(Head(outq[e]), writeBuffer[e]))]
    /\ outq' = [outq EXCEPT ![e] = Tail(@)]
    /\ UNCHANGED <<lockVars, writeBuffer, needDrain, paused, received>>

Kept(e) == {p \in Packets : From[p] = e /\ send[p] = "keeping"}
Finished(e) == [p \in Packets |-> IF p \in Kept(e) THEN "done" ELSE send[p]]

DrainWithoutRelease(e) ==                      \* mutant: the lock stays with the send
    /\ needDrain[e]
    /\ outq[e] = <<>>
    /\ needDrain' = [needDrain EXCEPT ![e] = FALSE]
    /\ paused' = [paused EXCEPT ![e] = FALSE]
    /\ UNCHANGED <<lockVars, writeBuffer, outq, wireVars>>

\* User memory is empty again: the event releases the lock, for a send that
\* kept it or not.
Drain(e) ==
    /\ needDrain[e]
    /\ outq[e] = <<>>
    /\ needDrain' = [needDrain EXCEPT ![e] = FALSE]
    /\ paused' = [paused EXCEPT ![e] = FALSE]
    /\ Release(e, Finished(e))
    /\ UNCHANGED <<writeBuffer, outq, wireVars>>

\* An end that is not paused reads the next part.
Read(e) ==
    /\ ~paused[e]
    /\ channel[Other(e)] # <<>>
    /\ received' = [received EXCEPT ![Other(e)] = Append(@, Head(channel[Other(e)]))]
    /\ channel' = [channel EXCEPT ![Other(e)] = Tail(@)]
    /\ UNCHANGED <<lockVars, writeBuffer, outq, needDrain, paused>>

Next ==
    \/ \E p \in Packets : GetLock(p) \/ TimeOut(p) \/ Write(p)
    \/ \E e \in Ends : Flush(e) \/ Drain(e) \/ Read(e)

Spec == Init /\ [][Next]_vars

\* Promises resolve, timers fire, the kernels move bytes, and an end that reads
\* goes on reading; nobody has to call send.
FairSpec ==
    /\ Spec
    /\ \A p \in Packets : WF_vars(Write(p)) /\ WF_vars(TimeOut(p))
    /\ \A e \in Ends : WF_vars(Flush(e)) /\ WF_vars(Drain(e)) /\ WF_vars(Read(e))

-----------------------------------------------------------------------------

\* socketParser.ts: a lock that is kept at the limit "will be released in drain
\* event".
KeptLocksAreReleased ==
    \A p \in Packets : send[p] = "keeping" ~> send[p] = "done"

\* What arrives is prefix, header and body of one packet after the other.
WireIsWellFramed ==
    \A e \in Ends : \A i \in DOMAIN received[e] :
        received[e][i].field = "body" =>
            i > 2 /\ received[e][i - 1] = [packet |-> received[e][i].packet, field |-> "header"]

=============================================================================
