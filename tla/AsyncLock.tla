------------------------------- MODULE AsyncLock -------------------------------
(***************************************************************************)
(* The semaphore of hycon-common: Parallel permits, a queue of promises,   *)
(* and hand-over of the permit of the one who leaves to the head of the    *)
(* queue.  Every critical section of the node runs under one of these:     *)
(* Consensus.lock, candidateLock, accountLock, dbLock, the send lock of a  *)
(* socket and the request semaphore of a peer, the last two with timeouts. *)
(***************************************************************************)
EXTENDS Integers, Sequences, FiniteSets, Functions

CONSTANTS
    Calls,       \* calls of critical() that may be under way at the same time
    Parallel,    \* the number of permits
    MaxQueue     \* 512: with more waiters than this a call is refused

ASSUME CallsAssumption == IsFiniteSet(Calls)
ASSUME LimitsAssumption == Parallel \in Nat \ {0} /\ MaxQueue \in Nat

VARIABLES
    locked,      \* permits in use
    queue,       \* lockTransferQueue, the calls whose promise it holds
    call,        \* where each call is
    gaveUp       \* a waiter has timed out or was rejected: never so for a lock
                 \* without a timer whose owner does not call rejectAll

lockVars == <<locked, queue, call, gaveUp>>

States == {"idle", "waiting", "granted", "inside"}

LockTypeOK ==
    /\ locked \in 0 .. Parallel
    /\ queue \in Seq(Calls)
    /\ call \in [Calls -> States]
    /\ gaveUp \in BOOLEAN

\* A lock made with locked = 1 belongs to its creator, who releases it when its
\* own initialization is over.
LockInit ==
    /\ queue = <<>>
    /\ gaveUp = FALSE
    /\ \E creator \in {{}} \cup {{c} : c \in Calls} :
          /\ locked = Cardinality(creator)
          /\ call = [c \in Calls |-> IF c \in creator THEN "inside" ELSE "idle"]

-----------------------------------------------------------------------------

\* A new call: one whose old promise is not in the queue any more.
CanCall(c) == call[c] = "idle" /\ c \notin Range(queue)

EnterOneMore(c) ==                             \* mutant: one caller too many
    /\ CanCall(c)
    /\ locked <= Parallel
    /\ locked' = locked + 1
    /\ call' = [call EXCEPT ![c] = "inside"]
    /\ UNCHANGED <<queue, gaveUp>>

Enter(c) ==
    /\ CanCall(c)
    /\ locked < Parallel
    /\ locked' = locked + 1
    /\ call' = [call EXCEPT ![c] = "inside"]
    /\ UNCHANGED <<queue, gaveUp>>

\* A call that finds the queue high throws at once and leaves no trace.
Refused == locked >= Parallel /\ Len(queue) > MaxQueue

Wait(c) ==
    /\ CanCall(c)
    /\ locked >= Parallel
    /\ ~Refused
    /\ queue' = Append(queue, c)
    /\ call' = [call EXCEPT ![c] = "waiting"]
    /\ UNCHANGED <<locked, gaveUp>>


\* The promise is rejected, its entry stays in the queue.
GiveUp(c) ==
    /\ call[c] = "waiting"
    /\ call' = [call EXCEPT ![c] = "idle"]
    /\ gaveUp' = TRUE
    /\ UNCHANGED <<locked, queue>>

RejectAll ==
    /\ \E c \in Calls : call[c] = "waiting"
    /\ call' = [c \in Calls |-> IF call[c] = "waiting" THEN "idle" ELSE call[c]]
    /\ gaveUp' = TRUE
    /\ UNCHANGED <<locked, queue>>

ReleaseLast(c) ==                              \* mutant: the permit of the last is kept
    /\ call[c] = "inside"
    /\ queue = <<>>
    /\ call' = [call EXCEPT ![c] = "idle"]
    /\ UNCHANGED <<locked, queue, gaveUp>>

\* Nobody waits: the permit is free again.
Free(c) ==
    /\ call[c] = "inside"
    /\ queue = <<>>
    /\ locked' = locked - 1
    /\ call' = [call EXCEPT ![c] = "idle"]
    /\ UNCHANGED <<queue, gaveUp>>

\* Mutant of HandOver: the newest waiter is served first.
HandOverLast(c) ==
    /\ call[c] = "inside"
    /\ queue # <<>>
    /\ LET next == queue[Len(queue)]
       IN  call' = [call EXCEPT ![c] = "idle",
                                ![next] = IF @ = "waiting" THEN "granted" ELSE @]
    /\ queue' = SubSeq(queue, 1, Len(queue) - 1)
    /\ UNCHANGED <<locked, gaveUp>>

\* The permit goes to the head of the queue, whose promise resolves in a later
\* turn; the promise of a waiter that gave up does not notice.
HandOver(c) ==
    /\ call[c] = "inside"
    /\ queue # <<>>
    /\ call' = [call EXCEPT ![c] = "idle",
                            ![Head(queue)] = IF @ = "waiting" THEN "granted" ELSE @]
    /\ queue' = Tail(queue)
    /\ UNCHANGED <<locked, gaveUp>>

Resume(c) ==
    /\ call[c] = "granted"
    /\ call' = [call EXCEPT ![c] = "inside"]
    /\ UNCHANGED <<locked, queue, gaveUp>>

Leave(c) == Free(c) \/ HandOver(c)

LockNext ==
    \/ \E c \in Calls : Enter(c) \/ Wait(c) \/ GiveUp(c) \/ Leave(c) \/ Resume(c)
    \/ RejectAll

LockSpec == LockInit /\ [][LockNext]_lockVars

\* Critical sections end, and immediates run.
FairLockSpec ==
    /\ LockSpec
    /\ \A c \in Calls : WF_lockVars(Leave(c)) /\ WF_lockVars(Resume(c))

-----------------------------------------------------------------------------

Inside == {c \in Calls : call[c] = "inside"}
Holders == {c \in Calls : call[c] \in {"granted", "inside"}}
Waiters == {c \in Calls : call[c] = "waiting"}

\* critical() admits at most Parallel callers at a time, whoever times out or is
\* rejected while the lock changes hands.
MutualExclusion == Cardinality(Inside) <= Parallel

\* Nobody waits while a permit is free: every permit that is not held is there
\* for the next getLock, until a hand-over has met a waiter that gave up.
NoPermitIsLost == ~gaveUp => locked = Cardinality(Holders)

\* Every caller that waits gets in, as long as the critical sections end and
\* nobody gives up.
EveryWaiterGetsIn == \A c \in Calls : call[c] = "waiting" ~> (call[c] = "inside" \/ gaveUp)

=============================================================================
