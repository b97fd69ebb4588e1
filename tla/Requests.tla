------------------------------- MODULE Requests -------------------------------
(***************************************************************************)
(* The requests of a peer (BasePeer) over one connection.  This end gives  *)
(* each request a reply id, keeps its promise in replyMap under that id    *)
(* and arms a timer; the other end runs the handler of a request under its *)
(* request semaphore, and sends the reply with the id it came with.        *)
(* Replies pass the semaphore by.  The semaphore is the lock of            *)
(* hycon-common with timers, AsyncLock, whose variables this module takes  *)
(* over: call[c] is where the handler of the request c is.                 *)
(***************************************************************************)
EXTENDS AsyncLock

\* Of AsyncLock: Calls are the requests this end makes, each at most once; Parallel
\* is 5, the handlers of one peer that may run at the same time.
CONSTANTS
    MinId, MaxId,  \* 2^30 and 2^32 - 1: an id is at least MinId and below MaxId
    None

ASSUME IdsAssumption == MinId \in Nat \ {0} /\ MaxId \in Nat /\ MinId < MaxId
ASSUME NoneAssumption == None \notin Calls

VARIABLES
    conn,          \* "open", "destroyed" (no more data), "closed" (the event ran)
    replyId,       \* the counter of newReplyID
    replyMap,      \* reply id -> request whose promise it resolves
    idOf,          \* the id a request was given, 0 before
    turn,          \* how many requests were made up to this one, 0 before
    promise,       \* the promise of sendRequest, and "done" after its finally
    answer,        \* the request whose reply resolved it
    timers,        \* requests whose timer is armed
    toPeer, toUs   \* requests and replies on the wire

mine == <<replyId, replyMap, idOf, turn, promise, answer, timers>>
vars == <<conn, mine, toPeer, toUs, lockVars>>

Ids == MinId .. MaxId - 1
Message == [id : Ids, request : Calls]

TypeOK ==
    /\ conn \in {"open", "destroyed", "closed"}
    /\ replyId \in MinId .. MaxId
    /\ replyMap \in [DOMAIN replyMap -> Calls] /\ DOMAIN replyMap \subseteq Ids
    /\ idOf \in [Calls -> Ids \cup {0}]
    /\ turn \in [Calls -> 0 .. Cardinality(Calls)]
    /\ promise \in [Calls -> {"idle", "pending", "resolved", "rejected", "done"}]
    /\ answer \in [Calls -> Calls \cup {None}]
    /\ timers \subseteq Calls
    /\ toPeer \in Seq(Message) /\ toUs \in Seq(Message)
    /\ LockTypeOK

Init ==
    /\ conn = "open"
    /\ replyId = MaxId
    /\ replyMap = <<>>
    /\ idOf = [c \in Calls |-> 0]
    /\ turn = [c \in Calls |-> 0]
    /\ promise = [c \in Calls |-> "idle"]
    /\ answer = [c \in Calls |-> None]
    /\ timers = {}
    /\ toPeer = <<>> /\ toUs = <<>>
    /\ locked = 0 /\ queue = <<>> /\ gaveUp = FALSE
    /\ call = [c \in Calls |-> "idle"]

-----------------------------------------------------------------------------

NewReplyIdStuck == IF replyId >= MaxId THEN MaxId - 1 ELSE replyId   \* mutant
NewReplyId == IF replyId >= MaxId THEN MinId ELSE replyId

\* Nothing is left of a request: no promise, no handler, no message.
Gone(c) ==
    /\ promise[c] = "done"
    /\ call[c] = "idle" /\ c \notin Range(queue)
    /\ \A m \in Range(toPeer) \cup Range(toUs) : m.request # c

Made == Cardinality({c \in Calls : promise[c] # "idle"})

\* Bound: 3 * 2^30 requests are not made while one of them is still about.
NotRoundYet == \A c \in Calls : turn[c] > 0 /\ ~Gone(c) => Made - turn[c] < MaxId - MinId - 1

WithReply(i, c) == [k \in DOMAIN replyMap \cup {i} |-> IF k = i THEN c ELSE replyMap[k]]

SendUntimed(c, i) ==                   \* mutant: getTimeout knows no default
    /\ replyMap' = WithReply(i, c)
    /\ UNCHANGED timers

Registered(c, i) ==
    /\ replyMap' = WithReply(i, c)
    /\ timers' = timers \cup {c}

\* On a socket that is destroyed, send returns and nothing is sent.
SendRequest(c) ==
    LET i == NewReplyId
    IN  /\ promise[c] = "idle"
        /\ NotRoundYet
        /\ replyId' = i + 1
        /\ turn' = [turn EXCEPT ![c] = Made + 1]
        /\ idOf' = [idOf EXCEPT ![c] = i]
        /\ promise' = [promise EXCEPT ![c] = "pending"]
        /\ Registered(c, i)
        /\ toPeer' = IF conn = "open" THEN Append(toPeer, [id |-> i, request |-> c]) ELSE toPeer
        /\ UNCHANGED <<conn, answer, toUs, lockVars>>

\* The lock of the socket refuses: 512 sends wait already, or its timer fired.
SendFails(c) ==
    /\ promise[c] = "pending"
    /\ \E k \in 1 .. Len(toPeer) :
          /\ toPeer[k].request = c
          /\ toPeer' = SubSeq(toPeer, 1, k - 1) \o SubSeq(toPeer, k + 1, Len(toPeer))
    /\ promise' = [promise EXCEPT ![c] = "rejected"]
    /\ UNCHANGED <<conn, replyId, replyMap, idOf, turn, answer, timers, toUs, lockVars>>

TimeOut(c) ==
    /\ c \in timers
    /\ promise[c] = "pending"
    /\ promise' = [promise EXCEPT ![c] = "rejected"]
    /\ timers' = timers \ {c}
    /\ UNCHANGED <<conn, replyId, replyMap, idOf, turn, answer, toPeer, toUs, lockVars>>

\* route(): a reply nobody waits for is dropped; a settled promise stays as it is.
Route ==
    /\ conn = "open"
    /\ toUs # <<>>
    /\ LET m == Head(toUs)
           waiting == m.id \in DOMAIN replyMap /\ promise[replyMap[m.id]] = "pending"
       IN  /\ promise' = IF waiting THEN [promise EXCEPT ![replyMap[m.id]] = "resolved"] ELSE promise
           /\ answer' = IF waiting THEN [answer EXCEPT ![replyMap[m.id]] = m.request] ELSE answer
    /\ toUs' = Tail(toUs)
    /\ UNCHANGED <<conn, replyId, replyMap, idOf, turn, timers, toPeer, lockVars>>

DeletedIfResolved(c) ==                \* mutant: the entry goes with the reply only
    IF promise[c] = "resolved" THEN Restrict(replyMap, DOMAIN replyMap \ {idOf[c]}) ELSE replyMap

Deleted(c) == Restrict(replyMap, DOMAIN replyMap \ {idOf[c]})

\* The finally of sendRequest, in a microtask after the promise is settled.
Finally(c) ==
    /\ promise[c] \in {"resolved", "rejected"}
    /\ promise' = [promise EXCEPT ![c] = "done"]
    /\ replyMap' = Deleted(c)
    /\ timers' = timers \ {c}
    /\ UNCHANGED <<conn, replyId, idOf, turn, answer, toPeer, toUs, lockVars>>

-----------------------------------------------------------------------------

Rejected == [c \in Calls |->
    IF c \in Range(replyMap) /\ promise[c] = "pending" THEN "rejected" ELSE promise[c]]

\* disconnect() rejects at once; a protocol error or the end of the stream leaves
\* that to the close event.  The data on the wire is lost.
Destroy ==
    /\ conn = "open"
    /\ conn' = "destroyed"
    /\ \/ promise' = Rejected
       \/ UNCHANGED promise
    /\ toPeer' = <<>> /\ toUs' = <<>>
    /\ UNCHANGED <<replyId, replyMap, idOf, turn, answer, timers, lockVars>>

Close ==
    /\ conn = "destroyed"
    /\ conn' = "closed"
    /\ promise' = Rejected
    /\ UNCHANGED <<replyId, replyMap, idOf, turn, answer, timers, toPeer, toUs, lockVars>>

-----------------------------------------------------------------------------

\* onPacket of the other end.
Receive ==
    /\ toPeer # <<>>
    /\ LET c == Head(toPeer).request
       IN  \/ Enter(c)
           \/ Wait(c)
           \/ Refused /\ UNCHANGED lockVars
    /\ toPeer' = Tail(toPeer)
    /\ UNCHANGED <<conn, mine, toUs>>

\* respond: no answer when the handler fails or the socket is gone.
Respond(c) ==
    /\ Leave(c)
    /\ \/ conn = "open" /\ toUs' = Append(toUs, [id |-> idOf[c], request |-> c])
       \/ UNCHANGED toUs
    /\ UNCHANGED <<conn, mine, toPeer>>

Semaphored(c) ==
    /\ GiveUp(c) \/ Resume(c)
    /\ UNCHANGED <<conn, mine, toPeer, toUs>>

Next ==
    \/ \E c \in Calls : \/ SendRequest(c) \/ SendFails(c) \/ TimeOut(c) \/ Finally(c)
                        \/ Respond(c) \/ Semaphored(c)
    \/ Route \/ Destroy \/ Close \/ Receive

\* Timers fire and microtasks run; the other end may never answer.
Spec ==
    /\ Init
    /\ [][Next]_vars
    /\ \A c \in Calls : WF_vars(TimeOut(c)) /\ WF_vars(Finally(c))

-----------------------------------------------------------------------------

\* A request is never resolved by the reply to another one, however late, after
\* whichever timeouts and in whatever order replies come.
ReplyAnswersItsRequest == \A c \in Calls : answer[c] \in {None, c}

\* replyMap holds exactly the requests whose sendRequest has not ended, each
\* under its own id: none is forgotten, none stays behind.
ReplyMapIsExact ==
    /\ \A c \in Calls :
          promise[c] \in {"pending", "resolved", "rejected"}
             <=> \E i \in DOMAIN replyMap : replyMap[i] = c /\ i = idOf[c]
    /\ \A i \in DOMAIN replyMap : idOf[replyMap[i]] = i

\* Every request ends, whatever the other end and the connection do.
EveryRequestEnds == \A c \in Calls : promise[c] = "pending" ~> promise[c] = "done"

=============================================================================
