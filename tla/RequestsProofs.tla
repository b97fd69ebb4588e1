---------------------------- MODULE RequestsProofs ----------------------------
(***************************************************************************)
(* A reply id is not given again while anything of the request that has it *)
(* is left, so a reply finds its own request or none, for any number of    *)
(* requests, any range of ids and any order of replies and timeouts.       *)
(*                                                                         *)
(* And the lock behind the request semaphore: it admits at most Parallel   *)
(* callers, for any number of callers and permits, timeouts and rejections *)
(* included, and it loses no permit before a waiter gives up.              *)
(***************************************************************************)
EXTENDS Requests, FiniteSetTheorems, SequenceTheorems, TLAPS

TypeInv ==
    /\ conn \in {"open", "destroyed", "closed"}
    /\ replyId \in MinId .. MaxId
    /\ replyMap \in [DOMAIN replyMap -> Calls] /\ DOMAIN replyMap \subseteq Ids
    /\ idOf \in [Calls -> Ids \cup {0}]
    /\ turn \in [Calls -> Nat]
    /\ promise \in [Calls -> {"idle", "pending", "resolved", "rejected", "done"}]
    /\ answer \in [Calls -> Calls \cup {None}]
    /\ toPeer \in Seq(Message) /\ toUs \in Seq(Message)
    /\ queue \in Seq(Calls)
    /\ call \in [Calls -> States]

\* The id that was given age requests ago.
IdAt(age) == IF replyId - 1 - age >= MinId THEN replyId - 1 - age
             ELSE replyId - 1 - age + (MaxId - MinId)

MadeCalls == {c \in Calls : promise[c] # "idle"}

\* Requests are counted, and what is left of one is younger than a round of ids.
AgeInv ==
    /\ \A c \in Calls : turn[c] <= Made /\ (promise[c] = "idle" <=> turn[c] = 0)
    /\ \A c \in MadeCalls : idOf[c] \in Ids
    /\ \A c, d \in MadeCalls : c # d => turn[c] # turn[d]
    /\ \A c \in MadeCalls : ~Gone(c) => /\ Made - turn[c] < MaxId - MinId
                                        /\ idOf[c] = IdAt(Made - turn[c])

\* A message carries the id of its request, and only a request that was made has
\* messages or a handler.
MessageInv ==
    /\ \A m \in Range(toPeer) \cup Range(toUs) : m.id = idOf[m.request] /\ m.request \in MadeCalls
    /\ \A c \in Calls : call[c] # "idle" => c \in MadeCalls
    /\ Range(queue) \subseteq MadeCalls

RequestInv == TypeInv /\ AgeInv /\ MessageInv /\ ReplyMapIsExact /\ ReplyAnswersItsRequest

-----------------------------------------------------------------------------
(***************************************************************************)
(* Sequences, seen as the sets of their elements.                          *)
(***************************************************************************)

LEMMA RangeOfTail ==
    ASSUME NEW S, NEW s \in Seq(S), s # <<>>
    PROVE  /\ Tail(s) \in Seq(S) /\ Head(s) \in S /\ Head(s) \in Range(s)
           /\ Range(Tail(s)) \subseteq Range(s)
<1>1. Len(s) \in Nat \ {0} /\ Tail(s) \in Seq(S) /\ Head(s) = s[1] /\ Head(s) \in S
  OBVIOUS
<1>2. \A i \in 1 .. Len(s) - 1 : Tail(s)[i] = s[i + 1]
  OBVIOUS
<1>3. DOMAIN s = 1 .. Len(s) /\ DOMAIN Tail(s) = 1 .. Len(s) - 1
  OBVIOUS
<1>4. \A i \in 1 .. Len(s) - 1 : i + 1 \in 1 .. Len(s)
  BY <1>1
<1> QED
  BY <1>1, <1>2, <1>3, <1>4 DEF Range

LEMMA RangeOfAppend ==
    ASSUME NEW S, NEW s \in Seq(S), NEW x \in S
    PROVE  Append(s, x) \in Seq(S) /\ Range(Append(s, x)) = Range(s) \cup {x}
<1>1. Append(s, x) \in Seq(S) /\ Len(Append(s, x)) = Len(s) + 1 /\ Len(s) \in Nat
  OBVIOUS
<1>2. \A i \in 1 .. Len(s) : Append(s, x)[i] = s[i]
  OBVIOUS
<1>3. Append(s, x)[Len(s) + 1] = x
  OBVIOUS
<1>4. DOMAIN s = 1 .. Len(s) /\ DOMAIN Append(s, x) = 1 .. Len(s) + 1
  OBVIOUS
<1> QED
  BY <1>1, <1>2, <1>3, <1>4 DEF Range

\* One message less.
LEMMA RangeOfCut ==
    ASSUME NEW S, NEW s \in Seq(S), NEW k \in 1 .. Len(s)
    PROVE  LET t == SubSeq(s, 1, k - 1) \o SubSeq(s, k + 1, Len(s))
           IN  t \in Seq(S) /\ Range(t) \subseteq Range(s)
<1> DEFINE a == SubSeq(s, 1, k - 1)
           b == SubSeq(s, k + 1, Len(s))
<1>1. a \in Seq(S) /\ Len(a) = k - 1 /\ \A i \in 1 .. k - 1 : a[i] = s[i]
  OBVIOUS
<1>2. b \in Seq(S) /\ Len(b) = Len(s) - k /\ \A i \in 1 .. Len(s) - k : b[i] = s[i + k]
  OBVIOUS
<1>3. Len(s) \in Nat /\ DOMAIN s = 1 .. Len(s) /\ DOMAIN a = 1 .. k - 1 /\ DOMAIN b = 1 .. Len(s) - k
  BY <1>1, <1>2
<1> HIDE DEF a, b
<1>4. Range(a) \subseteq Range(s)
  <2>1. \A i \in 1 .. k - 1 : i \in 1 .. Len(s)
    BY <1>3
  <2> QED
    BY <1>1, <1>3, <2>1 DEF Range
<1>5. Range(b) \subseteq Range(s)
  <2>1. \A i \in 1 .. Len(s) - k : i + k \in 1 .. Len(s)
    BY <1>3
  <2> QED
    BY <1>2, <1>3, <2>1 DEF Range
<1>6. a \o b \in Seq(S) /\ Range(a \o b) = Range(a) \cup Range(b)
  BY <1>1, <1>2, RangeConcatenation, ConcatProperties
<1> QED
  BY <1>4, <1>5, <1>6 DEF a, b

-----------------------------------------------------------------------------
(***************************************************************************)
(* Steps that give no id.                                                  *)
(***************************************************************************)

\* The semaphore of the other end: only a packet takes a call in.
LEMMA SemaphoreEffect ==
    ASSUME TypeInv, NEW c \in Calls
    PROVE  /\ Enter(c) \/ Wait(c) =>
                 /\ call' \in [Calls -> States] /\ queue' \in Seq(Calls)
                 /\ Range(queue') \subseteq Range(queue) \cup {c}
                 /\ \A d \in Calls \ {c} : call'[d] = call[d]
           /\ Leave(c) \/ GiveUp(c) \/ Resume(c) =>
                 /\ call' \in [Calls -> States] /\ queue' \in Seq(Calls)
                 /\ Range(queue') \subseteq Range(queue)
                 /\ call[c] # "idle"
                 /\ \A d \in Calls : call[d] = "idle" => call'[d] = "idle"
<1> USE DEF TypeInv, States
<1>1. Enter(c) \/ Wait(c) => ~(Leave(c) \/ GiveUp(c) \/ Resume(c))
  BY DEF Enter, Wait, CanCall, Leave, Free,
     HandOver, GiveUp, Resume
<1>2. CASE Enter(c)
  BY <1>1, <1>2 DEF Enter
<1>3. CASE Wait(c)
  <2>1. queue' = Append(queue, c) /\ call' = [call EXCEPT ![c] = "waiting"]
    BY <1>3 DEF Wait
  <2> QED
    BY <1>1, <1>3, <2>1, RangeOfAppend
<1>4. CASE GiveUp(c) \/ Resume(c) \/ Free(c)
  BY <1>4 DEF GiveUp, Resume, Free
<1>5. CASE HandOver(c)
  <2>1. /\ queue # <<>> /\ queue' = Tail(queue) /\ call[c] = "inside"
        /\ call' = [call EXCEPT ![c] = "idle",
                                      ![Head(queue)] = IF @ = "waiting" THEN "granted" ELSE @]
    BY <1>5 DEF HandOver
  <2>2. Head(queue) \in Calls /\ Tail(queue) \in Seq(Calls) /\ Range(Tail(queue)) \subseteq Range(queue)
    BY <2>1, RangeOfTail
  <2>3. call' \in [Calls -> States]
    BY <2>1, <2>2
  <2>4. \A d \in Calls : call[d] = "idle" => call'[d] = "idle"
    BY <2>1, <2>2
  <2> QED
    BY <1>1, <1>5, <2>1, <2>2, <2>3, <2>4 DEF Leave
<1> QED
  BY <1>2, <1>3, <1>4, <1>5 DEF Leave

\* The requests that have not ended, which replyMap has to hold.
Live == {"pending", "resolved", "rejected"}

\* Two requests of which anything is left have different ids.
LEMMA IdsDiffer ==
    ASSUME RequestInv, NEW c \in MadeCalls, NEW d \in MadeCalls, ~Gone(c), ~Gone(d), c # d
    PROVE  idOf[c] # idOf[d]
<1>1. c \in Calls /\ d \in Calls /\ turn[c] \in Nat /\ turn[d] \in Nat /\ replyId \in Nat
      /\ replyId <= MaxId
  BY IdsAssumption DEF MadeCalls, RequestInv, TypeInv
<1>2. /\ Made \in Nat /\ turn[c] <= Made /\ turn[d] <= Made /\ turn[c] # turn[d]
      /\ Made - turn[c] < MaxId - MinId /\ Made - turn[d] < MaxId - MinId
      /\ idOf[c] = IdAt(Made - turn[c]) /\ idOf[d] = IdAt(Made - turn[d])
  <2>1. Made \in Nat
    BY CallsAssumption, FS_Subset, FS_CardinalityType DEF Made
  <2> QED
    BY <1>1, <2>1 DEF RequestInv, AgeInv
<1> QED
  BY <1>1, <1>2, IdsAssumption DEF IdAt

LEMMA KeepAge ==
    ASSUME RequestInv, UNCHANGED <<replyId, idOf, turn>>,
           \A c \in Calls : promise'[c] = "idle" <=> promise[c] = "idle",
           \A c \in MadeCalls : Gone(c) => Gone(c)'
    PROVE  AgeInv' /\ MadeCalls' = MadeCalls
<1>1. MadeCalls' = MadeCalls
  BY DEF MadeCalls
<1>2. Made' = Made
  <2>1. Made = Cardinality(MadeCalls) /\ Made' = Cardinality(MadeCalls')
    BY DEF Made, MadeCalls
  <2> QED
    BY <1>1, <2>1
<1>3. \A age : IdAt(age)' = IdAt(age)
  BY DEF IdAt
<1> QED
  BY <1>1, <1>2, <1>3 DEF RequestInv, AgeInv

LEMMA KeepMap ==
    ASSUME RequestInv, UNCHANGED <<replyMap, idOf>>,
           \A c \in Calls : promise'[c] \in Live <=> promise[c] \in Live
    PROVE  ReplyMapIsExact'
BY DEF RequestInv, ReplyMapIsExact, Live

\* Promises that are settled, timers and lost messages: nothing new comes up.
LEMMA SettleInv ==
    ASSUME RequestInv, NEW c \in Calls, SendFails(c) \/ TimeOut(c)
    PROVE  RequestInv'
<1>1. /\ UNCHANGED <<conn, replyId, replyMap, idOf, turn, answer, toUs, lockVars>>
      /\ promise[c] = "pending" /\ promise' = [promise EXCEPT ![c] = "rejected"]
  BY DEF SendFails, TimeOut
<1>2. toPeer' \in Seq(Message) /\ Range(toPeer') \subseteq Range(toPeer)
  <2>1. CASE SendFails(c)
    <3>1. PICK k \in 1 .. Len(toPeer) :
             toPeer' = SubSeq(toPeer, 1, k - 1) \o SubSeq(toPeer, k + 1, Len(toPeer))
      BY <2>1 DEF SendFails
    <3> QED
      BY <3>1, RangeOfCut DEF RequestInv, TypeInv
  <2>2. CASE TimeOut(c)
    BY <2>2 DEF TimeOut, RequestInv, TypeInv
  <2> QED
    BY <2>1, <2>2
<1>3. TypeInv'
  BY <1>1, <1>2 DEF RequestInv, TypeInv, lockVars
<1>4. \A d \in Calls : /\ promise'[d] = "idle" <=> promise[d] = "idle"
                       /\ promise'[d] = "done" <=> promise[d] = "done"
                       /\ promise'[d] \in Live <=> promise[d] \in Live
  BY <1>1 DEF RequestInv, TypeInv, Live
<1>5. \A d \in MadeCalls : Gone(d) => Gone(d)'
  BY <1>1, <1>2, <1>4 DEF Gone, MadeCalls, lockVars
<1>6. AgeInv' /\ MadeCalls' = MadeCalls
  BY <1>1, <1>4, <1>5, KeepAge
<1>7. MessageInv'
  BY <1>1, <1>2, <1>6 DEF RequestInv, MessageInv, lockVars
<1>8. ReplyMapIsExact'
  BY <1>1, <1>4, KeepMap
<1> QED
  BY <1>1, <1>3, <1>6, <1>7, <1>8 DEF RequestInv, ReplyAnswersItsRequest

\* The connection goes: who waits is rejected, and what is on the wire is lost.
LEMMA CloseInv ==
    ASSUME RequestInv, Destroy \/ Close
    PROVE  RequestInv'
<1>1. /\ UNCHANGED <<replyId, replyMap, idOf, turn, answer, lockVars>>
      /\ conn' \in {"destroyed", "closed"}
      /\ promise' = Rejected \/ promise' = promise
      /\ \/ toPeer' = <<>> /\ toUs' = <<>>
         \/ toPeer' = toPeer /\ toUs' = toUs
  BY DEF Destroy, Close
<1>2. /\ toPeer' \in Seq(Message) /\ Range(toPeer') \subseteq Range(toPeer)
      /\ toUs' \in Seq(Message) /\ Range(toUs') \subseteq Range(toUs)
  <2>1. <<>> \in Seq(Message) /\ Range(<<>>) = {}
    BY DEF Range
  <2> QED
    BY <1>1, <2>1 DEF RequestInv, TypeInv
<1>3. /\ promise' \in [Calls -> {"idle", "pending", "resolved", "rejected", "done"}]
      /\ \A d \in Calls : /\ promise'[d] = "idle" <=> promise[d] = "idle"
                          /\ promise'[d] = "done" <=> promise[d] = "done"
                          /\ promise'[d] \in Live <=> promise[d] \in Live
  BY <1>1 DEF RequestInv, TypeInv, Live, Rejected
<1>4. TypeInv'
  BY <1>1, <1>2, <1>3 DEF RequestInv, TypeInv, lockVars
<1>5. \A d \in MadeCalls : Gone(d) => Gone(d)'
  BY <1>1, <1>2, <1>3 DEF Gone, MadeCalls, lockVars
<1>6. AgeInv' /\ MadeCalls' = MadeCalls
  BY <1>1, <1>3, <1>5, KeepAge
<1>7. MessageInv'
  BY <1>1, <1>2, <1>6 DEF RequestInv, MessageInv, lockVars
<1>8. ReplyMapIsExact'
  BY <1>1, <1>3, KeepMap
<1> QED
  BY <1>1, <1>4, <1>6, <1>7, <1>8 DEF RequestInv, ReplyAnswersItsRequest

\* What the other end does to the messages, as far as the ids go.
OtherEndStep ==
    /\ toPeer' \in Seq(Message) /\ Range(toPeer') \subseteq Range(toPeer)
    /\ toUs' \in Seq(Message)
    /\ call' \in [Calls -> States] /\ queue' \in Seq(Calls)
    /\ \A m \in Range(toUs') :
          m \in Range(toUs) \/ (m.id = idOf[m.request] /\ m.request \in MadeCalls /\ call[m.request] # "idle")
    /\ \A c \in Calls : \/ call[c] = "idle" => call'[c] = "idle"
                        \/ \E m \in Range(toPeer) : m.request = c
    /\ \A c \in Range(queue') : c \in Range(queue) \/ \E m \in Range(toPeer) : m.request = c

\* The other end takes a request in, goes on with one, or answers it.
LEMMA OtherEndInv ==
    ASSUME RequestInv, \/ Receive
                       \/ \E c \in Calls : Respond(c) \/ Semaphored(c)
    PROVE  RequestInv'
<1>1. UNCHANGED <<conn, mine>>
  BY DEF Receive, Respond, Semaphored
<1>2. OtherEndStep
  <2> USE DEF OtherEndStep
  <2>1. CASE Receive
    <3>1. /\ toPeer # <<>> /\ toPeer' = Tail(toPeer) /\ toUs' = toUs
          /\ \/ Enter(Head(toPeer).request)
             \/ Wait(Head(toPeer).request)
             \/ UNCHANGED lockVars
      BY <2>1 DEF Receive
    <3>2. /\ Tail(toPeer) \in Seq(Message) /\ Range(Tail(toPeer)) \subseteq Range(toPeer)
          /\ Head(toPeer) \in Range(toPeer) /\ Head(toPeer).request \in Calls
      <4>1. toPeer \in Seq(Message) /\ \A m \in Message : m.request \in Calls
        BY DEF RequestInv, TypeInv, Message
      <4> QED
        BY <3>1, <4>1, RangeOfTail
    <3>3. CASE UNCHANGED lockVars
      BY <3>1, <3>2, <3>3 DEF RequestInv, TypeInv, lockVars
    <3>4. CASE Enter(Head(toPeer).request) \/ Wait(Head(toPeer).request)
      BY <3>1, <3>2, <3>4, SemaphoreEffect DEF RequestInv, TypeInv
    <3> QED
      BY <3>1, <3>3, <3>4
  <2>2. ASSUME NEW c \in Calls, Semaphored(c)
        PROVE  OtherEndStep
    BY <2>2, SemaphoreEffect DEF Semaphored, RequestInv, TypeInv
  <2>3. ASSUME NEW c \in Calls, Respond(c)
        PROVE  OtherEndStep
    <3>1. /\ Leave(c) /\ toPeer' = toPeer
          /\ toUs' = Append(toUs, [id |-> idOf[c], request |-> c]) \/ toUs' = toUs
      BY <2>3 DEF Respond
    <3>2. call[c] # "idle"
      BY <3>1, SemaphoreEffect DEF RequestInv
    <3>3. c \in MadeCalls /\ idOf[c] \in Ids
      BY <3>2 DEF RequestInv, MessageInv, AgeInv
    <3>4. [id |-> idOf[c], request |-> c] \in Message
      BY <3>3 DEF Message
    <3>5. /\ toUs' \in Seq(Message)
          /\ Range(toUs') \subseteq Range(toUs) \cup {[id |-> idOf[c], request |-> c]}
      <4>1. toUs \in Seq(Message)
        BY DEF RequestInv, TypeInv
      <4>2. \A m \in Message : /\ Append(toUs, m) \in Seq(Message)
                               /\ Range(Append(toUs, m)) = Range(toUs) \cup {m}
        BY <4>1, RangeOfAppend
      <4> QED
        BY <3>1, <3>4, <4>1, <4>2
    <3> QED
      BY <3>1, <3>2, <3>3, <3>5, SemaphoreEffect DEF RequestInv, TypeInv
  <2> QED
    BY <2>1, <2>2, <2>3
<1>3. TypeInv'
  BY <1>1, <1>2 DEF OtherEndStep, RequestInv, TypeInv, mine
<1>4. \A d \in MadeCalls : Gone(d) => Gone(d)'
  BY <1>1, <1>2 DEF OtherEndStep, Gone, MadeCalls, mine
<1>5. AgeInv' /\ MadeCalls' = MadeCalls
  BY <1>1, <1>4, KeepAge DEF mine
<1>6. MessageInv'
  BY <1>1, <1>2, <1>5 DEF OtherEndStep, RequestInv, MessageInv, mine
<1>7. ReplyMapIsExact'
  BY <1>1, KeepMap DEF mine
<1> QED
  BY <1>1, <1>3, <1>5, <1>6, <1>7 DEF RequestInv, ReplyAnswersItsRequest, mine

\* A reply meets the promise of its own request, which alone has its id.
LEMMA RouteInv ==
    ASSUME RequestInv, Route
    PROVE  RequestInv'
<1> DEFINE m == Head(toUs)
           waiting == m.id \in DOMAIN replyMap /\ promise[replyMap[m.id]] = "pending"
           d == replyMap[m.id]
<1>1. /\ toUs # <<>> /\ toUs' = Tail(toUs)
      /\ promise' = IF waiting THEN [promise EXCEPT ![d] = "resolved"] ELSE promise
      /\ answer' = IF waiting THEN [answer EXCEPT ![d] = m.request] ELSE answer
      /\ UNCHANGED <<conn, replyId, replyMap, idOf, turn, timers, toPeer, lockVars>>
  BY DEF Route
<1>2. /\ Tail(toUs) \in Seq(Message) /\ Range(Tail(toUs)) \subseteq Range(toUs)
      /\ m \in Range(toUs) /\ m \in Message
  BY <1>1, RangeOfTail DEF RequestInv, TypeInv
<1>3. m.request \in MadeCalls /\ m.request \in Calls /\ m.id = idOf[m.request] /\ ~Gone(m.request)
  BY <1>2 DEF RequestInv, MessageInv, MadeCalls, Gone
<1>4. waiting => d = m.request
  <2>1. SUFFICES ASSUME waiting PROVE d = m.request
    OBVIOUS
  <2>2. d \in Calls /\ idOf[d] = m.id
    BY <2>1 DEF RequestInv, TypeInv, ReplyMapIsExact
  <2>3. d \in MadeCalls /\ ~Gone(d)
    BY <2>1, <2>2 DEF MadeCalls, Gone
  <2> QED
    BY <1>3, <2>2, <2>3, IdsDiffer
<1> HIDE DEF m, d
<1>5. ReplyAnswersItsRequest'
  BY <1>1, <1>3, <1>4 DEF RequestInv, TypeInv, ReplyAnswersItsRequest
<1>6. /\ promise' \in [Calls -> {"idle", "pending", "resolved", "rejected", "done"}]
      /\ answer' \in [Calls -> Calls \cup {None}]
      /\ \A c \in Calls : /\ promise'[c] = "idle" <=> promise[c] = "idle"
                          /\ promise'[c] = "done" <=> promise[c] = "done"
                          /\ promise'[c] \in Live <=> promise[c] \in Live
  BY <1>1, <1>3, <1>4 DEF RequestInv, TypeInv, Live, d
<1>7. TypeInv'
  BY <1>1, <1>2, <1>6 DEF RequestInv, TypeInv, lockVars
<1>8. \A c \in MadeCalls : Gone(c) => Gone(c)'
  BY <1>1, <1>2, <1>6 DEF Gone, MadeCalls, lockVars
<1>9. AgeInv' /\ MadeCalls' = MadeCalls
  BY <1>1, <1>6, <1>8, KeepAge
<1>10. MessageInv'
  BY <1>1, <1>2, <1>9 DEF RequestInv, MessageInv, lockVars
<1>11. ReplyMapIsExact'
  BY <1>1, <1>6, KeepMap
<1> QED
  BY <1>5, <1>7, <1>9, <1>10, <1>11 DEF RequestInv

\* The end of sendRequest takes its own entry out of the map and no other.
LEMMA FinallyInv ==
    ASSUME RequestInv, NEW c \in Calls, Finally(c)
    PROVE  RequestInv'
<1>1. /\ promise[c] \in {"resolved", "rejected"} /\ promise' = [promise EXCEPT ![c] = "done"]
      /\ replyMap' = [i \in DOMAIN replyMap \ {idOf[c]} |-> replyMap[i]]
      /\ UNCHANGED <<conn, replyId, idOf, turn, answer, toPeer, toUs, lockVars>>
  <2>1. Deleted(c) = [i \in DOMAIN replyMap \ {idOf[c]} |-> replyMap[i]]
    BY DEF Deleted, Restrict
  <2> QED
    BY <2>1 DEF Finally
<1>2. DOMAIN replyMap' = DOMAIN replyMap \ {idOf[c]}
  BY <1>1
<1>3. TypeInv'
  BY <1>1, <1>2 DEF RequestInv, TypeInv, lockVars
<1>4. \A d \in Calls : /\ promise'[d] = "idle" <=> promise[d] = "idle"
                       /\ promise[d] = "done" => promise'[d] = "done"
                       /\ d # c => promise'[d] = promise[d]
  BY <1>1 DEF RequestInv, TypeInv
<1>5. \A d \in MadeCalls : Gone(d) => Gone(d)'
  BY <1>1, <1>4 DEF Gone, MadeCalls, lockVars
<1>6. AgeInv' /\ MadeCalls' = MadeCalls
  BY <1>1, <1>4, <1>5, KeepAge
<1>7. MessageInv'
  BY <1>1, <1>6 DEF RequestInv, MessageInv, lockVars
<1>8. ReplyMapIsExact'
  <2>1. ASSUME NEW d \in Calls, d # c, promise[d] \in Live
        PROVE  idOf[d] # idOf[c]
    <3>1. c \in MadeCalls /\ d \in MadeCalls /\ ~Gone(c) /\ ~Gone(d)
      BY <1>1, <2>1 DEF MadeCalls, Gone, Live
    <3> QED
      BY <2>1, <3>1, IdsDiffer
  <2>2. promise'[c] = "done"
    BY <1>1 DEF RequestInv, TypeInv
  <2>3. \A i \in DOMAIN replyMap' : replyMap'[i] = replyMap[i] /\ i \in DOMAIN replyMap /\ i # idOf[c]
    BY <1>1, <1>2
  <2>4. \A d \in Calls : promise[d] \in Live <=> \E i \in DOMAIN replyMap : replyMap[i] = d /\ i = idOf[d]
    BY DEF RequestInv, ReplyMapIsExact, Live
  <2>5. \A i \in DOMAIN replyMap' : idOf'[replyMap'[i]] = i
    BY <1>1, <2>3 DEF RequestInv, ReplyMapIsExact
  <2>6. ASSUME NEW d \in Calls
        PROVE  promise'[d] \in Live <=> \E i \in DOMAIN replyMap' : replyMap'[i] = d /\ i = idOf'[d]
    <3>1. CASE d = c
      BY <1>1, <2>2, <2>3, <3>1 DEF Live
    <3>2. CASE d # c
      BY <1>1, <1>2, <1>4, <2>1, <2>3, <2>4, <3>2
    <3> QED
      BY <3>1, <3>2
  <2> QED
    BY <2>5, <2>6 DEF ReplyMapIsExact, Live
<1> QED
  BY <1>1, <1>3, <1>6, <1>7, <1>8 DEF RequestInv, ReplyAnswersItsRequest

-----------------------------------------------------------------------------
(***************************************************************************)
(* A new id.                                                               *)
(***************************************************************************)

\* One more request is made, and every earlier one that is left is one step older
\* under the same id.
LEMMA SendAge ==
    ASSUME RequestInv, NEW c \in Calls, SendRequest(c)
    PROVE  /\ AgeInv' /\ MadeCalls' = MadeCalls \cup {c} /\ c \notin MadeCalls
           /\ \A d \in MadeCalls : ~Gone(d) => idOf[d] # NewReplyId
           /\ NewReplyId \in Ids
<1>1. /\ promise[c] = "idle" /\ NotRoundYet
      /\ replyId' = NewReplyId + 1
      /\ turn' = [turn EXCEPT ![c] = Made + 1]
      /\ idOf' = [idOf EXCEPT ![c] = NewReplyId]
      /\ promise' = [promise EXCEPT ![c] = "pending"]
      /\ UNCHANGED <<call, queue, toUs>>
      /\ \/ toPeer' = Append(toPeer, [id |-> NewReplyId, request |-> c])
         \/ toPeer' = toPeer
  BY DEF SendRequest, lockVars
<1>2. /\ MinId \in Nat /\ MaxId \in Nat /\ MinId < MaxId
      /\ replyId \in Nat /\ MinId <= replyId /\ replyId <= MaxId
  BY IdsAssumption DEF RequestInv, TypeInv
<1>3. NewReplyId \in Ids /\ NewReplyId \in Nat
  BY <1>2 DEF NewReplyId, Ids
<1>4. MadeCalls' = MadeCalls \cup {c} /\ c \notin MadeCalls
  BY <1>1 DEF MadeCalls, RequestInv, TypeInv
<1>5. Made \in Nat /\ Made' = Made + 1
  <2>1. IsFiniteSet(MadeCalls)
    BY CallsAssumption, FS_Subset DEF MadeCalls
  <2>2. Made = Cardinality(MadeCalls) /\ Made' = Cardinality(MadeCalls')
    BY DEF Made, MadeCalls
  <2> QED
    BY <1>4, <2>1, <2>2, FS_AddElement, FS_CardinalityType
<1>6. \A d \in MadeCalls : /\ d \in Calls /\ d # c
                           /\ turn'[d] = turn[d] /\ idOf'[d] = idOf[d] /\ promise'[d] = promise[d]
                           /\ turn[d] \in Nat /\ turn[d] <= Made /\ turn[d] > 0
  BY <1>1, <1>4 DEF MadeCalls, RequestInv, TypeInv, AgeInv
<1>7. turn'[c] = Made + 1 /\ idOf'[c] = NewReplyId /\ promise'[c] = "pending"
  BY <1>1 DEF RequestInv, TypeInv
<1>8. ASSUME NEW d \in MadeCalls, ~Gone(d)
      PROVE  /\ Made - turn[d] < MaxId - MinId - 1
             /\ idOf[d] = IdAt(Made - turn[d])
  BY <1>1, <1>6, <1>8 DEF NotRoundYet, RequestInv, AgeInv
<1>9. ASSUME NEW age \in Nat, age < MaxId - MinId - 1
      PROVE  IdAt(age) # NewReplyId /\ IdAt(age + 1)' = IdAt(age)
  BY <1>1, <1>2, <1>9 DEF IdAt, NewReplyId
<1>10. IdAt(0)' = NewReplyId
  BY <1>1, <1>2, <1>3 DEF IdAt, Ids
<1>11. ASSUME NEW d \in MadeCalls, ~Gone(d)'
       PROVE  ~Gone(d)
  <2>1. d \in Calls /\ d # c
    BY <1>6
  <2>2. \A m \in Range(toPeer') : m \in Range(toPeer) \/ m.request = c
    <3>1. [id |-> NewReplyId, request |-> c] \in Message /\ toPeer \in Seq(Message)
      BY <1>3 DEF Message, RequestInv, TypeInv
    <3>2. Range(Append(toPeer, [id |-> NewReplyId, request |-> c]))
             = Range(toPeer) \cup {[id |-> NewReplyId, request |-> c]}
      BY <3>1, RangeOfAppend
    <3> QED
      <4>1. [id |-> NewReplyId, request |-> c].request = c
        OBVIOUS
      <4> QED
        BY <1>1, <3>2, <4>1
  <2> QED
    BY <1>1, <1>6, <1>11, <2>1, <2>2 DEF Gone
<1>12. AgeInv'
  <2>1. \A d \in Calls : turn'[d] <= Made' /\ (promise'[d] = "idle" <=> turn'[d] = 0)
    <3>1. TAKE d \in Calls
    <3>2. CASE d = c
      BY <1>5, <1>7, <3>2
    <3>3. CASE d # c
      BY <1>1, <1>5, <3>3 DEF RequestInv, TypeInv, AgeInv
    <3> QED
      BY <3>2, <3>3
  <2>2. \A d \in MadeCalls' : idOf'[d] \in Ids
    BY <1>3, <1>4, <1>6, <1>7 DEF RequestInv, AgeInv
  <2>3. \A d, e \in MadeCalls' : d # e => turn'[d] # turn'[e]
    BY <1>4, <1>5, <1>6, <1>7 DEF RequestInv, AgeInv
  <2>4. ASSUME NEW d \in MadeCalls', ~Gone(d)'
        PROVE  Made' - turn'[d] < MaxId - MinId /\ idOf'[d] = IdAt(Made - turn[d])'
    <3>1. CASE d = c
      <4>1. Made' - turn'[d] = 0
        BY <1>5, <1>7, <3>1
      <4>2. IdAt(Made - turn[d])' = IdAt(0)'
        BY <4>1 DEF IdAt
      <4> QED
        BY <1>2, <1>7, <1>10, <3>1, <4>1, <4>2
    <3>2. CASE d # c
      <4>1. d \in MadeCalls /\ ~Gone(d)
        BY <1>4, <1>11, <2>4, <3>2
      <4> DEFINE age == Made - turn[d]
      <4>2. /\ age \in Nat /\ age < MaxId - MinId - 1 /\ idOf[d] = IdAt(age)
            /\ Made' - turn'[d] = age + 1
        BY <1>5, <1>6, <1>8, <4>1
      <4>3. \A n \in Nat : n < MaxId - MinId - 1 => IdAt(n + 1)' = IdAt(n)
        BY <1>9
      <4>4. Made' - turn'[d] < MaxId - MinId
        BY <1>2, <4>2
      <4>5. IdAt(Made - turn[d])' = IdAt(age)
        <5> HIDE DEF age
        <5> QED
          BY <4>2, <4>3 DEF IdAt
      <4> QED
        BY <1>6, <4>1, <4>2, <4>4, <4>5
    <3> QED
      BY <3>1, <3>2
  <2> QED
    BY <2>1, <2>2, <2>3, <2>4 DEF AgeInv
<1>13. ASSUME NEW d \in MadeCalls, ~Gone(d)
       PROVE  idOf[d] # NewReplyId
  <2>1. Made - turn[d] \in Nat
    BY <1>5, <1>6
  <2> QED
    BY <1>8, <1>9, <1>13, <2>1
<1> QED
  BY <1>3, <1>4, <1>12, <1>13

\* The new id is in nobody's use: not in replyMap, and in no message that is left.
LEMMA SendInv ==
    ASSUME RequestInv, NEW c \in Calls, SendRequest(c)
    PROVE  RequestInv'
<1> DEFINE i == NewReplyId
           new == [id |-> i, request |-> c]
<1>1. /\ promise[c] = "idle"
      /\ replyId' = i + 1
      /\ turn' = [turn EXCEPT ![c] = Made + 1]
      /\ idOf' = [idOf EXCEPT ![c] = i]
      /\ promise' = [promise EXCEPT ![c] = "pending"]
      /\ replyMap' = WithReply(i, c)
      /\ UNCHANGED <<conn, answer, toUs, call, queue>>
      /\ toPeer' = Append(toPeer, new) \/ toPeer' = toPeer
  BY DEF SendRequest, Registered, lockVars
<1>2. /\ AgeInv' /\ MadeCalls' = MadeCalls \cup {c} /\ c \notin MadeCalls
      /\ i \in Ids
      /\ \A d \in MadeCalls : ~Gone(d) => idOf[d] # i
  BY SendAge
<1> HIDE DEF i
<1>3. /\ DOMAIN replyMap' = DOMAIN replyMap \cup {i}
      /\ replyMap'[i] = c
      /\ \A k \in DOMAIN replyMap : k # i => replyMap'[k] = replyMap[k]
  BY <1>1 DEF WithReply
<1>4. new \in Message /\ new.id = i /\ new.request = c
  BY <1>2 DEF Message
<1>5. /\ toPeer' \in Seq(Message)
      /\ \A m \in Range(toPeer') : m \in Range(toPeer) \/ m = new
  <2>1. toPeer \in Seq(Message)
    BY DEF RequestInv, TypeInv
  <2>2. /\ Append(toPeer, new) \in Seq(Message)
        /\ Range(Append(toPeer, new)) = Range(toPeer) \cup {new}
    BY <1>4, <2>1, RangeOfAppend
  <2> QED
    BY <1>1, <2>1, <2>2
<1>6. TypeInv'
  <2>1. replyId' \in MinId .. MaxId
    BY <1>1, <1>2, IdsAssumption DEF Ids
  <2>2. turn' \in [Calls -> Nat]
    <3>1. Made \in Nat
      BY CallsAssumption, FS_Subset, FS_CardinalityType DEF Made
    <3> QED
      BY <1>1, <3>1 DEF RequestInv, TypeInv
  <2>3. replyMap' \in [DOMAIN replyMap' -> Calls] /\ DOMAIN replyMap' \subseteq Ids
    <3>1. replyMap' = [k \in DOMAIN replyMap \cup {i} |-> IF k = i THEN c ELSE replyMap[k]]
      BY <1>1 DEF WithReply
    <3> QED
      BY <1>2, <1>3, <3>1 DEF RequestInv, TypeInv
  <2>4. idOf' \in [Calls -> Ids \cup {0}]
    BY <1>1, <1>2 DEF RequestInv, TypeInv
  <2> QED
    BY <1>1, <1>5, <2>1, <2>2, <2>3, <2>4 DEF RequestInv, TypeInv
<1>7. \A d \in Calls : /\ d # c => idOf'[d] = idOf[d] /\ promise'[d] = promise[d]
                       /\ d = c => idOf'[d] = i /\ promise'[d] = "pending"
  BY <1>1 DEF RequestInv, TypeInv
<1>8. MessageInv'
  <2>1. \A m \in Range(toPeer) \cup Range(toUs) :
           m.id = idOf[m.request] /\ m.request \in MadeCalls /\ m.request \in Calls /\ m.request # c
    BY <1>2 DEF RequestInv, MessageInv, MadeCalls
  <2>2. \A m \in Range(toPeer') \cup Range(toUs') : m.id = idOf'[m.request] /\ m.request \in MadeCalls'
    BY <1>1, <1>2, <1>4, <1>5, <1>7, <2>1
  <2>3. /\ \A d \in Calls : call'[d] # "idle" => d \in MadeCalls'
        /\ Range(queue') \subseteq MadeCalls'
    BY <1>1, <1>2 DEF RequestInv, MessageInv
  <2> QED
    BY <2>2, <2>3 DEF MessageInv
<1>9. ReplyMapIsExact'
  <2>1. \A d \in Calls : promise[d] \in Live <=> \E k \in DOMAIN replyMap : replyMap[k] = d /\ k = idOf[d]
    BY DEF RequestInv, ReplyMapIsExact, Live
  <2>2. \A d \in Calls : promise[d] \in Live => idOf[d] # i /\ d # c
    BY <1>1, <1>2 DEF Live, MadeCalls, Gone
  <2>3. \A k \in DOMAIN replyMap : /\ replyMap[k] \in Calls /\ idOf[replyMap[k]] = k
                                   /\ promise[replyMap[k]] \in Live
    BY <2>1 DEF RequestInv, TypeInv, ReplyMapIsExact
  <2>4. i \notin DOMAIN replyMap /\ \A k \in DOMAIN replyMap : replyMap[k] # c
    BY <2>2, <2>3
  <2>5. \A k \in DOMAIN replyMap' : idOf'[replyMap'[k]] = k
    BY <1>3, <1>7, <2>3, <2>4
  <2>6. ASSUME NEW d \in Calls
        PROVE  promise'[d] \in Live <=> \E k \in DOMAIN replyMap' : replyMap'[k] = d /\ k = idOf'[d]
    <3>1. CASE d = c
      BY <1>3, <1>7, <3>1 DEF Live
    <3>2. CASE d # c
      BY <1>3, <1>7, <2>1, <2>4, <3>2
    <3> QED
      BY <3>1, <3>2
  <2> QED
    BY <2>5, <2>6 DEF ReplyMapIsExact, Live
<1> QED
  BY <1>1, <1>2, <1>6, <1>8, <1>9 DEF RequestInv, ReplyAnswersItsRequest

-----------------------------------------------------------------------------

LEMMA InitRequests == Init => RequestInv
<1> SUFFICES ASSUME Init PROVE RequestInv
  OBVIOUS
<1>1. /\ Range(<<>>) = {} /\ DOMAIN replyMap = {} /\ MadeCalls = {}
      /\ replyMap \in [DOMAIN replyMap -> Calls]
  BY DEF Range, Init, MadeCalls
<1>2. TypeInv
  BY <1>1, IdsAssumption DEF Init, TypeInv, States
<1>3. Made \in Nat
  BY CallsAssumption, FS_Subset, FS_CardinalityType DEF Made
<1>4. AgeInv /\ MessageInv
  BY <1>1, <1>3 DEF Init, AgeInv, MessageInv
<1>5. ReplyMapIsExact /\ ReplyAnswersItsRequest
  BY <1>1 DEF Init, ReplyMapIsExact, ReplyAnswersItsRequest
<1> QED
  BY <1>2, <1>4, <1>5 DEF RequestInv

LEMMA NextRequests ==
    ASSUME RequestInv, [Next]_vars
    PROVE  RequestInv'
<1>1. CASE UNCHANGED vars
  <2>1. UNCHANGED <<conn, replyId, replyMap, idOf, turn, promise, answer, toPeer, toUs, queue, call>>
    BY <1>1 DEF vars, mine, lockVars
  <2>2. TypeInv'
    BY <2>1 DEF RequestInv, TypeInv
  <2>3. AgeInv' /\ MadeCalls' = MadeCalls
    BY <2>1, KeepAge DEF Gone
  <2> QED
    BY <2>1, <2>2, <2>3, KeepMap DEF RequestInv, MessageInv, ReplyAnswersItsRequest
<1> QED
  BY <1>1, SendInv, SettleInv, FinallyInv, OtherEndInv, RouteInv, CloseInv DEF Next

LEMMA SafeRequests == Spec => []RequestInv
  BY InitRequests, NextRequests, PTL DEF Spec

\* A request is never resolved by the reply to another one, however late it comes and
\* whatever has timed out before.
THEOREM RepliesAnswerTheirRequests == Spec => []ReplyAnswersItsRequest
<1>1. RequestInv => ReplyAnswersItsRequest
  BY DEF RequestInv
<1> QED
  BY <1>1, SafeRequests, PTL

\* replyMap holds the requests under way, each under its own id, and nothing else.
THEOREM ReplyMapExact == Spec => []ReplyMapIsExact
<1>1. RequestInv => ReplyMapIsExact
  BY DEF RequestInv
<1> QED
  BY <1>1, SafeRequests, PTL

-----------------------------------------------------------------------------
(***************************************************************************)
(* The lock.  These theorems are about AsyncLock alone, whoever takes it.  *)
(***************************************************************************)

\* Every permit is counted: there are never more holders than locked permits.
PermitInv ==
    /\ LockTypeOK
    /\ Cardinality(Holders) <= locked

LEMMA HoldersFinite == IsFiniteSet(Holders) /\ Cardinality(Holders) \in Nat
<1>1. Holders \subseteq Calls
  BY DEF Holders
<1> QED
  BY <1>1, CallsAssumption, FS_Subset, FS_CardinalityType

LEMMA InitPermit == LockInit => PermitInv /\ locked = Cardinality(Holders)
<1>1. SUFFICES ASSUME LockInit PROVE PermitInv /\ locked = Cardinality(Holders)
  OBVIOUS
<1>2. PICK creator \in {{}} \cup {{c} : c \in Calls} :
         /\ locked = Cardinality(creator)
         /\ call = [c \in Calls |-> IF c \in creator THEN "inside" ELSE "idle"]
  BY <1>1 DEF LockInit
<1>3. Holders = creator
  BY <1>2 DEF Holders
<1>4. Cardinality(creator) \in 0 .. 1
  <2>1. CASE creator = {}
    BY <2>1, FS_EmptySet
  <2>2. ASSUME NEW c \in Calls, creator = {c}
        PROVE  Cardinality(creator) = 1
    BY <2>2, FS_Singleton
  <2> QED
    BY <1>2, <2>1, <2>2
<1>5. queue \in Seq(Calls)
  BY <1>1 DEF LockInit
<1>6. call \in [Calls -> States]
  BY <1>2 DEF States
<1>7. locked = Cardinality(Holders) /\ locked \in 0 .. 1
  BY <1>2, <1>3, <1>4
<1>8. locked \in 0 .. Parallel /\ Cardinality(Holders) <= locked
  BY <1>7, LimitsAssumption
<1>9. gaveUp \in BOOLEAN
  BY <1>1 DEF LockInit
<1> QED
  BY <1>5, <1>6, <1>7, <1>8, <1>9 DEF PermitInv, LockTypeOK

\* What each step does to the holders.
LEMMA HoldersStep ==
    ASSUME LockTypeOK, NEW c \in Calls
    PROVE  /\ Enter(c) => Holders' = Holders \cup {c} /\ c \notin Holders
           /\ Wait(c) \/ GiveUp(c) \/ Resume(c) => Holders' = Holders
           /\ Free(c) => Holders' = Holders \ {c} /\ c \in Holders
           /\ HandOver(c) => /\ c \in Holders
                             /\ Holders' \subseteq (Holders \ {c}) \cup {Head(queue)}
                             /\ Head(queue) \in Calls /\ Tail(queue) \in Seq(Calls)
<1> USE DEF LockTypeOK, States, Holders
<1>1. Enter(c) => Holders' = Holders \cup {c} /\ c \notin Holders
  BY DEF Enter, CanCall
<1>2. Wait(c) \/ GiveUp(c) \/ Resume(c) => Holders' = Holders
  BY DEF Wait, GiveUp, Resume, CanCall
<1>3. Free(c) => Holders' = Holders \ {c} /\ c \in Holders
  BY DEF Free
<1>4. ASSUME HandOver(c)
      PROVE  /\ c \in Holders
             /\ Holders' \subseteq (Holders \ {c}) \cup {Head(queue)}
             /\ Head(queue) \in Calls /\ Tail(queue) \in Seq(Calls)
  <2>1. Head(queue) \in Calls /\ Tail(queue) \in Seq(Calls)
    BY <1>4 DEF HandOver
  <2>2. c \in Holders
    BY <1>4 DEF HandOver
  <2>3. ASSUME NEW d \in Holders', d # Head(queue)
        PROVE  d \in Holders \ {c}
    BY <1>4, <2>1, <2>3 DEF HandOver
  <2> QED
    BY <2>1, <2>2, <2>3
<1> QED
  BY <1>1, <1>2, <1>3, <1>4

LEMMA NextPermit ==
    ASSUME PermitInv, [LockNext]_lockVars
    PROVE  PermitInv'
<1> USE DEF PermitInv
<1>1. IsFiniteSet(Holders) /\ Cardinality(Holders) \in Nat /\ locked \in 0 .. Parallel
  BY HoldersFinite DEF LockTypeOK
<1>2. ASSUME NEW c \in Calls, Enter(c)
      PROVE  PermitInv'
  <2>1. Cardinality(Holders') = Cardinality(Holders) + 1
    BY <1>1, <1>2, HoldersStep, FS_AddElement
  <2> QED
    BY <1>1, <1>2, <2>1, LimitsAssumption DEF LockTypeOK, Enter, States
<1>3. ASSUME NEW c \in Calls, Wait(c)
      PROVE  PermitInv'
  <2>1. Holders' = Holders
    BY <1>3, HoldersStep
  <2> QED
    BY <1>3, <2>1 DEF LockTypeOK, Wait, States
<1>4. ASSUME NEW c \in Calls, GiveUp(c) \/ Resume(c)
      PROVE  PermitInv'
  <2>1. Holders' = Holders
    BY <1>4, HoldersStep
  <2> QED
    BY <1>4, <2>1 DEF LockTypeOK, GiveUp, Resume, States
<1>5. ASSUME NEW c \in Calls, Free(c)
      PROVE  PermitInv'
  <2>1. Cardinality(Holders') = Cardinality(Holders) - 1
    BY <1>1, <1>5, HoldersStep, FS_RemoveElement
  <2>2. Cardinality(Holders') \in Nat
    <3>1. IsFiniteSet(Holders \ {c})
      BY <1>1, FS_RemoveElement
    <3> QED
      BY <1>5, <3>1, HoldersStep, FS_CardinalityType
  <2> QED
    BY <1>1, <1>5, <2>1, <2>2, LimitsAssumption DEF LockTypeOK, Free, States
<1>6. ASSUME NEW c \in Calls, HandOver(c)
      PROVE  PermitInv'
  <2> DEFINE R == Holders \ {c}
             S == R \cup {Head(queue)}
  <2>1. IsFiniteSet(R) /\ Cardinality(R) = Cardinality(Holders) - 1
    BY <1>1, <1>6, HoldersStep, FS_RemoveElement
  <2>2. IsFiniteSet(S) /\ Cardinality(S) <= Cardinality(R) + 1 /\ Cardinality(S) \in Nat
    <3>1. Cardinality(R) \in Nat
      BY <2>1, FS_CardinalityType
    <3> HIDE DEF R
    <3>2. IsFiniteSet(R \cup {Head(queue)})
      BY <2>1, FS_AddElement
    <3>3. Cardinality(R \cup {Head(queue)}) =
             IF Head(queue) \in R THEN Cardinality(R) ELSE Cardinality(R) + 1
      BY <2>1, FS_AddElement
    <3> QED
      BY <3>1, <3>2, <3>3, FS_CardinalityType
  <2>3. Holders' \subseteq S
    BY <1>6, HoldersStep
  <2>4. Cardinality(Holders') <= Cardinality(S) /\ Cardinality(Holders') \in Nat
    <3> HIDE DEF S
    <3>1. Cardinality(Holders') <= Cardinality(S) /\ IsFiniteSet(Holders')
      BY <2>2, <2>3, FS_Subset
    <3> QED
      BY <3>1, FS_CardinalityType
  <2>5. Cardinality(Holders') <= locked
    <3> HIDE DEF S, R
    <3> QED
      BY <1>1, <2>1, <2>2, <2>4
  <2>6. Head(queue) \in Calls /\ Tail(queue) \in Seq(Calls)
    BY <1>6, HoldersStep
  <2> QED
    BY <1>6, <2>5, <2>6 DEF LockTypeOK, HandOver, States
<1>7. ASSUME RejectAll
      PROVE  PermitInv'
  <2>1. Holders' = Holders
    BY <1>7 DEF RejectAll, Holders, LockTypeOK, States
  <2> QED
    BY <1>7, <2>1 DEF LockTypeOK, RejectAll, States
<1>8. CASE UNCHANGED lockVars
  BY <1>8 DEF lockVars, LockTypeOK, Holders
<1> QED
  BY <1>2, <1>3, <1>4, <1>5, <1>6, <1>7, <1>8 DEF LockNext, Leave

\* The lock never admits more than Parallel callers, however calls, timeouts,
\* rejections and hand-overs interleave.
THEOREM LockExcludes == LockSpec => []MutualExclusion
<1>1. PermitInv => MutualExclusion
  <2>1. SUFFICES ASSUME PermitInv PROVE MutualExclusion
    OBVIOUS
  <2>2. Inside \subseteq Holders
    BY DEF Inside, Holders
  <2>3. Cardinality(Inside) <= Cardinality(Holders) /\ IsFiniteSet(Inside)
    BY <2>2, HoldersFinite, FS_Subset
  <2> QED
    BY <2>1, <2>3, HoldersFinite, FS_CardinalityType, LimitsAssumption
    DEF PermitInv, LockTypeOK, MutualExclusion
<1>2. LockInit => PermitInv
  BY InitPermit
<1>3. PermitInv /\ [LockNext]_lockVars => PermitInv'
  BY NextPermit
<1> QED
  BY <1>1, <1>2, <1>3, PTL DEF LockSpec

-----------------------------------------------------------------------------

\* Without timers and rejections every entry of the queue is a caller that
\* waits, once; so the hand-over always finds somebody to take the permit.
LiveInv ==
    /\ LockTypeOK
    /\ locked = Cardinality(Holders)
    /\ \A i \in 1 .. Len(queue) : call[queue[i]] = "waiting"
    /\ \A i, j \in 1 .. Len(queue) : queue[i] = queue[j] => i = j

LEMMA QueueRange == ASSUME LockTypeOK PROVE Range(queue) = {queue[i] : i \in 1 .. Len(queue)}
BY DEF Range, LockTypeOK

LEMMA NextLive ==
    ASSUME LiveInv, [LockNext]_lockVars, ~gaveUp'
    PROVE  LiveInv'
<1> USE DEF LiveInv
<1>0. IsFiniteSet(Holders) /\ Cardinality(Holders) \in Nat
  BY HoldersFinite
<1>1. LockTypeOK'
  <2>1. PermitInv
    BY <1>0 DEF PermitInv
  <2> QED
    BY <2>1, NextPermit DEF PermitInv
<1>2. ASSUME NEW c \in Calls, Enter(c)
      PROVE  LiveInv'
  <2>1. locked' = Cardinality(Holders')
    BY <1>0, <1>2, HoldersStep, FS_AddElement DEF Enter
  <2>2. \A i \in 1 .. Len(queue) : queue[i] # c
    BY <1>2, QueueRange DEF Enter, CanCall
  <2> QED
    BY <1>1, <1>2, <2>1, <2>2 DEF Enter, LockTypeOK
<1>3. ASSUME NEW c \in Calls, Wait(c)
      PROVE  LiveInv'
  <2>1. locked' = Cardinality(Holders')
    BY <1>3, HoldersStep DEF Wait
  <2>2. \A i \in 1 .. Len(queue) : queue[i] # c
    BY <1>3, QueueRange DEF Wait, CanCall
  <2>3. /\ Len(queue') = Len(queue) + 1
        /\ queue'[Len(queue) + 1] = c
        /\ \A i \in 1 .. Len(queue) : queue'[i] = queue[i]
    BY <1>3 DEF Wait, LockTypeOK
  <2>4. call'[c] = "waiting" /\ \A d \in Calls \ {c} : call'[d] = call[d]
    BY <1>3 DEF Wait, LockTypeOK
  <2>5. \A i \in 1 .. Len(queue) : queue[i] \in Calls
    BY DEF LockTypeOK
  <2>6. Len(queue) \in Nat
    BY DEF LockTypeOK
  <2>7. \A i \in 1 .. Len(queue') : i \in 1 .. Len(queue) \/ i = Len(queue) + 1
    BY <2>3, <2>6
  <2>8. \A i \in 1 .. Len(queue') : call'[queue'[i]] = "waiting"
    BY <2>2, <2>3, <2>4, <2>5, <2>7
  <2>9. \A i, j \in 1 .. Len(queue') : queue'[i] = queue'[j] => i = j
    BY <2>2, <2>3, <2>7
  <2> QED
    BY <1>1, <2>1, <2>8, <2>9
<1>4. ASSUME NEW c \in Calls, Resume(c)
      PROVE  LiveInv'
  <2>1. locked' = Cardinality(Holders')
    BY <1>4, HoldersStep DEF Resume
  <2> QED
    BY <1>1, <1>4, <2>1 DEF Resume, LockTypeOK
<1>5. ASSUME NEW c \in Calls, Free(c)
      PROVE  LiveInv'
  <2>1. locked' = Cardinality(Holders')
    BY <1>0, <1>5, HoldersStep, FS_RemoveElement DEF Free
  <2> QED
    BY <1>1, <1>5, <2>1 DEF Free, LockTypeOK
<1>6. ASSUME NEW c \in Calls, HandOver(c)
      PROVE  LiveInv'
  <2> DEFINE next == queue[1]
             R == Holders \ {c}
  <2>1. /\ queue # <<>> /\ Len(queue) \in Nat \ {0} /\ next = Head(queue)
        /\ next \in Calls /\ call[next] = "waiting" /\ c # next
    BY <1>6 DEF HandOver, LockTypeOK
  <2>2. call'[c] = "idle" /\ call'[next] = "granted"
        /\ \A d \in Calls \ {c, next} : call'[d] = call[d]
    BY <1>6, <2>1 DEF HandOver, LockTypeOK
  <2>3. Holders' = R \cup {next} /\ next \notin R /\ c \in Holders
    BY <1>6, <2>1, <2>2 DEF Holders, HandOver
  <2>4. locked' = Cardinality(Holders')
    <3>1. IsFiniteSet(R) /\ Cardinality(R) = Cardinality(Holders) - 1
      BY <1>0, <2>3, FS_RemoveElement
    <3>2. Cardinality(R \cup {next}) = Cardinality(R) + 1
      BY <2>3, <3>1, FS_AddElement
    <3>3. locked' = locked
      BY <1>6 DEF HandOver
    <3> HIDE DEF R
    <3> QED
      BY <1>0, <2>3, <3>1, <3>2, <3>3
  <2>5. /\ Len(queue') = Len(queue) - 1
        /\ \A i \in 1 .. Len(queue') : queue'[i] = queue[i + 1]
    BY <1>6, <2>1 DEF HandOver, LockTypeOK
  <2>6. \A i \in 1 .. Len(queue') : i + 1 \in 1 .. Len(queue) /\ i + 1 # 1
    BY <2>1, <2>5
  <2>7. \A i \in 1 .. Len(queue') : queue'[i] \notin {c, next} /\ queue'[i] \in Calls
    <3>1. call[c] = "inside"
      BY <1>6 DEF HandOver
    <3> QED
      BY <2>1, <2>5, <2>6, <3>1 DEF LockTypeOK
  <2>8. \A i \in 1 .. Len(queue') : call'[queue'[i]] = "waiting"
    BY <2>2, <2>5, <2>6, <2>7
  <2>9. \A i, j \in 1 .. Len(queue') : queue'[i] = queue'[j] => i = j
    <3>1. SUFFICES ASSUME NEW i \in 1 .. Len(queue'), NEW j \in 1 .. Len(queue'),
                          queue'[i] = queue'[j]
                   PROVE  i = j
      OBVIOUS
    <3>2. i + 1 = j + 1
      BY <2>5, <2>6, <3>1
    <3> QED
      BY <3>2
  <2> QED
    BY <1>1, <2>4, <2>8, <2>9
<1>7. CASE UNCHANGED lockVars
  BY <1>7 DEF lockVars, LockTypeOK, Holders
<1>8. ~RejectAll /\ \A c \in Calls : ~GiveUp(c)
  BY DEF RejectAll, GiveUp
<1> QED
  BY <1>2, <1>3, <1>4, <1>5, <1>6, <1>7, <1>8 DEF LockNext, Leave

KeptInv == LockTypeOK /\ (~gaveUp => LiveInv)

LEMMA GaveUpStays == ASSUME [LockNext]_lockVars, ~gaveUp', LockTypeOK PROVE ~gaveUp
BY DEF LockNext, lockVars, LockTypeOK, Enter, Wait, GiveUp, RejectAll, Leave, Free, HandOver, Resume

\* As long as nobody gives up no permit is lost: whatever is not held is there
\* for the next caller, so nobody waits for a permit that is gone.
THEOREM PermitsAreKept == LockSpec => []NoPermitIsLost
<1>1. KeptInv => NoPermitIsLost
  BY DEF KeptInv, LiveInv, NoPermitIsLost
<1>2. LockInit => KeptInv
  <2>1. SUFFICES ASSUME LockInit PROVE KeptInv
    OBVIOUS
  <2>2. LockTypeOK /\ locked = Cardinality(Holders)
    BY <2>1, InitPermit DEF PermitInv
  <2>3. Len(queue) = 0
    BY <2>1 DEF LockInit
  <2> QED
    BY <2>2, <2>3 DEF LiveInv, KeptInv
<1>3. LockTypeOK /\ Cardinality(Holders) <= locked /\ KeptInv /\ [LockNext]_lockVars => KeptInv'
  <2>1. SUFFICES ASSUME PermitInv, KeptInv, [LockNext]_lockVars PROVE KeptInv'
    BY DEF PermitInv
  <2>2. LockTypeOK'
    BY <2>1, NextPermit DEF PermitInv
  <2>3. ASSUME ~gaveUp' PROVE LiveInv'
    BY <2>1, <2>3, GaveUpStays, NextLive DEF KeptInv
  <2> QED
    BY <2>2, <2>3 DEF KeptInv
<1>4. LockInit => PermitInv
  BY InitPermit
<1>5. PermitInv /\ [LockNext]_lockVars => PermitInv'
  BY NextPermit
<1>6. PermitInv => LockTypeOK /\ Cardinality(Holders) <= locked
  BY DEF PermitInv
<1> QED
  BY <1>1, <1>2, <1>3, <1>4, <1>5, <1>6, PTL DEF LockSpec

\* The request semaphore is such a lock: whatever the packets, the connection and the
\* handlers do to it (BasePeer.onPacket, respond) is a step of the lock.
THEOREM SemaphoreIsALock == Spec => LockSpec
<1>1. Init => LockInit
  <2> SUFFICES ASSUME Init PROVE LockInit
    OBVIOUS
  <2>1. PICK creator : creator = {}
    OBVIOUS
  <2>2. locked = Cardinality(creator)
    BY <2>1, FS_EmptySet DEF Init
  <2>3. call = [c \in Calls |-> IF c \in creator THEN "inside" ELSE "idle"]
    BY <2>1 DEF Init
  <2> QED
    BY <2>1, <2>2, <2>3 DEF Init, LockInit
<1>2. RequestInv /\ [Next]_vars => [LockNext]_lockVars
  <2> SUFFICES ASSUME RequestInv, [Next]_vars PROVE [LockNext]_lockVars
    OBVIOUS
  <2> USE DEF lockVars
  <2>1. ASSUME NEW c \in Calls, SendRequest(c) \/ SendFails(c) \/ TimeOut(c) \/ Finally(c)
        PROVE  UNCHANGED lockVars
    BY <2>1 DEF SendRequest, SendFails, TimeOut, Finally
  <2>2. ASSUME NEW c \in Calls, Respond(c) \/ Semaphored(c)
        PROVE  LockNext
    BY <2>2 DEF Respond, Semaphored, LockNext
  <2>3. CASE Route \/ Destroy \/ Close
    BY <2>3 DEF Route, Destroy, Close
  <2>4. CASE Receive
    <3>1. Head(toPeer).request \in Calls
      <4>1. toPeer \in Seq(Message) /\ toPeer # <<>>
        BY <2>4 DEF Receive, RequestInv, TypeInv
      <4>2. Head(toPeer) \in Message
        BY <4>1, RangeOfTail
      <4> QED
        BY <4>2 DEF Message
    <3> QED
      BY <2>4, <3>1 DEF Receive, LockNext
  <2>5. CASE UNCHANGED vars
    BY <2>5 DEF vars
  <2> QED
    BY <2>1, <2>2, <2>3, <2>4, <2>5 DEF Next
<1> QED
  BY <1>1, <1>2, SafeRequests, PTL DEF Spec, LockSpec

=============================================================================
