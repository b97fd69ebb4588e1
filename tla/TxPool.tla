-------------------------------- MODULE TxPool --------------------------------
(***************************************************************************)
(* The pool of pending transactions, between its sources (peers, the REST  *)
(* interface, reorganizations of the main chain) and the miner.  putTxs    *)
(* looks at one transaction after the other and awaits the verdict of      *)
(* Consensus on each; what it does between two awaits runs in one go: while *)
(* a call is running, nobody else does.                                    *)
(*                                                                         *)
(* Consensus is what the pool sees of it: a tip, moved by reorganize under *)
(* the lock under which txValidity judges.  A transaction is valid by its  *)
(* nonce and by its signature; amounts are left out.                       *)
(***************************************************************************)
EXTENDS PriorityQueue, FiniteSetsExt, SequencesExt

CONSTANTS
    Txs, Accounts, From, Nonce, Fee,
    OldStyle, NewStyle,    \* the transactions signed for the rules up to the last Ghost block, after it
    MinFee,
    MaxAddresses, MaxTxsPerAddress, MaxSeen,
    SumLimit,          \* 2^64: a sum of fees is unsigned
    Blocks, Genesis, Work, BlockTxs,
    Chain,             \* the main chain up to a block, from Genesis upwards
    LastGhostBlock,
    Offers,            \* what peers and clients hand to putTxs
    Calls,             \* calls of putTxs that may be under way
    MaxOffers,         \* named bound: calls by peers and clients
    None

ASSUME TxAssumption ==
    /\ From \in [Txs -> Accounts] /\ Nonce \in [Txs -> Nat] /\ Fee \in [Txs -> Nat]
    /\ Offers \subseteq Seq(Txs)
    /\ MaxTxsPerAddress \in Nat /\ MaxAddresses \in Nat /\ SumLimit \in Nat \ {0}

ASSUME ChainAssumption ==
    /\ Genesis \in Blocks
    /\ Chain \in [Blocks -> Seq(Blocks)] /\ BlockTxs \in [Blocks -> Seq(Txs)]
    /\ \A b \in Blocks : \A i \in 1 .. Len(Chain[b]) :
          Chain[b][1] = Genesis /\ Chain[Chain[b][i]] = SubSeq(Chain[b], 1, i)

MinedOn(b) == UNION {Range(BlockTxs[a]) : a \in Range(Chain[b])}
NonceAt(b, acc) == Cardinality({t \in MinedOn(b) : From[t] = acc})

\* processTx takes the transactions of an account in the order of their nonces, from 1.
ASSUME NonceAssumption ==
    \A b \in Blocks : \A t \in MinedOn(b) : Nonce[t] <= NonceAt(b, From[t])

Height(b) == Len(Chain[b]) - 1

ASSUME HeightAssumption == Work \in [Blocks -> Nat] /\ LastGhostBlock \in Nat

VARIABLES
    pending,           \* accountMap, pool and the queues: see Empty
    seenTxsSet, seenTxs,
    transitionWaiting,
    put,               \* the calls of putTxs: what is left, and what to remove after
    running,           \* the call whose code runs
    tip,
    immediate,         \* the transition that reorganize has scheduled
    candidate,         \* the miner's world state under way: parent and transactions
    offers,            \* calls by peers and clients so far
    \* History variables, which no action reads.
    skipped,           \* mined transactions whose removal was never run
    jumped             \* the tip went over the last Ghost height without being on it

seen == <<seenTxsSet, seenTxs>>
history == <<skipped, jumped>>
vars == <<pending, seen, transitionWaiting, put, running, tip, immediate, candidate, offers, history>>

\* map: the accounts with a queue; pool: accounts in the order of their sums.
Empty == [map |-> {}, pool |-> <<>>,
          queue |-> [a \in Accounts |-> <<>>], sum |-> [a \in Accounts |-> 0]]

Idle == [txs |-> <<>>, remove |-> <<>>, busy |-> FALSE]

TypeOK ==
    /\ pending.map \subseteq Accounts
    /\ pending.queue \in [Accounts -> Seq(Txs)]
    /\ pending.sum \in [Accounts -> 0 .. SumLimit - 1]
    /\ Range(pending.pool) \subseteq pending.map
    /\ Len(pending.pool) <= MaxAddresses /\ IsInjective(pending.pool)
    /\ \A a \in Accounts : Len(pending.queue[a]) <= IF a \in pending.map THEN MaxTxsPerAddress ELSE 0
    /\ seenTxsSet \subseteq Range(seenTxs) /\ seenTxs \in Seq(Txs)
    /\ transitionWaiting \in Seq(Txs)
    /\ put \in [Calls -> [txs : Seq(Txs), remove : Seq(Txs), busy : BOOLEAN]]
    /\ running \in Calls \cup {None}
    /\ tip \in Blocks /\ immediate \in BOOLEAN
    /\ candidate \in [parent : Blocks, txs : Seq(Txs)] \cup {None}
    /\ offers \in 0 .. MaxOffers
    /\ skipped \subseteq Txs /\ jumped \in BOOLEAN

Init ==
    /\ pending = Empty
    /\ seenTxsSet = {} /\ seenTxs = <<>>
    /\ transitionWaiting = <<>>
    /\ put = [c \in Calls |-> Idle] /\ running = None
    /\ tip = Genesis /\ immediate = FALSE
    /\ candidate = None
    /\ offers = 0
    /\ skipped = {} /\ jumped = FALSE

-----------------------------------------------------------------------------
\* What Consensus says.

LegacyTx == Height(tip) < LastGhostBlock
Signed(t) == t \in IF LegacyTx THEN OldStyle ELSE NewStyle

Validity(t) ==
    IF ~Signed(t) \/ Nonce[t] <= NonceAt(tip, From[t]) THEN "Invalid"
    ELSE IF Nonce[t] = NonceAt(tip, From[t]) + 1 THEN "Valid" ELSE "Waiting"

\* The blocks of the one chain above the highest that is on the other as well.
Shared(b, other) == {i \in 1 .. Len(Chain[b]) : i <= Len(Chain[other]) /\ Chain[b][i] = Chain[other][i]}
Branch(b, other) == SubSeq(Chain[b], Cardinality(Shared(b, other)) + 1, Len(Chain[b]))
TxsOf(blocks) == FlattenSeq([i \in DOMAIN blocks |-> BlockTxs[blocks[i]]])

-----------------------------------------------------------------------------
\* putTxs

GoesBefore(t, u) == Nonce[t] < Nonce[u] \/ (Nonce[t] = Nonce[u] /\ Fee[t] >= Fee[u])
Resorted(p) == { [p EXCEPT !.pool = s] : s \in Sortings(p.pool, p.sum) }

PutSeen(t, set, list) ==
    /\ seenTxsSet' = set \cup {t}
    /\ seenTxs' = Append(list, t)

\* splice(0, length - 10000)
Old == IF Len(seenTxs) > MaxSeen THEN SubSeq(seenTxs, 1, Len(seenTxs) - MaxSeen) ELSE <<>>
YoungSet == seenTxsSet \ Range(Old)
YoungList == SubSeq(seenTxs, Len(Old) + 1, Len(seenTxs))

Begin(c, txs, remove) ==
    /\ running = None /\ ~put[c].busy
    /\ put' = [put EXCEPT ![c] = [txs |-> txs, remove |-> remove, busy |-> TRUE]]
    /\ running' = c

NextTx(c) == put' = [put EXCEPT ![c].txs = Tail(@)]

\* The head of the loop, up to the await.
LookAt(c) ==
    /\ running = c
    /\ put[c].txs # <<>>
    /\ LET t == Head(put[c].txs)
       IN  \/ /\ t \in seenTxsSet
              /\ NextTx(c)
              /\ UNCHANGED <<seen, running>>
           \/ /\ t \notin seenTxsSet /\ Fee[t] < MinFee
              /\ PutSeen(t, YoungSet, YoungList)
              /\ NextTx(c)
              /\ UNCHANGED running
           \/ /\ t \notin seenTxsSet /\ Fee[t] >= MinFee
              /\ seenTxsSet' = YoungSet /\ seenTxs' = YoungList
              /\ running' = None
              /\ UNCHANGED put
    /\ UNCHANGED <<pending, transitionWaiting, tip, immediate, candidate, offers, history>>

\* txValidity judges the transaction some time later,
Judging(c, t) ==
    /\ running = None
    /\ put[c].txs # <<>> /\ t = Head(put[c].txs)

\* and the call goes on with the next at once.
Judged(c, t) ==
    /\ Judging(c, t)
    /\ NextTx(c)
    /\ running' = c

KeptAlways(t) == t \in NewStyle        \* mutant: kept under the new rules too
KeptForTransition(t) == LegacyTx /\ t \in NewStyle

Refuse(c) ==
    \E t \in Txs :
        /\ Judged(c, t)
        /\ Validity(t) = "Invalid"
        /\ PutSeen(t, seenTxsSet, seenTxs)
        /\ transitionWaiting' = IF KeptForTransition(t) THEN Append(transitionWaiting, t)
                                ELSE transitionWaiting
        /\ UNCHANGED <<pending, tip, immediate, candidate, offers, history>>

NeverDuplicate(t) == FALSE             \* mutant: the queue is not searched
Duplicate(t) == t \in Range(pending.queue[From[t]])

\* An account without a queue gets an empty one, if the pool has a place for it;
\* the account that falls out of a full pool stays in the map with its queue.
Place0(acc) == Place(pending.pool, {a \in Accounts : pending.sum[acc] >= pending.sum[a]})
HasPlace(acc) == acc \in pending.map \/ Takes(pending.pool, Place0(acc), MaxAddresses)
Opened(acc) ==
    IF acc \in pending.map THEN pending
    ELSE [pending EXCEPT !.map = @ \cup {acc},
                         !.pool = Inserted(@, Place0(acc), acc, MaxAddresses)]

\* The queue is empty and its account can spend at once, or the nonce leaves no gap behind the last one.
Follows(t) ==
    LET q == pending.queue[From[t]]
    IN  IF q = <<>> THEN Validity(t) = "Valid" ELSE Nonce[t] - Nonce[Last(q)] <= 1

PlaceOf(t) == Place(pending.queue[From[t]], {u \in Txs : GoesBefore(t, u)})
Enters(t) ==
    /\ HasPlace(From[t])
    /\ ~Duplicate(t) /\ Follows(t)
    /\ Takes(pending.queue[From[t]], PlaceOf(t), MaxTxsPerAddress)
Queued(t) ==
    [Opened(From[t]) EXCEPT !.queue[From[t]] = Inserted(@, PlaceOf(t), t, MaxTxsPerAddress)]
SumWith(t) == Opened(From[t]).sum[From[t]] + Fee[t]

Accept(c) ==
    \E t \in Txs :
        /\ Judged(c, t)
        /\ Validity(t) # "Invalid"
        /\ \/ /\ ~HasPlace(From[t])
              /\ UNCHANGED <<pending, seen>>
           \/ /\ HasPlace(From[t]) /\ ~Enters(t)
              /\ pending' = Opened(From[t])
              /\ UNCHANGED seen
           \/ /\ Enters(t) /\ SumWith(t) < SumLimit
              /\ pending' = [Queued(t) EXCEPT !.sum[From[t]] = SumWith(t)]
              /\ PutSeen(t, seenTxsSet, seenTxs)
        /\ UNCHANGED <<transitionWaiting, tip, immediate, candidate, offers, history>>

\* strictAdd throws once removeTxs has wrapped the sum: the transaction is in its queue,
\* the rest of the call is dropped, and what was to be removed after it is not.
Overflow(c) ==
    \E t \in Txs :
        /\ Judging(c, t)
        /\ Validity(t) # "Invalid"
        /\ Enters(t) /\ SumWith(t) >= SumLimit
        /\ pending' = Queued(t)
        /\ put' = [put EXCEPT ![c] = Idle]
        /\ skipped' = skipped \cup Range(put[c].remove)
        /\ UNCHANGED <<seen, transitionWaiting, running, tip, immediate, candidate, offers, jumped>>

-----------------------------------------------------------------------------
\* removeTxs

\* The fee is subtracted whether the queue held the transaction or not.
Removed(p, t) ==
    LET acc == From[t]
        q == RemoveFirst(p.queue[acc], t)
    IN  IF acc \notin p.map THEN p
        ELSE IF q # <<>>
        THEN [p EXCEPT !.queue[acc] = q, !.sum[acc] = (@ - Fee[t]) % SumLimit]
        ELSE [p EXCEPT !.queue[acc] = q, !.sum[acc] = 0,
                       !.map = @ \ {acc}, !.pool = RemoveFirst(@, acc)]

\* The pool after the first k of them.
Removing(txs) ==
    LET after[k \in 0 .. Len(txs)] == IF k = 0 THEN pending ELSE Removed(after[k - 1], txs[k])
    IN  after

\* Each that finds its account is no longer seen, the queue held it or not.
RemoveTxs(txs) ==
    LET after == Removing(txs)
    IN  /\ pending' \in Resorted(after[Len(txs)])
        /\ seenTxsSet' = seenTxsSet \ {txs[k] : k \in {i \in 1 .. Len(txs) : From[txs[i]] \in after[i - 1].map}}
        /\ UNCHANGED seenTxs
        /\ skipped' = skipped \ Range(txs)

\* putTxs is over: the pool is sorted, and reorganize takes out what was mined.
Finish(c) ==
    /\ running = c
    /\ put[c].txs = <<>>
    /\ RemoveTxs(put[c].remove)
    /\ put' = [put EXCEPT ![c] = Idle]
    /\ running' = None
    /\ UNCHANGED <<transitionWaiting, tip, immediate, candidate, offers, jumped>>

-----------------------------------------------------------------------------
\* The callers.

Offer(c, txs) ==
    /\ offers < MaxOffers
    /\ offers' = offers + 1
    /\ Begin(c, txs, <<>>)
    /\ UNCHANGED <<pending, seen, transitionWaiting, tip, immediate, candidate, history>>

NothingMined(b) == <<>>                \* mutant: the transactions of the new blocks stay
Mined(b) == TxsOf(Branch(b, tip))

\* Popped from the tip downwards, pushed upwards; the call of putTxs is not awaited.
\* The transition starts at exactly the last Ghost height.
Reorganize(c, b) ==
    /\ Work[b] > Work[tip]
    /\ tip' = b
    /\ immediate' = (immediate \/ Height(b) = LastGhostBlock)
    /\ Begin(c, TxsOf(Reverse(Branch(tip, b))), Mined(b))
    /\ jumped' = ((LegacyTx \/ jumped) /\ Height(b) > LastGhostBlock)
    /\ UNCHANGED <<pending, seen, transitionWaiting, candidate, offers, skipped>>

Transition(c) ==
    /\ immediate
    /\ immediate' = FALSE
    /\ transitionWaiting' = <<>>
    /\ seenTxsSet' = seenTxsSet \ Range(transitionWaiting)
    /\ Begin(c, transitionWaiting, <<>>)
    /\ UNCHANGED <<pending, seenTxs, tip, candidate, offers, history>>

GetTxs == FlattenSeq([i \in DOMAIN pending.pool |-> pending.queue[pending.pool[i]]])

\* createCandidate: the transactions are read before the await of worldState.next.
StartCandidate ==
    /\ running = None
    /\ candidate = None
    /\ candidate' = [parent |-> tip, txs |-> GetTxs]
    /\ UNCHANGED <<pending, seen, transitionWaiting, put, running, tip, immediate, offers, history>>

\* processTx, on the nonces as the transactions before it left them.
Processed(s, t) ==
    IF Nonce[t] <= s.nonce[From[t]] THEN [s EXCEPT !.invalid = Append(@, t)]
    ELSE IF Nonce[t] = s.nonce[From[t]] + 1 THEN [s EXCEPT !.nonce[From[t]] = @ + 1]
    ELSE s

Fresh(b) == [nonce |-> [a \in Accounts |-> NonceAt(b, a)], invalid |-> <<>>]

InvalidOf(b, txs) ==
    LET after[k \in 0 .. Len(txs)] == IF k = 0 THEN Fresh(b) ELSE Processed(after[k - 1], txs[k])
    IN  after[Len(txs)].invalid

\* ... and the invalid ones of them removed after it.
FinishCandidate ==
    /\ running = None
    /\ candidate # None
    /\ RemoveTxs(InvalidOf(candidate.parent, candidate.txs))
    /\ candidate' = None
    /\ UNCHANGED <<transitionWaiting, put, running, tip, immediate, offers, jumped>>

Next ==
    \/ \E c \in Calls :
          \/ LookAt(c) \/ Refuse(c) \/ Accept(c) \/ Overflow(c) \/ Finish(c) \/ Transition(c)
          \/ \E txs \in Offers : Offer(c, txs)
          \/ \E b \in Blocks : Reorganize(c, b)
    \/ StartCandidate
    \/ FinishCandidate

Spec == Init /\ [][Next]_vars

-----------------------------------------------------------------------------
\* Properties

\* A queue never holds the same transaction twice, though two calls of putTxs may
\* have passed the set of seen transactions with it before either inserted it.
NoTxTwice == \A a \in Accounts : IsInjective(pending.queue[a])

\* A queue is in the order in which the account spends: the miner takes its
\* transactions one after the other and skips what does not follow (getTxs, next).
QueuesAreOrdered ==
    \A a \in Accounts : \A i \in 1 .. Len(pending.queue[a]) - 1 :
        GoesBefore(pending.queue[a][i], pending.queue[a][i + 1])

\* When every call has ended, whatever the calls, reorganizations and candidates
\* overtook on the way, the only mined transactions left in the pool are those whose
\* own reorganization died in strictAdd, and only until a later removal meets them.
NoMinedTxStays ==
    (\A c \in Calls : ~put[c].busy) =>
        \A a \in Accounts : Range(pending.queue[a]) \cap MinedOn(tip) \subseteq skipped

\* A transaction that waits for the rules to change waits only until they do: it
\* is kept aside after an await, while reorganize may set the new rules going.  Only
\* a tip that jumped over the last Ghost height leaves it waiting.
WaitingOnlyUnderLegacyRules == transitionWaiting # <<>> => LegacyTx \/ immediate \/ jumped
=============================================================================
