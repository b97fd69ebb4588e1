------------------------------- MODULE WorldState -------------------------------
(***************************************************************************)
(* The accounts after every block: WorldState.next computes what a block   *)
(* changes, putPending writes it to the account database with reference    *)
(* counts, and Consensus then records the block.  The miner computes       *)
(* candidates on the same database, at any moment between these steps.     *)
(*                                                                         *)
(* Signatures and the encoding of accounts are left out.  Amounts are      *)
(* unsigned and of fixed width: MaxAmount is 2^64 - 1 in the code.         *)
(***************************************************************************)
EXTENDS StateTrie, Functions

CONSTANTS
    Exodus,            \* the sets of accounts there may be to start with
    Nobody,            \* the receiver of a transaction that burns its amount
    Miners, Self,      \* the other miners, the address this node mines for
    UncleLists,        \* what the uncles of a block may be, as miner and delta
    MinerReward,
    UncleReward,       \* by how far the uncle is below its nephew
    MaxAmount,
    Offers,            \* what other miners put into a block: sequences of records from, to, amount, fee, nonce
    Pools,             \* what the pool hands to createCandidate
    MaxBlocks,         \* named bound: blocks recorded
    MaxCrashes         \* named bound

VARIABLES
    accountDB,         \* the reference count of everything stored
    blocks,            \* the blocks recorded, the exodus block first
    job,               \* the block being put: its batch is computed, or written too
    candidate,         \* the miner's block
    crashes            \* so far

vars == <<accountDB, blocks, job, candidate, crashes>>

None == [step |-> "none"]

Txs == [from : Addresses, to : Addresses \cup {Nobody}, amount : Nat, fee : Nat, nonce : Nat]
Uncles == [miner : Addresses, delta : DOMAIN UncleReward]

ASSUME RewardAssumption == MinerReward \in Nat /\ UncleReward \in Seq(Nat) /\ MaxAmount \in Nat

\* An exodus block of a single account would make the account itself the root.
ASSUME BlocksAssumption ==
    /\ Nobody \notin Addresses
    /\ Exodus \subseteq {accounts \in Maps : \E a, c \in Known(accounts) : a # c}
    /\ Miners \subseteq Addresses /\ Self \in Addresses
    /\ UncleLists \subseteq Seq(Uncles)
    /\ Offers \subseteq Seq(Txs) /\ Pools \subseteq Seq(Txs)

-----------------------------------------------------------------------------
\* WorldState.next

NoChanges == [a \in Addresses |-> Absent]
OrNew(account) == IF account = Absent THEN Account(0, 0) ELSE account

\* getModifiedAccount
Modified(root, changes, address) ==
    IF changes[address] # Absent THEN changes[address] ELSE OrNew(GetAccount(root, address))

PaidAnew(root, changes, address, amount) ==      \* mutant: the account is read from the database again
    [changes EXCEPT ![address] = [Modified(root, NoChanges, address) EXCEPT !.balance = @ + amount]]

Paid(root, changes, address, amount) ==
    [changes EXCEPT ![address] = [Modified(root, changes, address) EXCEPT !.balance = @ + amount]]

\* processTx.  The receiver's balance cannot overflow while the supply does not.
Validity(root, changes, tx) ==
    LET from == Modified(root, changes, tx.from)
    IN  IF tx.from = tx.to \/ tx.nonce < from.nonce + 1 THEN "Invalid"
        ELSE IF tx.nonce > from.nonce + 1 THEN "Waiting"
        ELSE IF tx.amount + tx.fee > MaxAmount \/ from.balance < tx.amount + tx.fee THEN "Invalid"
        ELSE "Valid"

Spent(root, changes, tx) ==
    [changes EXCEPT ![tx.from] =
        Account(Modified(root, changes, tx.from).balance - (tx.amount + tx.fee), tx.nonce)]

Received(root, changes, tx) ==
    IF tx.to = Nobody THEN changes ELSE Paid(root, changes, tx.to, tx.amount)

ProcessTxTraced(root, s, tx) ==                  \* mutant: the sender is put before the checks
    LET changes == [s.changes EXCEPT ![tx.from] = Modified(root, s.changes, tx.from)]
    IN  CASE Validity(root, s.changes, tx) = "Valid" ->
               [s EXCEPT !.changes = Received(root, Spent(root, @, tx), tx),
                         !.fees = @ + tx.fee,
                         !.valid = Append(@, tx)]
          [] Validity(root, s.changes, tx) = "Invalid" ->
               [s EXCEPT !.changes = changes, !.invalid = Append(@, tx)]
          [] OTHER -> s

ProcessTx(root, s, tx) ==
    CASE Validity(root, s.changes, tx) = "Valid" ->
           [s EXCEPT !.changes = Received(root, Spent(root, @, tx), tx),
                     !.fees = @ + tx.fee,
                     !.valid = Append(@, tx)]
      [] Validity(root, s.changes, tx) = "Invalid" -> [s EXCEPT !.invalid = Append(@, tx)]
      [] OTHER -> s

Processed(root, txs) ==
    LET after[k \in 0 .. Len(txs)] ==
          IF k = 0 THEN [changes |-> NoChanges, fees |-> MinerReward, valid |-> <<>>, invalid |-> <<>>]
          ELSE ProcessTx(root, after[k - 1], txs[k])
    IN  after[Len(txs)]

Rewarded(root, changes, uncles) ==
    LET after[k \in 0 .. Len(uncles)] ==
          IF k = 0 THEN changes
          ELSE Paid(root, after[k - 1], uncles[k].miner, UncleReward[uncles[k].delta])
    IN  after[Len(uncles)]

\* The uncles' rewards, then the miner's, with the fees.
AllRewarded(root, processed, miner, uncles) ==
    Paid(root, Rewarded(root, processed.changes, uncles), miner, processed.fees)

Outcome(processed, put) ==
    [root |-> put.hash, batch |-> put.batch, valid |-> processed.valid, invalid |-> processed.invalid]

NextState(root, miner, txs, uncles) ==
    LET processed == Processed(root, txs)
    IN  Outcome(processed, PutAccount(root, AllRewarded(root, processed, miner, uncles)))

-----------------------------------------------------------------------------
\* WorldState.putPending

\* The references to v from the nodes of the batch, each counted.
References(v, nodes) ==
    SumFunction([w \in nodes |-> Cardinality({ref \in w.refs : ref.child = v})])

\* What is stored already gains a reference per node of the batch that refers to it,
\* unless it is in the batch itself: then the two counts are added.
PutPending(batch) ==
    LET pending == {p.value : p \in batch}
        nodes == {v \in pending : IsNode(v)}
        dbChildren == UNION {Children(v) : v \in nodes} \cap DOMAIN accountDB
        put(v) == Cardinality({p \in batch : p.value = v})
    IN  [v \in pending \cup DOMAIN accountDB |->
            (IF v \in DOMAIN accountDB /\ (v \in dbChildren \/ v \notin pending) THEN accountDB[v] ELSE 0)
            + (IF v \in pending THEN put(v) ELSE IF v \in dbChildren THEN References(v, nodes) ELSE 0)]

-----------------------------------------------------------------------------
\* Consensus

Supply(accounts) == SumFunction([a \in Addresses |-> OrNew(accounts[a]).balance])

BlockReward(uncles) ==                 \* calculateBlockReward
    MinerReward + SumFunction([i \in DOMAIN uncles |-> UncleReward[uncles[i].delta]])

Init ==
    /\ accountDB = [v \in {} |-> 0]
    /\ blocks = <<>>
    /\ job = None
    /\ candidate = None
    /\ crashes = 0

\* initExodusBlock, on the first start.
Initialize ==
    /\ blocks = <<>> /\ job = None
    /\ \E accounts \in Exodus :
          LET put == PutAccount(Absent, accounts)
          IN  job' = [step |-> "computed", batch |-> put.batch,
                      block |-> [parent |-> 0, exodus |-> accounts, root |-> put.hash,
                                 totalSupply |-> Supply(accounts)]]
    /\ UNCHANGED <<accountDB, blocks, candidate, crashes>>

\* processBlock refuses a block whose root or transactions are not what next says.
ProcessBlock(parent, miner, txs, uncles, root) ==
    LET next == NextState(blocks[parent].root, miner, txs, uncles)
    IN  /\ next.root = root
        /\ next.invalid = <<>> /\ Len(next.valid) = Len(txs)
        /\ job' = [step |-> "computed", batch |-> next.batch,
                   block |-> [parent |-> parent, miner |-> miner, txs |-> txs, uncles |-> uncles,
                              root |-> root,
                              totalSupply |-> blocks[parent].totalSupply + BlockReward(uncles)]]

CanProcess == job = None /\ Len(blocks) \in 1 .. MaxBlocks - 1

\* Another miner's block; only one with the right root gets further than next.
PutBlock ==
    /\ CanProcess
    /\ \E parent \in DOMAIN blocks, miner \in Miners, txs \in Offers, uncles \in UncleLists :
          ProcessBlock(parent, miner, txs, uncles,
                       NextState(blocks[parent].root, miner, txs, uncles).root)
    /\ UNCHANGED <<accountDB, blocks, candidate, crashes>>

\* createCandidate: what the pool has is sorted out by next.
CreateCandidate ==
    /\ blocks # <<>>
    /\ \E parent \in DOMAIN blocks, txs \in Pools, uncles \in UncleLists :
          LET next == NextState(blocks[parent].root, Self, txs, uncles)
          IN  candidate' = [step |-> "mined", parent |-> parent, miner |-> Self, txs |-> next.valid,
                            uncles |-> uncles, root |-> next.root]
    /\ UNCHANGED <<accountDB, blocks, job, crashes>>

PutCandidate ==
    /\ CanProcess /\ candidate # None
    /\ ProcessBlock(candidate.parent, candidate.miner, candidate.txs, candidate.uncles, candidate.root)
    /\ candidate' = None
    /\ UNCHANGED <<accountDB, blocks, crashes>>

WriteAccounts ==
    /\ job.step = "computed"
    /\ accountDB' = PutPending(job.batch)
    /\ job' = [job EXCEPT !.step = "written"]
    /\ UNCHANGED <<blocks, candidate, crashes>>

RecordEarly ==                         \* mutant: the block is recorded before its accounts
    /\ job # None
    /\ blocks' = Append(blocks, job.block)
    /\ job' = None
    /\ UNCHANGED <<accountDB, candidate, crashes>>

RecordBlock ==
    /\ job.step = "written"
    /\ blocks' = Append(blocks, job.block)
    /\ job' = None
    /\ UNCHANGED <<accountDB, candidate, crashes>>

Crash ==
    /\ job # None /\ crashes < MaxCrashes
    /\ crashes' = crashes + 1
    /\ job' = None
    /\ candidate' = None
    /\ UNCHANGED <<accountDB, blocks>>

Next ==
    \/ Initialize \/ PutBlock \/ CreateCandidate \/ PutCandidate
    \/ WriteAccounts \/ RecordBlock \/ Crash

Spec == Init /\ [][Next]_vars

-----------------------------------------------------------------------------
(***************************************************************************)
(* The accounts after a block as sums over its transactions, without trees *)
(* and without an order.                                                   *)
(***************************************************************************)

\* The sum of a value over a list.
Total(s, Value(_)) == SumFunction([i \in DOMAIN s |-> Value(s[i])])

After(accounts, b) ==
    LET was(a) == OrNew(accounts[a])
        got(a) == Total(b.txs, LAMBDA t : IF t.to = a THEN t.amount ELSE 0)
                  + Total(b.uncles, LAMBDA u : IF u.miner = a THEN UncleReward[u.delta] ELSE 0)
                  + IF b.miner = a THEN MinerReward + Total(b.txs, LAMBDA t : t.fee) ELSE 0
        spent(a) == Total(b.txs, LAMBDA t : IF t.from = a THEN t.amount + t.fee ELSE 0)
        sent(a) == Total(b.txs, LAMBDA t : IF t.from = a THEN 1 ELSE 0)
        touched == {b.miner} \cup {u.miner : u \in Range(b.uncles)}
                   \cup {t.to : t \in Range(b.txs)} \cup {t.from : t \in Range(b.txs)}
    IN  [a \in Addresses |->
            IF accounts[a] = Absent /\ a \notin touched THEN Absent
            ELSE Account(was(a).balance + got(a) - spent(a), was(a).nonce + sent(a))]

Ledger[i \in DOMAIN blocks] ==
    IF blocks[i].parent = 0 THEN blocks[i].exodus ELSE After(Ledger[blocks[i].parent], blocks[i])

Burned[i \in DOMAIN blocks] ==
    IF blocks[i].parent = 0 THEN 0
    ELSE Burned[blocks[i].parent] + Total(blocks[i].txs, LAMBDA t : IF t.to = Nobody THEN t.amount ELSE 0)

\* The tree under a block's state root holds the accounts that the transactions and
\* rewards of its chain add up to, and it is the only tree that does: nodes that got
\* there by other blocks, or computed it from the pool, have the same root.
RootsFollowLedger ==
    \A i \in DOMAIN blocks :
        /\ Accounts(blocks[i].root) = Ledger[i]
        /\ Canonical(blocks[i].root)

\* The supply that Consensus adds up from the rewards, without looking at an account
\* (calculateBlockReward), is what the accounts hold, and what was burned.
SupplyIsKept ==
    \A i \in DOMAIN blocks :
        blocks[i].totalSupply = Supply(Accounts(blocks[i].root)) + Burned[i]

\* Whatever a recorded block's tree refers to is stored, after any crash: from here on
\* next may start at that block, and it throws when it misses a node.
NothingIsMissing ==
    \A b \in Range(blocks) : Below(b.root) \subseteq DOMAIN accountDB

\* A block the node makes itself passes its own checks: what next skipped in the pool
\* has left no trace in the state root.
OwnBlocksPass ==
    candidate # None =>
        LET next == NextState(blocks[candidate.parent].root, candidate.miner, candidate.txs, candidate.uncles)
        IN  next.root = candidate.root /\ next.valid = candidate.txs /\ next.invalid = <<>>
=============================================================================
