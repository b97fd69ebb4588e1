----------------------------- MODULE TxPoolProofs -----------------------------
(***************************************************************************)
(* The queues of the pool stay in order and without repetition, and what   *)
(* was mined leaves them, for any accounts, transactions, limits and tree  *)
(* of blocks, any number of calls of putTxs and any order of their steps.  *)
(***************************************************************************)
EXTENDS TxPool, FiniteSetTheorems, SequenceTheorems, WellFoundedInduction, TLAPS

-----------------------------------------------------------------------------
(***************************************************************************)
(* Counting up, stated for sets, and the loops that are functions.         *)
(***************************************************************************)

LEMMA LeastOf ==
    ASSUME NEW T \in SUBSET Nat, T # {}
    PROVE  \E x \in T : \A y \in T : x <= y
<1>1. IsWellFoundedOn(OpToRel(<, Nat), Nat)
  BY NatLessThanWellFounded
<1>2. PICK x \in T : \A y \in T : ~ (<<y, x>> \in OpToRel(<, Nat))
  BY <1>1, WFMin
<1>3. \A y \in T : ~ (y < x)
  BY <1>2 DEF OpToRel
<1> QED
  BY <1>3

LEMMA CountingUp ==
    ASSUME NEW n \in Nat, NEW S, 0 \in S,
           \A k \in 0 .. n - 1 : k \in S => k + 1 \in S
    PROVE  0 .. n \subseteq S
<1> SUFFICES ASSUME (0 .. n) \ S # {} PROVE FALSE
  OBVIOUS
<1>1. (0 .. n) \ S \in SUBSET Nat
  OBVIOUS
<1>2. PICK m \in (0 .. n) \ S : \A y \in (0 .. n) \ S : m <= y
  BY <1>1, LeastOf
<1>3. m - 1 \in 0 .. n - 1 /\ m - 1 \in S
  BY <1>2
<1> QED
  BY <1>2, <1>3

\* f is what a loop over the values of V leaves after each of its n rounds.
LoopOf(f, n, V, start, Round) ==
    /\ f \in [0 .. n -> V] /\ f[0] = start
    /\ \A k \in 1 .. n : f[k] = Round[k][f[k - 1]]

LEMMA LoopExists ==
    ASSUME NEW n \in Nat, NEW V, NEW start \in V, NEW Round \in [1 .. n -> [V -> V]]
    PROVE  \E f : LoopOf(f, n, V, start, Round)
<1> DEFINE Is(m, f) == f[0] = start /\ \A k \in 1 .. m : f[k] = Round[k][f[k - 1]]
           S == {m \in 0 .. n : \E f \in [0 .. n -> V] : Is(m, f)}
<1>1. 0 \in S
  <2> DEFINE g == [k \in 0 .. n |-> start]
  <2>1. g \in [0 .. n -> V] /\ g[0] = start
    OBVIOUS
  <2> HIDE DEF g
  <2>2. \A k \in 1 .. 0 : g[k] = Round[k][g[k - 1]]
    OBVIOUS
  <2> QED
    BY <2>1, <2>2
<1>2. ASSUME NEW m \in 0 .. n - 1, m \in S
      PROVE  m + 1 \in S
  <2>1. PICK f \in [0 .. n -> V] : Is(m, f)
    BY <1>2
  <2> DEFINE d == [f EXCEPT ![m + 1] = Round[m + 1][f[m]]]
  <2>2. Round[m + 1][f[m]] \in V
    OBVIOUS
  <2>3. d \in [0 .. n -> V] /\ d[m + 1] = Round[m + 1][f[m]]
    BY <2>2
  <2>4. \A k \in 0 .. m : d[k] = f[k]
    OBVIOUS
  <2> HIDE DEF d
  <2>5. ASSUME NEW k \in 1 .. m + 1
        PROVE  d[k] = Round[k][d[k - 1]]
    <3>1. CASE k = m + 1
      BY <2>3, <2>4, <3>1
    <3>2. CASE k \in 1 .. m
      BY <2>1, <2>4, <3>2
    <3> QED
      BY <3>1, <3>2
  <2>6. Is(m + 1, d)
    BY <2>1, <2>4, <2>5
  <2> QED
    BY <2>3, <2>6
<1>3. 0 .. n \subseteq S
  <2> HIDE DEF S
  <2> QED
    BY <1>1, <1>2, CountingUp
<1>4. n \in S
  BY <1>3
<1> QED
  BY <1>4 DEF LoopOf

-----------------------------------------------------------------------------
(***************************************************************************)
(* Sequences with one item more or less.                                   *)
(***************************************************************************)

LEMMA CutProperties ==
    ASSUME NEW S, NEW s \in Seq(S), NEW k \in 1 .. Len(s)
    PROVE  LET r == RemoveAt(s, k)
           IN  /\ r \in Seq(S) /\ Len(r) = Len(s) - 1
               /\ \A j \in 1 .. Len(r) : r[j] = IF j < k THEN s[j] ELSE s[j + 1]
<1> DEFINE a == SubSeq(s, 1, k - 1)
           b == SubSeq(s, k + 1, Len(s))
<1>1. a \in Seq(S) /\ Len(a) = k - 1 /\ \A i \in 1 .. k - 1 : a[i] = s[i]
  OBVIOUS
<1>2. b \in Seq(S) /\ Len(b) = Len(s) - k /\ \A i \in 1 .. Len(s) - k : b[i] = s[i + k]
  OBVIOUS
<1>3. Len(s) \in Nat
  OBVIOUS
<1>4. RemoveAt(s, k) = a \o b
  BY DEF RemoveAt
<1> HIDE DEF a, b
<1>5. /\ a \o b \in Seq(S) /\ Len(a \o b) = Len(s) - 1
      /\ \A j \in 1 .. Len(s) - 1 : (a \o b)[j] = IF j <= k - 1 THEN a[j] ELSE b[j - (k - 1)]
  <2>1. Len(a) + Len(b) = Len(s) - 1
    BY <1>1, <1>2, <1>3
  <2>2. /\ a \o b \in Seq(S) /\ Len(a \o b) = Len(a) + Len(b)
        /\ \A j \in 1 .. Len(a) + Len(b) : (a \o b)[j] = IF j <= Len(a) THEN a[j] ELSE b[j - Len(a)]
    BY <1>1, <1>2, ConcatProperties
  <2> QED
    BY <1>1, <2>1, <2>2
<1>6. ASSUME NEW j \in 1 .. Len(s) - 1
      PROVE  (a \o b)[j] = IF j < k THEN s[j] ELSE s[j + 1]
  <2>1. CASE j < k
    <3>1. j \in 1 .. k - 1 /\ j <= k - 1
      BY <1>3, <2>1
    <3> QED
      BY <1>1, <1>5, <2>1, <3>1
  <2>2. CASE ~(j < k)
    <3>1. /\ j - (k - 1) \in 1 .. Len(s) - k /\ ~(j <= k - 1)
          /\ (j - (k - 1)) + k = j + 1
      BY <1>3, <2>2
    <3> QED
      BY <1>2, <1>5, <2>2, <3>1
  <2> QED
    BY <2>1, <2>2
<1> QED
  BY <1>4, <1>5, <1>6

\* RemoveFirst either finds the item or changes nothing.
LEMMA RemoveFirstProperties ==
    ASSUME NEW S, NEW s \in Seq(S), NEW e
    PROVE  \/ RemoveFirst(s, e) = s /\ \A i \in 1 .. Len(s) : s[i] # e
           \/ \E k \in 1 .. Len(s) : s[k] = e /\ RemoveFirst(s, e) = RemoveAt(s, k)
<1> DEFINE I == {i \in 1 .. Len(s) : s[i] = e}
<1>1. CASE I = {}
  BY <1>1 DEF RemoveFirst
<1>2. CASE I # {}
  <2>1. I \in SUBSET Nat
    OBVIOUS
  <2>2. \E x \in I : \A y \in I : x <= y
    BY <1>2, <2>1, LeastOf
  <2>3. Min(I) \in I
    <3> HIDE DEF I
    <3> QED
      BY <2>2 DEF Min
  <2>4. SelectInSeq(s, LAMBDA v : v = e) = Min(I)
    BY <1>2 DEF SelectInSeq
  <2>5. RemoveFirst(s, e) = RemoveAt(s, Min(I))
    BY <1>2, <2>4 DEF RemoveFirst
  <2> QED
    BY <2>3, <2>5
<1> QED
  BY <1>1, <1>2

LEMMA RangeIs ==
    ASSUME NEW S, NEW s \in Seq(S), NEW x
    PROVE  x \in Range(s) <=> \E i \in 1 .. Len(s) : s[i] = x
BY RangeEquality

\* insert goes before the first item that may stand behind the new one.
LEMMA PlaceProperties ==
    ASSUME NEW S, NEW q \in Seq(S), NEW behind
    PROVE  LET k == Place(q, behind)
           IN  /\ k \in 1 .. Len(q) + 1
               /\ \A j \in 1 .. k - 1 : j \in 1 .. Len(q) /\ q[j] \notin behind
               /\ k \in 1 .. Len(q) => q[k] \in behind
<1> DEFINE k == Place(q, behind)
<1>3. Len(q) \in Nat
  OBVIOUS
<1> DEFINE I == {i \in 1 .. Len(q) : q[i] \in behind}
<1>1. CASE Range(q) \cap behind # {}
  <2>1. I # {} /\ I \in SUBSET Nat
    BY <1>1, RangeIs
  <2>2. PICK x \in I : \A y \in I : x <= y
    BY <2>1, LeastOf
  <2>3. x \in 1 .. Len(q) /\ q[x] \in behind /\ \A j \in 1 .. x - 1 : q[j] \notin behind
    BY <1>3, <2>2
  <2>4. k \in 1 .. Len(q) /\ q[k] \in behind /\ \A j \in 1 .. k - 1 : q[j] \notin behind
    BY <1>1, <2>3 DEF Place
  <2> QED
    BY <1>3, <2>4
<1>2. CASE Range(q) \cap behind = {}
  <2>1. k = Len(q) + 1
    BY <1>2 DEF Place
  <2>2. \A j \in 1 .. Len(q) : q[j] \notin behind
    BY <1>2, RangeIs
  <2> QED
    BY <1>3, <2>1, <2>2
<1> QED
  BY <1>1, <1>2

LEMMA InsertedProperties ==
    ASSUME NEW S, NEW q \in Seq(S), NEW v \in S, NEW max \in Nat,
           NEW i \in 1 .. Len(q) + 1, Takes(q, i, max)
    PROVE  LET r == Inserted(q, i, v, max)
           IN  /\ r \in Seq(S) /\ Len(r) \in i .. Len(q) + 1
               /\ \A j \in 1 .. Len(r) : r[j] = IF j < i THEN q[j] ELSE IF j = i THEN v ELSE q[j - 1]
<1> DEFINE m == IF Len(q) < max THEN Len(q) ELSE max - 1
           a == SubSeq(q, 1, i - 1)
           b == SubSeq(q, i, m)
           n == IF i <= m THEN m - i + 1 ELSE 0
<1>1. Len(q) \in Nat /\ m \in Int /\ m <= Len(q)
  OBVIOUS
<1>2. a \in Seq(S) /\ Len(a) = i - 1 /\ \A j \in 1 .. i - 1 : a[j] = q[j]
  OBVIOUS
<1>3. b \in Seq(S) /\ Len(b) = n /\ \A j \in 1 .. n : b[j] = q[i + j - 1]
  <2> HIDE DEF m
  <2>1. \A j \in i .. m : q[j] \in S
    BY <1>1
  <2> QED
    BY <1>1, <2>1, SubSeqProperties
<1>4. <<v>> \in Seq(S) /\ Len(<<v>>) = 1 /\ <<v>>[1] = v
  OBVIOUS
<1>5. Inserted(q, i, v, max) = a \o <<v>> \o b
  BY DEF Inserted
<1> DEFINE c == a \o <<v>>
<1> HIDE DEF a, b
<1>6. /\ c \in Seq(S) /\ Len(c) = i /\ c[i] = v
      /\ \A j \in 1 .. i - 1 : c[j] = q[j]
  BY <1>1, <1>2, <1>4, ConcatProperties
<1> HIDE DEF c
<1>7. /\ c \o b \in Seq(S) /\ Len(c \o b) = i + n
      /\ \A j \in 1 .. i + n : (c \o b)[j] = IF j <= i THEN c[j] ELSE b[j - i]
  <2>1. /\ c \o b \in Seq(S) /\ Len(c \o b) = Len(c) + Len(b)
        /\ \A j \in 1 .. Len(c) + Len(b) : (c \o b)[j] = IF j <= Len(c) THEN c[j] ELSE b[j - Len(c)]
    BY <1>3, <1>6, ConcatProperties
  <2> QED
    BY <1>3, <1>6, <2>1
<1>8. n \in Nat /\ i + n \in i .. Len(q) + 1
  <2> HIDE DEF m
  <2> QED
    BY <1>1
<1> HIDE DEF n
<1>9. ASSUME NEW j \in 1 .. i + n
      PROVE  (c \o b)[j] = IF j < i THEN q[j] ELSE IF j = i THEN v ELSE q[j - 1]
  <2>1. CASE j = i
    BY <1>6, <1>7, <2>1
  <2>2. CASE j < i
    <3>1. j \in 1 .. i - 1 /\ j <= i /\ j # i
      BY <1>1, <2>2
    <3> QED
      BY <1>6, <1>7, <2>2, <3>1
  <2>3. CASE j > i
    <3>1. j - i \in 1 .. n /\ i + (j - i) - 1 = j - 1 /\ ~(j <= i) /\ ~(j < i) /\ j # i
      BY <1>8, <2>3
    <3> QED
      BY <1>3, <1>7, <3>1
  <2>4. j = i \/ j < i \/ j > i
    BY <1>1, <1>8
  <2> QED
    BY <2>1, <2>2, <2>3, <2>4
<1> QED
  BY <1>5, <1>7, <1>8, <1>9 DEF c

-----------------------------------------------------------------------------
(***************************************************************************)
(* Good queues, and what a removal and an insertion do to them.            *)
(***************************************************************************)

Pools == [map : SUBSET Accounts, pool : Seq(Accounts), queue : [Accounts -> Seq(Txs)], sum : [Accounts -> Int]]

InOrder(q) == \A i, j \in 1 .. Len(q) : i < j => GoesBefore(q[i], q[j])
Once(q) == \A i, j \in 1 .. Len(q) : q[i] = q[j] => i = j

GoodQueue(q, a) == InOrder(q) /\ Once(q) /\ \A i \in 1 .. Len(q) : From[q[i]] = a

GoodPool(p) == \A a \in Accounts : /\ GoodQueue(p.queue[a], a)
                                   /\ p.queue[a] # <<>> => a \in p.map

\* p holds no transaction that r does not hold.
Within(p, r) == \A a \in Accounts : Range(p.queue[a]) \subseteq Range(r.queue[a])

LEMMA OrderIsTotal ==
    ASSUME NEW t \in Txs, NEW u \in Txs, NEW v \in Txs
    PROVE  /\ GoesBefore(t, u) \/ GoesBefore(u, t)
           /\ GoesBefore(t, u) /\ GoesBefore(u, v) => GoesBefore(t, v)
BY TxAssumption DEF TxAssumption, GoesBefore

LEMMA CutQueue ==
    ASSUME NEW q \in Seq(Txs), NEW a, GoodQueue(q, a), NEW t
    PROVE  LET r == RemoveFirst(q, t)
           IN  /\ r \in Seq(Txs) /\ GoodQueue(r, a)
               /\ Range(r) \subseteq Range(q) \ {t}
<1> DEFINE r == RemoveFirst(q, t)
<1>1. CASE r = q /\ \A i \in 1 .. Len(q) : q[i] # t
  BY <1>1, RangeIs
<1>2. ASSUME NEW k \in 1 .. Len(q), q[k] = t, r = RemoveAt(q, k)
      PROVE  r \in Seq(Txs) /\ GoodQueue(r, a) /\ Range(r) \subseteq Range(q) \ {t}
  <2> DEFINE o(j) == IF j < k THEN j ELSE j + 1
  <2> HIDE DEF r
  <2>1. r \in Seq(Txs) /\ Len(r) = Len(q) - 1 /\ Len(q) \in Nat
    BY <1>2, CutProperties
  <2>2. \A j \in 1 .. Len(r) : r[j] = q[o(j)]
    BY <1>2, CutProperties
  <2>3. \A j \in 1 .. Len(r) : o(j) \in 1 .. Len(q) /\ o(j) # k
    BY <2>1
  <2>4. \A i, j \in 1 .. Len(r) : (i < j => o(i) < o(j)) /\ (o(i) = o(j) => i = j)
    BY <2>1
  <2> HIDE DEF o
  <2>5. InOrder(r)
    BY <2>2, <2>3, <2>4 DEF GoodQueue, InOrder
  <2>6. Once(r)
    BY <2>2, <2>3, <2>4 DEF GoodQueue, Once
  <2>7. \A j \in 1 .. Len(r) : From[r[j]] = a /\ r[j] # t
    BY <1>2, <2>2, <2>3 DEF GoodQueue, Once
  <2>8. Range(r) \subseteq Range(q) \ {t}
    BY <2>1, <2>2, <2>3, <2>7, RangeIs
  <2> QED
    BY <2>1, <2>5, <2>6, <2>7, <2>8 DEF GoodQueue
<1> QED
  BY <1>1, <1>2, RemoveFirstProperties

LEMMA RemovedIsGood ==
    ASSUME NEW p \in Pools, GoodPool(p), NEW t \in Txs
    PROVE  /\ Removed(p, t) \in Pools /\ GoodPool(Removed(p, t)) /\ Within(Removed(p, t), p)
           /\ t \notin Range(Removed(p, t).queue[From[t]])
<1> DEFINE acc == From[t]
           q == RemoveFirst(p.queue[acc], t)
           r == Removed(p, t)
<1>1. acc \in Accounts /\ Fee[t] \in Nat /\ SumLimit \in Nat \ {0}
  BY TxAssumption DEF TxAssumption
<1>2. /\ p.queue \in [Accounts -> Seq(Txs)] /\ p.map \in SUBSET Accounts
      /\ p.pool \in Seq(Accounts) /\ p.sum \in [Accounts -> Int]
  BY DEF Pools
<1>3. q \in Seq(Txs) /\ GoodQueue(q, acc) /\ Range(q) \subseteq Range(p.queue[acc]) \ {t}
  BY <1>1, <1>2, CutQueue DEF GoodPool
<1>4. CASE acc \notin p.map
  <2>1. r = p /\ p.queue[acc] = <<>>
    BY <1>1, <1>4 DEF Removed, GoodPool
  <2>2. t \notin Range(p.queue[acc])
    BY <1>1, <1>2, <2>1, RangeIs
  <2> QED
    BY <2>1, <2>2 DEF Within
<1>5. CASE acc \in p.map /\ q # <<>>
  <2> DEFINE n == (p.sum[acc] - Fee[t]) % SumLimit
  <2>1. n \in Int
    BY <1>1, <1>2
  <2>2. r = [p EXCEPT !.queue[acc] = q, !.sum[acc] = n]
    BY <1>5 DEF Removed
  <2> HIDE DEF q, n, r
  <2>3. r.queue = [p.queue EXCEPT ![acc] = q] /\ r.map = p.map /\ r \in Pools
    BY <1>1, <1>2, <1>3, <2>1, <2>2 DEF Pools
  <2> QED
    BY <1>1, <1>2, <1>3, <1>5, <2>3 DEF GoodPool, Within, r
<1>6. CASE acc \in p.map /\ q = <<>>
  <2>1. RemoveFirst(p.pool, acc) \in Seq(Accounts)
    <3>1. \A k \in 1 .. Len(p.pool) : RemoveAt(p.pool, k) \in Seq(Accounts)
      BY <1>2, CutProperties
    <3> QED
      BY <1>2, <3>1, RemoveFirstProperties
  <2>2. r = [p EXCEPT !.queue[acc] = q, !.sum[acc] = 0, !.map = p.map \ {acc},
                      !.pool = RemoveFirst(p.pool, acc)]
    BY <1>6 DEF Removed
  <2> HIDE DEF q, r
  <2> DEFINE queue1 == [p.queue EXCEPT ![acc] = q]
             sum1 == [p.sum EXCEPT ![acc] = 0]
  <2>4. r = [map |-> p.map \ {acc}, pool |-> RemoveFirst(p.pool, acc), queue |-> queue1, sum |-> sum1]
    BY <2>2 DEF Pools
  <2>5. queue1 \in [Accounts -> Seq(Txs)] /\ sum1 \in [Accounts -> Int]
    BY <1>1, <1>2, <1>3
  <2> HIDE DEF queue1, sum1
  <2>6. r \in Pools /\ r.queue = queue1 /\ r.map = p.map \ {acc}
    BY <1>2, <2>1, <2>4, <2>5 DEF Pools
  <2>3. r.queue = [p.queue EXCEPT ![acc] = q] /\ r.map = p.map \ {acc} /\ r \in Pools
    BY <2>6 DEF queue1
  <2> QED
    BY <1>1, <1>2, <1>3, <1>6, <2>3 DEF GoodPool, Within, r
<1> QED
  BY <1>4, <1>5, <1>6

\* Insertion behind everything that goes before, in front of the rest; the last item of
\* a full queue goes.
LEMMA InsertedIsGood ==
    ASSUME NEW q \in Seq(Txs), NEW a, GoodQueue(q, a), NEW t \in Txs, From[t] = a,
           t \notin Range(q), Takes(q, Place(q, {u \in Txs : GoesBefore(t, u)}), MaxTxsPerAddress)
    PROVE  LET r == Inserted(q, Place(q, {u \in Txs : GoesBefore(t, u)}), t, MaxTxsPerAddress)
           IN  /\ r \in Seq(Txs) /\ GoodQueue(r, a) /\ r # <<>>
               /\ Range(r) \subseteq Range(q) \cup {t}
<1> DEFINE behind == {u \in Txs : GoesBefore(t, u)}
           k == Place(q, behind)
           r == Inserted(q, k, t, MaxTxsPerAddress)
<1>1. Len(q) \in Nat /\ MaxTxsPerAddress \in Nat /\ \A i \in 1 .. Len(q) : q[i] \in Txs
  BY TxAssumption DEF TxAssumption
<1>2. /\ k \in 1 .. Len(q) + 1
      /\ \A j \in 1 .. k - 1 : j \in 1 .. Len(q) /\ q[j] \notin behind
      /\ k \in 1 .. Len(q) => q[k] \in behind
  BY PlaceProperties
<1> HIDE DEF k
<1>3. Takes(q, k, MaxTxsPerAddress)
  BY DEF k
<1>4. /\ r \in Seq(Txs) /\ Len(r) \in k .. Len(q) + 1
      /\ \A j \in 1 .. Len(r) : r[j] = IF j < k THEN q[j] ELSE IF j = k THEN t ELSE q[j - 1]
  BY <1>1, <1>2, <1>3, InsertedProperties
<1> HIDE DEF r
<1>5. \A j \in 1 .. Len(q) : j < k => GoesBefore(q[j], t)
  BY <1>1, <1>2, OrderIsTotal
<1>6. \A j \in 1 .. Len(q) : j >= k => GoesBefore(t, q[j])
  <2>1. ASSUME NEW j \in 1 .. Len(q), j >= k
        PROVE  GoesBefore(t, q[j])
    <3>1. k \in 1 .. Len(q) /\ GoesBefore(t, q[k])
      BY <1>1, <1>2, <2>1
    <3>2. j = k \/ GoesBefore(q[k], q[j])
      BY <1>2, <2>1, <3>1 DEF GoodQueue, InOrder
    <3> QED
      BY <1>1, <2>1, <3>1, <3>2, OrderIsTotal
  <2> QED
    BY <2>1
<1>7. \A j \in 1 .. Len(r) : j > k => j - 1 \in 1 .. Len(q) /\ j - 1 >= k
  BY <1>1, <1>2, <1>4
<1>8. \A j \in 1 .. Len(r) : j < k => j \in 1 .. Len(q)
  BY <1>1, <1>2, <1>4
<1>9. InOrder(r)
  <2> SUFFICES ASSUME NEW i \in 1 .. Len(r), NEW j \in 1 .. Len(r), i < j
               PROVE  GoesBefore(r[i], r[j])
    BY DEF InOrder
  <2>1. CASE j < k
    <3>1. i < k /\ r[i] = q[i] /\ r[j] = q[j]
      BY <1>2, <1>4, <2>1
    <3> QED
      BY <1>8, <2>1, <3>1 DEF GoodQueue, InOrder
  <2>2. CASE j = k
    <3>1. i < k /\ r[i] = q[i] /\ r[j] = t
      BY <1>2, <1>4, <2>2
    <3> QED
      BY <1>5, <1>8, <3>1
  <2>3. CASE j > k
    <3>1. r[j] = q[j - 1]
      BY <1>2, <1>4, <2>3
    <3>2. CASE i < k
      <4>1. r[i] = q[i] /\ i < j - 1
        BY <1>2, <1>4, <1>7, <2>3, <3>2
      <4> QED
        BY <1>7, <1>8, <2>3, <3>1, <3>2, <4>1 DEF GoodQueue, InOrder
    <3>3. CASE i = k
      <4>1. r[i] = t
        BY <1>4, <3>3
      <4> QED
        BY <1>6, <1>7, <2>3, <3>1, <4>1
    <3>4. CASE i > k
      <4>1. r[i] = q[i - 1] /\ i - 1 < j - 1
        BY <1>2, <1>4, <3>4
      <4> QED
        BY <1>7, <2>3, <3>1, <3>4, <4>1 DEF GoodQueue, InOrder
    <3> QED
      BY <1>2, <3>2, <3>3, <3>4
  <2> QED
    BY <1>2, <2>1, <2>2, <2>3
<1>10. \A j \in 1 .. Len(q) : q[j] # t
  BY RangeIs
<1>11. Once(r)
  <2> SUFFICES ASSUME NEW i \in 1 .. Len(r), NEW j \in 1 .. Len(r), i < j
               PROVE  r[i] # r[j]
    BY DEF Once
  <2>1. CASE j < k
    <3>1. i < k /\ r[i] = q[i] /\ r[j] = q[j] /\ i # j
      BY <1>2, <1>4, <2>1
    <3> QED
      BY <1>8, <2>1, <3>1 DEF GoodQueue, Once
  <2>2. CASE j = k
    <3>1. i < k /\ r[i] = q[i] /\ r[j] = t
      BY <1>2, <1>4, <2>2
    <3> QED
      BY <1>8, <1>10, <3>1
  <2>3. CASE j > k
    <3>1. r[j] = q[j - 1]
      BY <1>2, <1>4, <2>3
    <3>2. CASE i < k
      <4>1. r[i] = q[i] /\ i # j - 1
        BY <1>2, <1>4, <1>7, <2>3, <3>2
      <4> QED
        BY <1>7, <1>8, <2>3, <3>1, <3>2, <4>1 DEF GoodQueue, Once
    <3>3. CASE i = k
      <4>1. r[i] = t
        BY <1>4, <3>3
      <4> QED
        BY <1>7, <1>10, <2>3, <3>1, <4>1
    <3>4. CASE i > k
      <4>1. r[i] = q[i - 1] /\ i - 1 # j - 1
        BY <1>2, <1>4, <3>4
      <4> QED
        BY <1>7, <2>3, <3>1, <3>4, <4>1 DEF GoodQueue, Once
    <3> QED
      BY <1>2, <3>2, <3>3, <3>4
  <2> QED
    BY <1>2, <2>1, <2>2, <2>3
<1>12. \A j \in 1 .. Len(r) : r[j] = t \/ \E i \in 1 .. Len(q) : r[j] = q[i]
  BY <1>2, <1>4, <1>7, <1>8
<1>13. \A j \in 1 .. Len(r) : From[r[j]] = a
  BY <1>12 DEF GoodQueue
<1>14. Range(r) \subseteq Range(q) \cup {t}
  BY <1>4, <1>12, RangeIs
<1>15. r # <<>>
  BY <1>2, <1>4
<1> QED
  BY <1>4, <1>9, <1>11, <1>13, <1>14, <1>15 DEF GoodQueue, r, k

-----------------------------------------------------------------------------
(***************************************************************************)
(* The loops over lists of transactions and blocks.                        *)
(***************************************************************************)

LEMMA RemovingProperties ==
    ASSUME pending \in Pools, GoodPool(pending), NEW txs \in Seq(Txs)
    PROVE  LET p == Removing(txs)[Len(txs)]
           IN  /\ p \in Pools /\ GoodPool(p) /\ Within(p, pending)
               /\ \A t \in Range(txs) : t \notin Range(p.queue[From[t]])
<1> DEFINE n == Len(txs)
           V == {p \in Pools : GoodPool(p)}
           Round == [k \in 1 .. n |-> [p \in V |-> Removed(p, txs[k])]]
           Is(f) == f = [k \in 0 .. n |-> IF k = 0 THEN pending ELSE Removed(f[k - 1], txs[k])]
           after == CHOOSE f : Is(f)
<1>1. n \in Nat /\ \A k \in 1 .. n : txs[k] \in Txs
  OBVIOUS
<1>2. pending \in V
  OBVIOUS
<1> HIDE DEF n
<1>3. \A k \in 1 .. n : \A p \in V : Removed(p, txs[k]) \in V
  BY <1>1, RemovedIsGood
<1> HIDE DEF V
<1>4. Round \in [1 .. n -> [V -> V]]
  BY <1>3
<1>5. PICK f : LoopOf(f, n, V, pending, Round)
  <2> HIDE DEF Round
  <2>1. n \in Nat
    BY <1>1
  <2> QED
    BY <1>2, <1>4, <2>1, LoopExists
<1>6. \A k \in 1 .. n : k - 1 \in 0 .. n /\ f[k] = Removed(f[k - 1], txs[k])
  <2>1. \A k \in 1 .. n : k - 1 \in 0 .. n
    BY <1>1
  <2> QED
    BY <1>5, <2>1 DEF LoopOf
<1>7. Is(f)
  <2>1. \A k \in 0 .. n : f[k] = IF k = 0 THEN pending ELSE Removed(f[k - 1], txs[k])
    BY <1>1, <1>5, <1>6 DEF LoopOf
  <2>2. f = [k \in 0 .. n |-> f[k]]
    BY <1>5 DEF LoopOf
  <2> QED
    BY <2>1, <2>2
<1>8. Is(after)
  <2> HIDE DEF Is
  <2> QED
    BY <1>7
<1>9. after = Removing(txs)
  BY DEF Removing, n
<1>10. /\ after[0] = pending
       /\ \A k \in 1 .. n : k - 1 \in 0 .. n /\ after[k] = Removed(after[k - 1], txs[k])
  <2> HIDE DEF after
  <2>1. \A k \in 1 .. n : k - 1 \in 0 .. n /\ k \in 0 .. n /\ k # 0
    BY <1>1
  <2>2. 0 \in 0 .. n
    BY <1>1
  <2> QED
    BY <1>8, <2>1, <2>2
<1> HIDE DEF after
<1> DEFINE Good(k) == /\ after[k] \in V /\ Within(after[k], pending)
                      /\ \A i \in 1 .. k : txs[i] \notin Range(after[k].queue[From[txs[i]]])
           S == {k \in 0 .. n : Good(k)}
<1>11. 0 \in S
  <2>1. Within(after[0], pending)
    BY <1>10 DEF Within
  <2> QED
    BY <1>1, <1>2, <1>10, <2>1
<1>12. ASSUME NEW k \in 0 .. n - 1, k \in S
       PROVE  k + 1 \in S
  <2>1. k + 1 \in 1 .. n /\ (k + 1) - 1 = k /\ k + 1 \in 0 .. n
    BY <1>1
  <2>2. after[k + 1] = Removed(after[k], txs[k + 1]) /\ txs[k + 1] \in Txs
    BY <1>1, <1>10, <2>1
  <2>3. after[k] \in Pools /\ GoodPool(after[k]) /\ Within(after[k], pending)
    BY <1>12 DEF V
  <2>4. /\ after[k + 1] \in Pools /\ GoodPool(after[k + 1]) /\ Within(after[k + 1], after[k])
        /\ txs[k + 1] \notin Range(after[k + 1].queue[From[txs[k + 1]]])
    BY <2>2, <2>3, RemovedIsGood
  <2>5. after[k + 1] \in V /\ Within(after[k + 1], pending)
    BY <2>3, <2>4 DEF V, Within
  <2>6. ASSUME NEW i \in 1 .. k + 1
        PROVE  txs[i] \notin Range(after[k + 1].queue[From[txs[i]]])
    <3>1. CASE i = k + 1
      BY <2>4, <3>1
    <3>2. CASE i \in 1 .. k
      <4>1. txs[i] \notin Range(after[k].queue[From[txs[i]]])
        BY <1>12, <3>2
      <4>2. From[txs[i]] \in Accounts
        <5>1. i \in 1 .. n
          BY <1>1, <3>2
        <5> QED
          BY <1>1, <5>1, TxAssumption DEF TxAssumption
      <4> QED
        BY <2>4, <4>1, <4>2 DEF Within
    <3> QED
      BY <3>1, <3>2
  <2> QED
    BY <2>1, <2>5, <2>6
<1>13. n \in S
  <2> HIDE DEF S
  <2>1. 0 .. n \subseteq S
    BY <1>1, <1>11, <1>12, CountingUp
  <2> QED
    BY <1>1, <2>1
<1>14. Good(n)
  BY <1>13
<1>15. \A t \in Range(txs) : \E i \in 1 .. n : txs[i] = t
  BY RangeIs DEF n
<1>16. after[n] = Removing(txs)[Len(txs)]
  BY <1>9 DEF n
<1>17. \A t \in Range(txs) : t \notin Range(after[n].queue[From[t]])
  BY <1>14, <1>15
<1> QED
  BY <1>14, <1>16, <1>17 DEF V

LEMMA FlattenProperties ==
    ASSUME NEW S, NEW s \in Seq(Seq(S))
    PROVE  /\ FlattenSeq(s) \in Seq(S)
           /\ \A i \in 1 .. Len(s) : Range(s[i]) \subseteq Range(FlattenSeq(s))
<1> DEFINE n == Len(s)
           V == Seq(S)
           Round == [k \in 1 .. n |-> [v \in V |-> v \o s[k]]]
           Is(f) == f = [k \in 1 .. n |-> IF k = 1 THEN s[k] ELSE f[k - 1] \o s[k]]
           flat == CHOOSE f : Is(f)
<1>1. n \in Nat /\ \A k \in 1 .. n : s[k] \in V
  OBVIOUS
<1>2. <<>> \in V
  OBVIOUS
<1>3. CASE n = 0
  <2>1. s = <<>> /\ FlattenSeq(s) = s
    BY <1>3 DEF FlattenSeq
  <2>2. 1 .. Len(s) = {}
    BY <1>3
  <2> QED
    BY <1>2, <2>1, <2>2
<1>4. CASE n # 0
  <2>1. FlattenSeq(s) = flat[n]
    BY <1>4 DEF FlattenSeq
  <2> HIDE DEF n
  <2>2. \A k \in 1 .. n : \A v \in V : /\ v \o s[k] \in V
                                       /\ Range(v \o s[k]) = Range(v) \cup Range(s[k])
    BY <1>1, ConcatProperties, RangeConcatenation
  <2>3. <<>> \o s[1] = s[1]
    <3>1. 1 \in 1 .. n
      BY <1>1, <1>4
    <3> QED
      BY <1>1, <3>1, ConcatEmptySeq
  <2> HIDE DEF V
  <2>4. Round \in [1 .. n -> [V -> V]]
    BY <2>2
  <2>5. PICK f : LoopOf(f, n, V, <<>>, Round)
    <3> HIDE DEF Round
    <3>1. n \in Nat
      BY <1>1
    <3> QED
      BY <1>2, <2>4, <3>1, LoopExists
  <2>6. \A k \in 1 .. n : k - 1 \in 0 .. n /\ f[k] = f[k - 1] \o s[k]
    <3>1. \A k \in 1 .. n : k - 1 \in 0 .. n
      BY <1>1
    <3> QED
      BY <2>5, <3>1 DEF LoopOf
  <2> DEFINE g == [k \in 1 .. n |-> f[k]]
  <2>7. \A k \in 1 .. n : g[k] = IF k = 1 THEN s[k] ELSE g[k - 1] \o s[k]
    <3> SUFFICES ASSUME NEW k \in 1 .. n
                 PROVE  g[k] = IF k = 1 THEN s[k] ELSE g[k - 1] \o s[k]
      OBVIOUS
    <3>1. CASE k = 1
      <4>1. g[k] = f[k] /\ k - 1 = 0
        BY <3>1
      <4> HIDE DEF g
      <4> QED
        BY <2>3, <2>5, <2>6, <3>1, <4>1 DEF LoopOf
    <3>2. CASE k # 1
      <4>1. k - 1 \in 1 .. n
        BY <1>1, <3>2
      <4>2. g[k] = f[k] /\ g[k - 1] = f[k - 1]
        BY <4>1
      <4> HIDE DEF g
      <4> QED
        BY <2>6, <3>2, <4>2
    <3> QED
      BY <3>1, <3>2
  <2>8. Is(g)
    <3>1. g = [k \in 1 .. n |-> g[k]]
      OBVIOUS
    <3> HIDE DEF g
    <3> QED
      BY <2>7, <3>1
  <2>9. Is(flat)
    <3> HIDE DEF Is, g
    <3> QED
      BY <2>8
  <2> HIDE DEF flat, g
  <2>10. \A k \in 1 .. n : flat[k] = IF k = 1 THEN s[k] ELSE flat[k - 1] \o s[k]
    BY <2>9
  <2> DEFINE Good(k) == k > 0 => /\ flat[k] \in V
                                 /\ \A i \in 1 .. k : Range(s[i]) \subseteq Range(flat[k])
             T == {k \in 0 .. n : Good(k)}
  <2>11. 0 \in T
    BY <1>1
  <2>12. ASSUME NEW k \in 0 .. n - 1, k \in T
         PROVE  k + 1 \in T
    <3>1. k + 1 \in 1 .. n /\ k + 1 \in 0 .. n /\ (k + 1) - 1 = k
      BY <1>1
    <3>2. CASE k = 0
      <4>1. flat[1] = s[1] /\ s[1] \in V
        BY <1>1, <2>10, <3>1, <3>2
      <4> QED
        BY <3>1, <3>2, <4>1
    <3>3. CASE k # 0
      <4>1. k \in 1 .. n /\ k > 0 /\ k + 1 # 1
        BY <1>1, <3>3
      <4>2. /\ flat[k] \in V
            /\ \A i \in 1 .. k : Range(s[i]) \subseteq Range(flat[k])
        BY <2>12, <4>1
      <4>3. flat[k + 1] = flat[k] \o s[k + 1]
        BY <2>10, <3>1, <4>1
      <4>4. flat[k + 1] \in V /\ Range(flat[k + 1]) = Range(flat[k]) \cup Range(s[k + 1])
        BY <2>2, <3>1, <4>2, <4>3
      <4>5. \A i \in 1 .. k + 1 : Range(s[i]) \subseteq Range(flat[k + 1])
        <5>1. \A i \in 1 .. k + 1 : i = k + 1 \/ i \in 1 .. k
          BY <4>1
        <5> QED
          BY <4>2, <4>4, <5>1
      <4> QED
        BY <3>1, <4>4, <4>5
    <3> QED
      BY <3>2, <3>3
  <2>13. n \in T
    <3> HIDE DEF T
    <3>1. 0 .. n \subseteq T
      BY <1>1, <2>11, <2>12, CountingUp
    <3> QED
      BY <1>1, <3>1
  <2>14. n > 0 /\ Good(n)
    BY <1>1, <1>4, <2>13
  <2> QED
    BY <2>1, <2>14 DEF n, V
<1> QED
  BY <1>3, <1>4

LEMMA RangeIsFinite ==
    ASSUME NEW S, NEW s \in Seq(S)
    PROVE  IsFiniteSet(Range(s))
<1> DEFINE f == [i \in 1 .. Len(s) |-> s[i]]
<1>1. Len(s) \in Nat /\ IsFiniteSet(1 .. Len(s))
  BY FS_Interval
<1>2. Range(s) = {s[i] : i \in 1 .. Len(s)}
  BY RangeEquality
<1>3. f \in Surjection(1 .. Len(s), Range(s))
  BY <1>2 DEF Surjection
<1> HIDE DEF f
<1> QED
  BY <1>1, <1>3, FS_Surjection

LEMMA NoncesAreCounted ==
    ASSUME NEW b \in Blocks, NEW a \in Accounts
    PROVE  NonceAt(b, a) \in Nat
<1>1. /\ Chain[b] \in Seq(Blocks) /\ \A x \in Blocks : BlockTxs[x] \in Seq(Txs)
  BY ChainAssumption DEF ChainAssumption
<1> DEFINE Lists == {Range(BlockTxs[x]) : x \in Range(Chain[b])}
<1>2. IsFiniteSet(Lists)
  <2>1. IsFiniteSet(Range(Chain[b]))
    BY <1>1, RangeIsFinite
  <2> DEFINE txsOf == [x \in Range(Chain[b]) |-> Range(BlockTxs[x])]
  <2>2. txsOf \in Surjection(Range(Chain[b]), Lists)
    BY DEF Surjection
  <2> HIDE DEF txsOf, Lists
  <2> QED
    BY <2>1, <2>2, FS_Surjection
<1>3. \A T \in Lists : IsFiniteSet(T)
  <2>1. \A x \in Range(Chain[b]) : x \in Blocks
    BY <1>1, RangeOfSeq
  <2>2. \A x \in Range(Chain[b]) : IsFiniteSet(Range(BlockTxs[x]))
    BY <1>1, <2>1, RangeIsFinite
  <2> QED
    BY <2>2
<1>4. IsFiniteSet(MinedOn(b))
  <2>1. MinedOn(b) = UNION Lists
    BY DEF MinedOn
  <2> HIDE DEF Lists
  <2> QED
    BY <1>2, <1>3, <2>1, FS_UNION
<1>5. {t \in MinedOn(b) : From[t] = a} \in SUBSET MinedOn(b)
  OBVIOUS
<1> QED
  BY <1>4, <1>5, FS_Subset, FS_CardinalityType DEF NonceAt

\* What next finds invalid is a list of the transactions it was given.
LEMMA InvalidProperties ==
    ASSUME NEW b \in Blocks, NEW txs \in Seq(Txs)
    PROVE  InvalidOf(b, txs) \in Seq(Txs)
<1> DEFINE n == Len(txs)
           V == [nonce : [Accounts -> Int], invalid : Seq(Txs)]
           Round == [k \in 1 .. n |-> [s \in V |-> Processed(s, txs[k])]]
           Is(f) == f = [k \in 0 .. n |-> IF k = 0 THEN Fresh(b) ELSE Processed(f[k - 1], txs[k])]
           after == CHOOSE f : Is(f)
<1>1. n \in Nat /\ \A k \in 1 .. n : txs[k] \in Txs
  OBVIOUS
<1>2. Fresh(b) \in V
  BY NoncesAreCounted DEF Fresh
<1> HIDE DEF n
<1>3. \A k \in 1 .. n : \A s \in V : Processed(s, txs[k]) \in V
  <2> SUFFICES ASSUME NEW k \in 1 .. n, NEW s \in V
               PROVE  Processed(s, txs[k]) \in V
    OBVIOUS
  <2> DEFINE t == txs[k]
  <2>1. t \in Txs /\ From[t] \in Accounts /\ s.nonce \in [Accounts -> Int]
    BY <1>1, TxAssumption DEF TxAssumption
  <2>2. Append(s.invalid, t) \in Seq(Txs)
    BY <2>1
  <2>3. [s.nonce EXCEPT ![From[t]] = @ + 1] \in [Accounts -> Int]
    BY <2>1
  <2> QED
    BY <2>1, <2>2, <2>3 DEF Processed
<1> HIDE DEF V
<1>4. Round \in [1 .. n -> [V -> V]]
  BY <1>3
<1>5. PICK f : LoopOf(f, n, V, Fresh(b), Round)
  <2> HIDE DEF Round
  <2>1. n \in Nat
    BY <1>1
  <2> QED
    BY <1>2, <1>4, <2>1, LoopExists
<1>6. \A k \in 1 .. n : k - 1 \in 0 .. n /\ f[k] = Processed(f[k - 1], txs[k])
  <2>1. \A k \in 1 .. n : k - 1 \in 0 .. n
    BY <1>1
  <2> QED
    BY <1>5, <2>1 DEF LoopOf
<1>7. Is(f)
  <2>1. \A k \in 0 .. n : f[k] = IF k = 0 THEN Fresh(b) ELSE Processed(f[k - 1], txs[k])
    BY <1>1, <1>5, <1>6 DEF LoopOf
  <2>2. f = [k \in 0 .. n |-> f[k]]
    BY <1>5 DEF LoopOf
  <2> QED
    BY <2>1, <2>2
<1>8. Is(after)
  <2> HIDE DEF Is
  <2> QED
    BY <1>7
<1>9. InvalidOf(b, txs) = after[n].invalid
  BY DEF InvalidOf, n
<1> HIDE DEF after
<1>10. /\ after[0] = Fresh(b)
       /\ \A k \in 1 .. n : after[k] = Processed(after[k - 1], txs[k])
  <2>1. 0 \in 0 .. n /\ \A k \in 1 .. n : k \in 0 .. n /\ k # 0
    BY <1>1
  <2> QED
    BY <1>8, <2>1
<1> DEFINE T == {k \in 0 .. n : after[k] \in V}
<1>11. 0 \in T
  BY <1>1, <1>2, <1>10
<1>12. ASSUME NEW k \in 0 .. n - 1, k \in T
       PROVE  k + 1 \in T
  <2>1. k + 1 \in 1 .. n /\ (k + 1) - 1 = k /\ k + 1 \in 0 .. n
    BY <1>1
  <2>2. after[k + 1] = Processed(after[k], txs[k + 1])
    BY <1>10, <2>1
  <2> QED
    BY <1>3, <1>12, <2>1, <2>2
<1>13. n \in T
  <2> HIDE DEF T
  <2>1. 0 .. n \subseteq T
    BY <1>1, <1>11, <1>12, CountingUp
  <2> QED
    BY <1>1, <2>1
<1> QED
  BY <1>9, <1>13 DEF V

LEMMA TxsOfProperties ==
    ASSUME NEW blocks \in Seq(Blocks)
    PROVE  /\ TxsOf(blocks) \in Seq(Txs)
           /\ \A x \in Range(blocks) : Range(BlockTxs[x]) \subseteq Range(TxsOf(blocks))
<1> DEFINE s == [i \in DOMAIN blocks |-> BlockTxs[blocks[i]]]
<1>1. /\ DOMAIN blocks = 1 .. Len(blocks) /\ Len(blocks) \in Nat
      /\ \A i \in 1 .. Len(blocks) : blocks[i] \in Blocks /\ BlockTxs[blocks[i]] \in Seq(Txs)
  BY ChainAssumption DEF ChainAssumption
<1>2. s \in Seq(Seq(Txs)) /\ Len(s) = Len(blocks)
  BY <1>1, IsASeq
<1>3. \A i \in 1 .. Len(blocks) : s[i] = BlockTxs[blocks[i]]
  BY <1>1
<1>4. TxsOf(blocks) = FlattenSeq(s)
  BY DEF TxsOf
<1> HIDE DEF s
<1>5. /\ FlattenSeq(s) \in Seq(Txs)
      /\ \A i \in 1 .. Len(s) : Range(s[i]) \subseteq Range(FlattenSeq(s))
  BY <1>2, FlattenProperties
<1>6. \A x \in Range(blocks) : \E i \in 1 .. Len(blocks) : blocks[i] = x
  BY RangeIs
<1> QED
  BY <1>2, <1>3, <1>4, <1>5, <1>6

\* The miner reads the queues of all accounts of the pool.
LEMMA GetTxsProperties ==
    ASSUME pending \in Pools
    PROVE  GetTxs \in Seq(Txs)
<1> DEFINE pool == pending.pool
           s == [i \in DOMAIN pool |-> pending.queue[pool[i]]]
<1>1. pool \in Seq(Accounts) /\ pending.queue \in [Accounts -> Seq(Txs)]
  BY DEF Pools
<1> HIDE DEF pool
<1>2. /\ DOMAIN pool = 1 .. Len(pool) /\ Len(pool) \in Nat
      /\ \A i \in 1 .. Len(pool) : pending.queue[pool[i]] \in Seq(Txs)
  BY <1>1
<1>3. s \in Seq(Seq(Txs))
  BY <1>2, IsASeq
<1>4. GetTxs = FlattenSeq(s)
  BY DEF GetTxs, pool
<1> HIDE DEF s
<1> QED
  BY <1>3, <1>4, FlattenProperties

\* Above the fork is what the two chains do not share.
LEMMA BranchProperties ==
    ASSUME NEW b \in Blocks, NEW a \in Blocks
    PROVE  /\ Branch(b, a) \in Seq(Blocks)
           /\ Range(Chain[b]) \subseteq Range(Chain[a]) \cup Range(Branch(b, a))
<1> DEFINE S == Shared(b, a)
           n == Len(Chain[b])
           Bounds == {k \in 0 .. n : S \subseteq 1 .. k}
<1>1. /\ Chain[b] \in Seq(Blocks) /\ Chain[a] \in Seq(Blocks)
      /\ n \in Nat /\ Len(Chain[a]) \in Nat
  BY ChainAssumption DEF ChainAssumption
<1>2. S \subseteq 1 .. n /\ \A i \in S : i \in 1 .. Len(Chain[a]) /\ Chain[a][i] = Chain[b][i]
  BY <1>1 DEF Shared
<1>3. ASSUME NEW i \in S, NEW j \in 1 .. i
      PROVE  j \in S
  <2>1. i \in 1 .. Len(Chain[b]) /\ i \in 1 .. Len(Chain[a]) /\ Chain[a][i] = Chain[b][i]
    BY <1>2
  <2>2. SubSeq(Chain[b], 1, i) = SubSeq(Chain[a], 1, i)
    BY <2>1, ChainAssumption DEF ChainAssumption
  <2>3. SubSeq(Chain[b], 1, i)[j] = Chain[b][j] /\ SubSeq(Chain[a], 1, i)[j] = Chain[a][j]
    BY <1>1, <2>1
  <2>4. j \in 1 .. Len(Chain[b]) /\ j <= Len(Chain[a])
    BY <1>1, <2>1
  <2> QED
    BY <2>2, <2>3, <2>4 DEF Shared
<1> HIDE DEF S
<1>4. n \in Bounds /\ Bounds \in SUBSET Nat
  BY <1>1, <1>2
<1>5. PICK m \in Bounds : \A k \in Bounds : m <= k
  BY <1>4, LeastOf
<1>6. S = 1 .. m
  <2>1. m \in 0 .. n /\ S \subseteq 1 .. m
    BY <1>5
  <2>2. CASE m = 0
    BY <2>1, <2>2
  <2>3. CASE m # 0
    <3>1. m - 1 \in 0 .. n /\ ~(m <= m - 1)
      BY <1>1, <2>1, <2>3
    <3>2. ~(S \subseteq 1 .. m - 1)
      BY <1>5, <3>1
    <3>3. m \in S
      BY <2>1, <3>2
    <3> QED
      BY <1>3, <2>1, <3>3
  <2> QED
    BY <2>2, <2>3
<1>7. m \in 0 .. n /\ Cardinality(S) = m
  BY <1>1, <1>5, <1>6, FS_Interval
<1>8. Branch(b, a) = SubSeq(Chain[b], m + 1, n)
  BY <1>7 DEF Branch, S
<1> DEFINE r == SubSeq(Chain[b], m + 1, n)
<1>9. /\ r \in Seq(Blocks) /\ Len(r) = n - m
      /\ \A i \in 1 .. n - m : r[i] = Chain[b][i + m]
  BY <1>1, <1>7
<1> HIDE DEF r
<1>10. ASSUME NEW x \in Range(Chain[b])
       PROVE  x \in Range(Chain[a]) \cup Range(r)
  <2>1. PICK i \in 1 .. n : Chain[b][i] = x
    BY <1>1, RangeIs
  <2>2. CASE i <= m
    <3>1. i \in S
      BY <1>6, <1>7, <2>2
    <3>2. i \in 1 .. Len(Chain[a]) /\ Chain[a][i] = x
      BY <1>2, <2>1, <3>1
    <3> QED
      BY <1>1, <3>2, RangeIs
  <2>3. CASE i > m
    <3>1. i - m \in 1 .. n - m /\ (i - m) + m = i
      BY <1>1, <1>7, <2>3
    <3>2. r[i - m] = x
      BY <1>9, <2>1, <3>1
    <3> QED
      BY <1>9, <3>1, <3>2, RangeIs
  <2> QED
    BY <1>7, <2>2, <2>3
<1> QED
  BY <1>8, <1>9, <1>10 DEF r

\* Reorganize hands on all that is mined on the new chain and was not on the old one.
LEMMA MinedCovers ==
    ASSUME NEW b \in Blocks, tip \in Blocks
    PROVE  /\ Mined(b) \in Seq(Txs) /\ TxsOf(Reverse(Branch(tip, b))) \in Seq(Txs)
           /\ MinedOn(b) \subseteq MinedOn(tip) \cup Range(Mined(b))
<1>1. Branch(b, tip) \in Seq(Blocks) /\ Branch(tip, b) \in Seq(Blocks)
  BY BranchProperties
<1>2. Reverse(Branch(tip, b)) \in Seq(Blocks)
  <2> DEFINE s == Branch(tip, b)
  <2>1. Len(s) \in Nat /\ \A i \in 1 .. Len(s) : (Len(s) - i) + 1 \in 1 .. Len(s)
    BY <1>1
  <2>2. \A i \in 1 .. Len(s) : s[(Len(s) - i) + 1] \in Blocks
    BY <1>1, <2>1
  <2> HIDE DEF s
  <2>3. Reverse(s) \in Seq(Blocks)
    BY <2>1, <2>2, IsASeq DEF Reverse
  <2> QED
    BY <2>3 DEF s
<1>3. Range(Chain[b]) \subseteq Range(Chain[tip]) \cup Range(Branch(b, tip))
  BY BranchProperties
<1>4. \A x \in Range(Branch(b, tip)) : Range(BlockTxs[x]) \subseteq Range(Mined(b))
  BY <1>1, TxsOfProperties DEF Mined
<1> QED
  BY <1>1, <1>2, <1>3, <1>4, TxsOfProperties DEF Mined, MinedOn

-----------------------------------------------------------------------------
(***************************************************************************)
(* The invariant.                                                          *)
(***************************************************************************)

PutCalls == [txs : Seq(Txs), remove : Seq(Txs), busy : BOOLEAN]
Candidates == [parent : Blocks, txs : Seq(Txs)]

\* What a call still has to take out.
Leaving == UNION {Range(put[c].remove) : c \in {d \in Calls : put[d].busy}}

PoolInv ==
    /\ pending \in Pools /\ GoodPool(pending)
    /\ transitionWaiting \in Seq(Txs)
    /\ put \in [Calls -> PutCalls]
    /\ tip \in Blocks
    /\ candidate \in Candidates \cup {None}
    /\ WaitingOnlyUnderLegacyRules
    /\ \A a \in Accounts : Range(pending.queue[a]) \cap MinedOn(tip) \subseteq Leaving \cup skipped

\* removeTxs: the pool is sorted after.
LEMMA RemoveTxsProperties ==
    ASSUME pending \in Pools, GoodPool(pending), NEW txs \in Seq(Txs), RemoveTxs(txs)
    PROVE  /\ pending' \in Pools /\ GoodPool(pending') /\ Within(pending', pending)
           /\ \A t \in Range(txs) : t \notin Range(pending'.queue[From[t]])
           /\ skipped' = skipped \ Range(txs)
<1> DEFINE p == Removing(txs)[Len(txs)]
<1>1. /\ p \in Pools /\ GoodPool(p) /\ Within(p, pending)
      /\ \A t \in Range(txs) : t \notin Range(p.queue[From[t]])
  BY RemovingProperties
<1>2. pending' \in Resorted(p) /\ skipped' = skipped \ Range(txs)
  BY DEF RemoveTxs
<1> HIDE DEF p
<1>3. PICK s \in Sortings(p.pool, p.sum) : pending' = [p EXCEPT !.pool = s]
  BY <1>2 DEF Resorted
<1>4. s \in Seq(Accounts)
  <2>1. p.pool \in Seq(Accounts)
    BY <1>1 DEF Pools
  <2>2. s \in [1 .. Len(p.pool) -> Range(p.pool)]
    BY <1>3 DEF Sortings
  <2>3. Range(p.pool) \subseteq Accounts /\ Len(p.pool) \in Nat
    BY <2>1, RangeOfSeq
  <2>4. s \in [1 .. Len(p.pool) -> Accounts]
    BY <2>2, <2>3
  <2> QED
    BY <2>3, <2>4
<1>5. pending' \in Pools /\ pending'.queue = p.queue /\ pending'.map = p.map
  BY <1>1, <1>3, <1>4 DEF Pools
<1> QED
  BY <1>1, <1>2, <1>5 DEF GoodPool, Within

-----------------------------------------------------------------------------
(***************************************************************************)
(* The steps.                                                              *)
(***************************************************************************)

\* What is mined is no longer valid, so it is not put into a queue.
LEMMA MinedIsInvalid ==
    ASSUME tip \in Blocks, NEW t \in MinedOn(tip)
    PROVE  Validity(t) = "Invalid"
BY NonceAssumption DEF NonceAssumption, Validity

\* One transaction of a call is done with.
LEMMA NextTxKeeps ==
    ASSUME PoolInv, NEW c \in Calls, put[c].txs # <<>>, NextTx(c)
    PROVE  put' \in [Calls -> PutCalls] /\ Leaving' = Leaving
<1>1. put \in [Calls -> PutCalls] /\ put[c] \in PutCalls
  BY DEF PoolInv
<1>2. Tail(put[c].txs) \in Seq(Txs)
  BY <1>1 DEF PutCalls
<1>3. put' = [put EXCEPT ![c] = [put[c] EXCEPT !.txs = Tail(put[c].txs)]]
  BY DEF NextTx
<1>4. put' \in [Calls -> PutCalls]
  BY <1>1, <1>2, <1>3 DEF PutCalls
<1>5. \A d \in Calls : put'[d].busy = put[d].busy /\ put'[d].remove = put[d].remove
  BY <1>1, <1>3 DEF PutCalls
<1> QED
  BY <1>4, <1>5 DEF Leaving

\* A call that begins leaves the others to what they have to take out.
LEMMA BeginKeeps ==
    ASSUME PoolInv, NEW c \in Calls, NEW txs \in Seq(Txs), NEW remove \in Seq(Txs), Begin(c, txs, remove)
    PROVE  put' \in [Calls -> PutCalls] /\ Leaving \cup Range(remove) \subseteq Leaving'
<1>1. put \in [Calls -> PutCalls] /\ ~put[c].busy
  BY DEF PoolInv, Begin
<1>2. put' = [put EXCEPT ![c] = [txs |-> txs, remove |-> remove, busy |-> TRUE]]
  BY DEF Begin
<1>3. put' \in [Calls -> PutCalls]
  BY <1>1, <1>2 DEF PutCalls
<1>4. put'[c].busy /\ put'[c].remove = remove
  BY <1>1, <1>2
<1>5. \A d \in Calls : put[d].busy => put'[d].busy /\ put'[d].remove = put[d].remove
  BY <1>1, <1>2
<1> QED
  BY <1>3, <1>4, <1>5 DEF Leaving

LEMMA LookAtInv == ASSUME PoolInv, NEW c \in Calls, LookAt(c) PROVE PoolInv'
<1>1. UNCHANGED <<pending, transitionWaiting, tip, immediate, candidate, skipped, jumped>>
  BY DEF LookAt, history
<1>2. put' \in [Calls -> PutCalls] /\ Leaving' = Leaving
  <2>1. CASE UNCHANGED put
    BY <2>1 DEF PoolInv, Leaving
  <2>2. CASE NextTx(c)
    BY <2>2, NextTxKeeps DEF LookAt
  <2> QED
    BY <2>1, <2>2 DEF LookAt
<1> QED
  BY <1>1, <1>2 DEF PoolInv, GoodPool, WaitingOnlyUnderLegacyRules, LegacyTx

LEMMA RefuseInv == ASSUME PoolInv, NEW c \in Calls, Refuse(c) PROVE PoolInv'
<1>1. PICK t \in Txs : /\ Judged(c, t)
                       /\ transitionWaiting' = IF KeptForTransition(t) THEN Append(transitionWaiting, t)
                                               ELSE transitionWaiting
  BY DEF Refuse
<1>2. UNCHANGED <<pending, tip, immediate, candidate, skipped, jumped>>
  BY DEF Refuse, history
<1>3. put' \in [Calls -> PutCalls] /\ Leaving' = Leaving
  BY <1>1, NextTxKeeps DEF Judged, Judging
<1>4. transitionWaiting' \in Seq(Txs)
  BY <1>1 DEF PoolInv
<1>5. WaitingOnlyUnderLegacyRules'
  BY <1>1, <1>2 DEF PoolInv, WaitingOnlyUnderLegacyRules, KeptForTransition, LegacyTx
<1> QED
  BY <1>2, <1>3, <1>4, <1>5 DEF PoolInv, GoodPool

LEMMA OpenedProperties ==
    ASSUME pending \in Pools, GoodPool(pending), NEW acc \in Accounts, HasPlace(acc)
    PROVE  /\ Opened(acc) \in Pools /\ GoodPool(Opened(acc)) /\ acc \in Opened(acc).map
           /\ Opened(acc).queue = pending.queue
<1>1. CASE acc \in pending.map
  BY <1>1 DEF Opened
<1>2. CASE acc \notin pending.map
  <2> DEFINE k == Place0(acc)
             pool1 == Inserted(pending.pool, k, acc, MaxAddresses)
  <2>1. pending.pool \in Seq(Accounts) /\ MaxAddresses \in Nat
    BY TxAssumption DEF TxAssumption, Pools
  <2>2. k \in 1 .. Len(pending.pool) + 1
    BY <2>1, PlaceProperties DEF Place0
  <2>3. Takes(pending.pool, k, MaxAddresses)
    BY <1>2 DEF HasPlace
  <2> HIDE DEF k
  <2>4. pool1 \in Seq(Accounts)
    BY <2>1, <2>2, <2>3, InsertedProperties
  <2>5. Opened(acc) = [pending EXCEPT !.map = pending.map \cup {acc}, !.pool = pool1]
    BY <1>2 DEF Opened, k
  <2> HIDE DEF pool1
  <2> QED
    BY <2>4, <2>5 DEF Pools, GoodPool
<1> QED
  BY <1>1, <1>2

LEMMA QueuedProperties ==
    ASSUME pending \in Pools, GoodPool(pending), NEW t \in Txs, Enters(t)
    PROVE  /\ Queued(t) \in Pools /\ GoodPool(Queued(t)) /\ From[t] \in Accounts
           /\ \A a \in Accounts : Range(Queued(t).queue[a]) \subseteq Range(pending.queue[a]) \cup {t}
<1> DEFINE acc == From[t]
           q == pending.queue[acc]
           p == Opened(acc)
           r == Inserted(q, PlaceOf(t), t, MaxTxsPerAddress)
<1>1. acc \in Accounts
  BY TxAssumption DEF TxAssumption
<1>2. p \in Pools /\ GoodPool(p) /\ acc \in p.map /\ p.queue = pending.queue
  BY <1>1, OpenedProperties DEF Enters
<1>3. q \in Seq(Txs) /\ GoodQueue(q, acc) /\ t \notin Range(q)
  BY <1>1 DEF Pools, GoodPool, Duplicate, Enters
<1>4. /\ r \in Seq(Txs) /\ GoodQueue(r, acc) /\ r # <<>>
      /\ Range(r) \subseteq Range(q) \cup {t}
  BY <1>3, InsertedIsGood DEF Enters, PlaceOf
<1>5. p.queue \in [Accounts -> Seq(Txs)] /\ p.queue[acc] = q
  BY <1>2 DEF Pools
<1>6. Queued(t) = [p EXCEPT !.queue[acc] = r]
  BY <1>5 DEF Queued
<1> HIDE DEF p, r
<1> DEFINE qs == [p.queue EXCEPT ![acc] = r]
<1>7. /\ Queued(t).queue = qs /\ Queued(t).map = p.map /\ Queued(t) \in Pools
  <2>1. qs \in [Accounts -> Seq(Txs)]
    BY <1>1, <1>4, <1>5
  <2>2. Queued(t) = [p EXCEPT !.queue = qs]
    BY <1>6
  <2> HIDE DEF qs
  <2> QED
    BY <1>2, <2>1, <2>2 DEF Pools
<1>8. GoodPool(Queued(t))
  BY <1>1, <1>2, <1>4, <1>5, <1>7 DEF GoodPool
<1> QED
  BY <1>1, <1>2, <1>4, <1>5, <1>7, <1>8

LEMMA AcceptInv == ASSUME PoolInv, NEW c \in Calls, Accept(c) PROVE PoolInv'
<1>1. PICK t \in Txs :
        /\ Judged(c, t)
        /\ Validity(t) # "Invalid"
        /\ \/ pending' = pending
           \/ HasPlace(From[t]) /\ pending' = Opened(From[t])
           \/ Enters(t) /\ pending' = [Queued(t) EXCEPT !.sum[From[t]] = SumWith(t)]
  BY DEF Accept
<1>2. UNCHANGED <<transitionWaiting, tip, immediate, candidate, skipped, jumped>>
  BY DEF Accept, history
<1>3. put' \in [Calls -> PutCalls] /\ Leaving' = Leaving
  BY <1>1, NextTxKeeps DEF Judged, Judging
<1>4. /\ From[t] \in Accounts /\ pending \in Pools /\ GoodPool(pending) /\ Fee[t] \in Int
  BY TxAssumption DEF TxAssumption, PoolInv
<1>5. /\ pending' \in Pools /\ GoodPool(pending')
      /\ \A a \in Accounts : Range(pending'.queue[a]) \subseteq Range(pending.queue[a]) \cup {t}
  <2>1. CASE pending' = pending
    BY <1>4, <2>1
  <2>2. CASE HasPlace(From[t]) /\ pending' = Opened(From[t])
    BY <1>4, <2>2, OpenedProperties
  <2>3. CASE Enters(t) /\ pending' = [Queued(t) EXCEPT !.sum[From[t]] = SumWith(t)]
    <3> DEFINE p == Queued(t)
    <3>1. /\ p \in Pools /\ GoodPool(p)
          /\ \A a \in Accounts : Range(p.queue[a]) \subseteq Range(pending.queue[a]) \cup {t}
      BY <1>4, <2>3, QueuedProperties
    <3>2. SumWith(t) \in Int
      BY <1>4, <2>3, OpenedProperties DEF SumWith, Pools, Enters
    <3>3. pending' = [p EXCEPT !.sum[From[t]] = SumWith(t)]
      BY <2>3
    <3> HIDE DEF p
    <3>4. pending'.queue = p.queue /\ pending'.map = p.map /\ pending' \in Pools
      BY <1>4, <3>1, <3>2, <3>3 DEF Pools
    <3> QED
      BY <3>1, <3>4 DEF GoodPool
  <2> QED
    BY <1>1, <2>1, <2>2, <2>3
<1>6. t \notin MinedOn(tip)
  BY <1>1, MinedIsInvalid DEF PoolInv
<1>7. \A a \in Accounts : Range(pending'.queue[a]) \cap MinedOn(tip) \subseteq Leaving \cup skipped
  BY <1>5, <1>6 DEF PoolInv
<1> QED
  BY <1>2, <1>3, <1>5, <1>7 DEF PoolInv, GoodPool, WaitingOnlyUnderLegacyRules, LegacyTx

\* What the call no longer takes out has been skipped.
LEMMA OverflowInv == ASSUME PoolInv, NEW c \in Calls, Overflow(c) PROVE PoolInv'
<1>1. PICK t \in Txs : /\ Validity(t) # "Invalid" /\ Enters(t) /\ pending' = Queued(t)
                       /\ put' = [put EXCEPT ![c] = Idle]
                       /\ skipped' = skipped \cup Range(put[c].remove)
  BY DEF Overflow
<1>2. UNCHANGED <<transitionWaiting, tip, immediate, candidate, jumped>>
  BY DEF Overflow
<1>3. put' \in [Calls -> PutCalls] /\ \A d \in Calls \ {c} : put'[d] = put[d]
  <2>1. Idle \in PutCalls
    BY DEF Idle, PutCalls
  <2> QED
    BY <1>1, <2>1 DEF PoolInv
<1>4. Leaving \cup skipped \subseteq Leaving' \cup skipped'
  <2> SUFFICES ASSUME NEW d \in Calls, put[d].busy, NEW u \in Range(put[d].remove)
               PROVE  u \in Leaving' \cup skipped'
    BY <1>1 DEF Leaving
  <2>1. CASE d = c
    BY <1>1, <2>1
  <2>2. CASE d # c
    BY <1>3, <2>2 DEF Leaving
  <2> QED
    BY <2>1, <2>2
<1>5. /\ pending' \in Pools /\ GoodPool(pending')
      /\ \A a \in Accounts : Range(pending'.queue[a]) \subseteq Range(pending.queue[a]) \cup {t}
  BY <1>1, QueuedProperties DEF PoolInv
<1>6. t \notin MinedOn(tip)
  BY <1>1, MinedIsInvalid DEF PoolInv
<1>7. \A a \in Accounts : Range(pending'.queue[a]) \cap MinedOn(tip) \subseteq Leaving' \cup skipped'
  BY <1>4, <1>5, <1>6 DEF PoolInv
<1> QED
  BY <1>2, <1>3, <1>5, <1>7 DEF PoolInv, GoodPool, WaitingOnlyUnderLegacyRules, LegacyTx

LEMMA FinishInv == ASSUME PoolInv, NEW c \in Calls, Finish(c) PROVE PoolInv'
<1>1. RemoveTxs(put[c].remove) /\ put' = [put EXCEPT ![c] = Idle]
  BY DEF Finish
<1>2. UNCHANGED <<transitionWaiting, tip, immediate, candidate, jumped>>
  BY DEF Finish
<1>3. put[c].remove \in Seq(Txs)
  BY DEF PoolInv, PutCalls
<1>4. /\ pending' \in Pools /\ GoodPool(pending') /\ Within(pending', pending)
      /\ \A t \in Range(put[c].remove) : t \notin Range(pending'.queue[From[t]])
      /\ skipped' = skipped \ Range(put[c].remove)
  BY <1>1, <1>3, RemoveTxsProperties DEF PoolInv
<1>5. put' \in [Calls -> PutCalls] /\ ~put'[c].busy
  <2>1. Idle \in PutCalls /\ ~Idle.busy
    BY DEF Idle, PutCalls
  <2> QED
    BY <1>1, <2>1 DEF PoolInv
<1>6. \A d \in Calls \ {c} : put'[d] = put[d]
  BY <1>1 DEF PoolInv
<1>7. ASSUME NEW a \in Accounts, NEW t \in Range(pending'.queue[a]) \cap MinedOn(tip)
      PROVE  t \in Leaving' \cup skipped'
  <2>1. From[t] = a
    <3>1. pending'.queue[a] \in Seq(Txs)
      BY <1>4 DEF Pools
    <3>2. PICK i \in 1 .. Len(pending'.queue[a]) : pending'.queue[a][i] = t
      BY <3>1, RangeIs
    <3> QED
      BY <1>4, <3>2 DEF GoodPool, GoodQueue
  <2>2. t \notin Range(put[c].remove)
    BY <1>4, <2>1
  <2>3. t \in Leaving \cup skipped
    BY <1>4 DEF Within, PoolInv
  <2>4. CASE t \in skipped
    BY <1>4, <2>2, <2>4
  <2>5. CASE t \in Leaving
    <3>1. PICK d \in Calls : put[d].busy /\ t \in Range(put[d].remove)
      BY <2>5 DEF Leaving
    <3>2. d # c
      BY <2>2, <3>1
    <3> QED
      BY <1>6, <3>1, <3>2 DEF Leaving
  <2> QED
    BY <2>3, <2>4, <2>5
<1> QED
  BY <1>2, <1>4, <1>5, <1>7 DEF PoolInv, WaitingOnlyUnderLegacyRules, LegacyTx

LEMMA OfferInv ==
    ASSUME PoolInv, NEW c \in Calls, NEW txs \in Offers, Offer(c, txs)
    PROVE  PoolInv'
<1>1. UNCHANGED <<pending, transitionWaiting, tip, immediate, candidate, skipped, jumped>>
  BY DEF Offer, history
<1>2. txs \in Seq(Txs) /\ <<>> \in Seq(Txs)
  BY TxAssumption DEF TxAssumption
<1>3. put' \in [Calls -> PutCalls] /\ Leaving \subseteq Leaving'
  BY <1>2, BeginKeeps DEF Offer
<1> QED
  BY <1>1, <1>3 DEF PoolInv, GoodPool, WaitingOnlyUnderLegacyRules, LegacyTx

LEMMA ReorganizeInv ==
    ASSUME PoolInv, NEW c \in Calls, NEW b \in Blocks, Reorganize(c, b)
    PROVE  PoolInv'
<1>1. /\ UNCHANGED <<pending, transitionWaiting, candidate, skipped>> /\ tip' = b /\ tip \in Blocks
      /\ immediate' = (immediate \/ Height(b) = LastGhostBlock)
      /\ jumped' = ((LegacyTx \/ jumped) /\ Height(b) > LastGhostBlock)
      /\ Begin(c, TxsOf(Reverse(Branch(tip, b))), Mined(b))
  BY DEF Reorganize, PoolInv
<1>2. /\ Mined(b) \in Seq(Txs) /\ TxsOf(Reverse(Branch(tip, b))) \in Seq(Txs)
      /\ MinedOn(b) \subseteq MinedOn(tip) \cup Range(Mined(b))
  BY <1>1, MinedCovers
<1>3. put' \in [Calls -> PutCalls] /\ Leaving \cup Range(Mined(b)) \subseteq Leaving'
  BY <1>1, <1>2, BeginKeeps
<1>4. \A a \in Accounts : Range(pending'.queue[a]) \cap MinedOn(tip') \subseteq Leaving' \cup skipped'
  BY <1>1, <1>2, <1>3 DEF PoolInv
<1>5. WaitingOnlyUnderLegacyRules'
  <2>1. Height(b) \in Int /\ LastGhostBlock \in Int
    BY ChainAssumption, HeightAssumption DEF ChainAssumption, HeightAssumption, Height
  <2>2. Height(b) < LastGhostBlock \/ Height(b) = LastGhostBlock \/ Height(b) > LastGhostBlock
    BY <2>1
  <2>3. transitionWaiting # <<>> => LegacyTx \/ immediate \/ jumped
    BY DEF PoolInv, WaitingOnlyUnderLegacyRules
  <2>4. transitionWaiting # <<>> => Height(b) < LastGhostBlock \/ immediate' \/ jumped'
    BY <1>1, <2>2, <2>3
  <2> QED
    BY <1>1, <2>4 DEF WaitingOnlyUnderLegacyRules, LegacyTx
<1> QED
  BY <1>1, <1>3, <1>4, <1>5 DEF PoolInv, GoodPool

LEMMA TransitionInv == ASSUME PoolInv, NEW c \in Calls, Transition(c) PROVE PoolInv'
<1>1. UNCHANGED <<pending, tip, candidate, skipped>> /\ transitionWaiting' = <<>>
  BY DEF Transition, history
<1>2. transitionWaiting \in Seq(Txs) /\ <<>> \in Seq(Txs)
  BY DEF PoolInv
<1>3. put' \in [Calls -> PutCalls] /\ Leaving \subseteq Leaving'
  BY <1>2, BeginKeeps DEF Transition
<1> QED
  BY <1>1, <1>2, <1>3 DEF PoolInv, GoodPool, WaitingOnlyUnderLegacyRules

LEMMA CandidateInv == ASSUME PoolInv, StartCandidate \/ FinishCandidate PROVE PoolInv'
<1>1. CASE StartCandidate
  <2>1. UNCHANGED <<pending, transitionWaiting, put, tip, immediate, skipped, jumped>>
    BY <1>1 DEF StartCandidate, history
  <2>2. candidate' \in Candidates
    BY <1>1, GetTxsProperties DEF StartCandidate, Candidates, PoolInv
  <2> QED
    BY <2>1, <2>2 DEF PoolInv, GoodPool, WaitingOnlyUnderLegacyRules, LegacyTx, Leaving
<1>2. CASE FinishCandidate
  <2>1. UNCHANGED <<transitionWaiting, put, tip, immediate, jumped>> /\ candidate' = None
    BY <1>2 DEF FinishCandidate
  <2> DEFINE invalid == InvalidOf(candidate.parent, candidate.txs)
  <2>2. invalid \in Seq(Txs)
    <3>1. candidate.parent \in Blocks /\ candidate.txs \in Seq(Txs)
      BY <1>2 DEF FinishCandidate, PoolInv, Candidates
    <3> QED
      BY <3>1, InvalidProperties
  <2>3. RemoveTxs(invalid)
    BY <1>2 DEF FinishCandidate
  <2> HIDE DEF invalid
  <2>4. /\ pending' \in Pools /\ GoodPool(pending') /\ Within(pending', pending)
        /\ \A t \in Range(invalid) : t \notin Range(pending'.queue[From[t]])
        /\ skipped' = skipped \ Range(invalid)
    BY <2>2, <2>3, RemoveTxsProperties DEF PoolInv
  <2>5. Leaving' = Leaving
    BY <2>1 DEF Leaving
  <2>6. ASSUME NEW a \in Accounts, NEW t \in Range(pending'.queue[a]) \cap MinedOn(tip)
        PROVE  t \in Leaving \cup skipped'
    <3>1. From[t] = a
      <4>1. pending'.queue[a] \in Seq(Txs)
        BY <2>4 DEF Pools
      <4>2. PICK i \in 1 .. Len(pending'.queue[a]) : pending'.queue[a][i] = t
        BY <4>1, RangeIs
      <4> QED
        BY <2>4, <4>2 DEF GoodPool, GoodQueue
    <3>2. t \in Leaving \cup skipped
      BY <2>4 DEF Within, PoolInv
    <3> QED
      BY <2>4, <3>1, <3>2
  <2> QED
    BY <2>1, <2>4, <2>5, <2>6 DEF PoolInv, WaitingOnlyUnderLegacyRules, LegacyTx
<1> QED
  BY <1>1, <1>2

-----------------------------------------------------------------------------

LEMMA InitPool == Init => PoolInv
<1> SUFFICES ASSUME Init PROVE PoolInv
  OBVIOUS
<1>1. pending = Empty /\ <<>> \in Seq(Txs) /\ <<>> \in Seq(Accounts)
  BY DEF Init
<1>2. Empty \in Pools
  BY <1>1 DEF Empty, Pools
<1>3. \A a \in Accounts : Empty.queue[a] = <<>>
  BY DEF Empty
<1>4. \A a \in Accounts : GoodQueue(<<>>, a) /\ Range(<<>>) = {}
  BY DEF GoodQueue, InOrder, Once, Range
<1>5. put \in [Calls -> PutCalls]
  BY <1>1 DEF Init, Idle, PutCalls
<1>6. tip \in Blocks /\ transitionWaiting = <<>> /\ candidate = None
  BY ChainAssumption DEF ChainAssumption, Init
<1> QED
  BY <1>1, <1>2, <1>3, <1>4, <1>5, <1>6 DEF PoolInv, GoodPool, WaitingOnlyUnderLegacyRules

LEMMA NextPool == PoolInv /\ [Next]_vars => PoolInv'
<1> SUFFICES ASSUME PoolInv, [Next]_vars PROVE PoolInv'
  OBVIOUS
<1>1. CASE UNCHANGED vars
  <2>1. UNCHANGED <<pending, transitionWaiting, put, tip, immediate, candidate, skipped, jumped>>
    BY <1>1 DEF vars, history
  <2> QED
    BY <2>1 DEF PoolInv, GoodPool, WaitingOnlyUnderLegacyRules, LegacyTx, Leaving
<1> QED
  BY <1>1, LookAtInv, RefuseInv, AcceptInv, OverflowInv, FinishInv, OfferInv, ReorganizeInv, TransitionInv,
     CandidateInv DEF Next

LEMMA SafePool == Spec => []PoolInv
BY InitPool, NextPool, PTL DEF Spec

\* No queue holds a transaction twice, however many calls of putTxs overlap and
\* whatever reorganizations put back.
THEOREM QueuedOnce == Spec => []NoTxTwice
<1>1. PoolInv => NoTxTwice
  BY DEF PoolInv, Pools, GoodPool, GoodQueue, Once, NoTxTwice, IsInjective
<1> QED
  BY <1>1, SafePool, PTL

\* Every queue is in the order in which its account spends, full or not, and after
\* removals from its middle.
THEOREM QueuesInOrder == Spec => []QueuesAreOrdered
<1>1. PoolInv => QueuesAreOrdered
  <2> SUFFICES ASSUME PoolInv, NEW a \in Accounts, NEW i \in 1 .. Len(pending.queue[a]) - 1
               PROVE  GoesBefore(pending.queue[a][i], pending.queue[a][i + 1])
    BY DEF QueuesAreOrdered
  <2>1. pending.queue[a] \in Seq(Txs) /\ InOrder(pending.queue[a])
    BY DEF PoolInv, Pools, GoodPool, GoodQueue
  <2>2. Len(pending.queue[a]) \in Nat
    BY <2>1
  <2>3. /\ i \in 1 .. Len(pending.queue[a]) /\ i + 1 \in 1 .. Len(pending.queue[a]) /\ i < i + 1
    BY <2>2
  <2> QED
    BY <2>1, <2>3 DEF InOrder
<1> QED
  BY <1>1, SafePool, PTL

\* Once every call has ended, what the main chain has mined is in no queue, but for
\* the transactions whose removal died with its call in strictAdd and was never made up for.
THEOREM MinedTxsLeave == Spec => []NoMinedTxStays
<1>1. PoolInv => NoMinedTxStays
  <2> SUFFICES ASSUME PoolInv, \A c \in Calls : ~put[c].busy, NEW a \in Accounts
               PROVE  Range(pending.queue[a]) \cap MinedOn(tip) \subseteq skipped
    BY DEF NoMinedTxStays
  <2>1. Leaving = {}
    BY DEF Leaving
  <2> QED
    BY <2>1 DEF PoolInv
<1> QED
  BY <1>1, SafePool, PTL

\* Nothing is kept aside for rules that already hold, unless the transition is about to
\* run or the tip went over the last Ghost height without being on it.
THEOREM NothingWaitsOnRules == Spec => []WaitingOnlyUnderLegacyRules
<1>1. PoolInv => WaitingOnlyUnderLegacyRules
  BY DEF PoolInv
<1> QED
  BY <1>1, SafePool, PTL

=============================================================================
