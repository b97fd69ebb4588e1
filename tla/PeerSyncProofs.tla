--------------------------- MODULE PeerSyncProofs ---------------------------
(***************************************************************************)
(* The search for the last common block and the download of the headers    *)
(* behind it, for every tree of headers, any number of peers, ranges of    *)
(* any length, and peers that reorganize, fail and broadcast at any        *)
(* moment.                                                                 *)
(***************************************************************************)
EXTENDS PeerSync, SequenceTheorems, WellFoundedInduction, TLAPS

-----------------------------------------------------------------------------
(***************************************************************************)
(* Sequences and chains.                                                   *)
(***************************************************************************)

LEMMA LeastNatural ==
    ASSUME NEW T \in SUBSET Nat, T # {}
    PROVE  \E x \in T : \A y \in T : x <= y
<1>1. IsWellFoundedOn(OpToRel(<, Nat), Nat)
  BY NatLessThanWellFounded
<1>2. PICK x \in T : \A y \in T : ~ (<<y, x>> \in OpToRel(<, Nat))
  BY <1>1, WFMin
<1>3. \A y \in T : ~ (y < x)
  BY <1>2 DEF OpToRel
<1> QED
  BY <1>3

LEMMA CountingUp ==
    ASSUME NEW n \in Nat, NEW S, 0 \in S,
           \A k \in 0 .. n - 1 : k \in S => k + 1 \in S
    PROVE  0 .. n \subseteq S
<1> SUFFICES ASSUME (0 .. n) \ S # {} PROVE FALSE
  OBVIOUS
<1>1. (0 .. n) \ S \in SUBSET Nat
  OBVIOUS
<1>2. PICK m \in (0 .. n) \ S : \A y \in (0 .. n) \ S : m <= y
  BY <1>1, LeastNatural
<1>3. m - 1 \in 0 .. n - 1 /\ m - 1 \in S
  BY <1>2
<1> QED
  BY <1>2, <1>3

\* f is what a loop over the values of V leaves after each of its n rounds.
LoopOf(f, n, V, start, Round) ==
    /\ f \in [0 .. n -> V] /\ f[0] = start
    /\ \A k \in 1 .. n : f[k] = Round[k][f[k - 1]]

LEMMA LoopExists ==
    ASSUME NEW n \in Nat, NEW V, NEW start \in V, NEW Round \in [1 .. n -> [V -> V]]
    PROVE  \E f : LoopOf(f, n, V, start, Round)
<1> DEFINE Is(m, f) == f[0] = start /\ \A k \in 1 .. m : f[k] = Round[k][f[k - 1]]
           S == {m \in 0 .. n : \E f \in [0 .. n -> V] : Is(m, f)}
<1>1. 0 \in S
  <2> DEFINE g == [k \in 0 .. n |-> start]
  <2>1. g \in [0 .. n -> V] /\ g[0] = start
    OBVIOUS
  <2> HIDE DEF g
  <2>2. \A k \in 1 .. 0 : g[k] = Round[k][g[k - 1]]
    OBVIOUS
  <2> QED
    BY <2>1, <2>2
<1>2. ASSUME NEW m \in 0 .. n - 1, m \in S
      PROVE  m + 1 \in S
  <2>1. PICK f \in [0 .. n -> V] : Is(m, f)
    BY <1>2
  <2> DEFINE d == [f EXCEPT ![m + 1] = Round[m + 1][f[m]]]
  <2>2. Round[m + 1][f[m]] \in V
    OBVIOUS
  <2>3. d \in [0 .. n -> V] /\ d[m + 1] = Round[m + 1][f[m]]
    BY <2>2
  <2>4. \A k \in 0 .. m : d[k] = f[k]
    OBVIOUS
  <2> HIDE DEF d
  <2>5. ASSUME NEW k \in 1 .. m + 1
        PROVE  d[k] = Round[k][d[k - 1]]
    <3>1. CASE k = m + 1
      BY <2>3, <2>4, <3>1
    <3>2. CASE k \in 1 .. m
      BY <2>1, <2>4, <3>2
    <3> QED
      BY <3>1, <3>2
  <2>6. Is(m + 1, d)
    BY <2>1, <2>4, <2>5
  <2> QED
    BY <2>3, <2>6
<1>3. 0 .. n \subseteq S
  <2> HIDE DEF S
  <2> QED
    BY <1>1, <1>2, CountingUp
<1>4. n \in S
  BY <1>3
<1> QED
  BY <1>4 DEF LoopOf

\* Flattening is a loop that appends one sequence after the other.
LEMMA FlattenUnfolded ==
    ASSUME NEW S, NEW s \in Seq(Seq(S))
    PROVE  \E f : /\ f \in [0 .. Len(s) -> Seq(S)] /\ f[0] = <<>>
                  /\ \A k \in 1 .. Len(s) : f[k] = f[k - 1] \o s[k]
                  /\ FlattenSeq(s) = f[Len(s)]
<1> DEFINE n == Len(s)
           V == Seq(S)
           Round == [k \in 1 .. n |-> [v \in V |-> v \o s[k]]]
           Is(f) == f = [k \in 1 .. n |-> IF k = 1 THEN s[k] ELSE f[k - 1] \o s[k]]
           flat == CHOOSE f : Is(f)
<1>1. n \in Nat /\ \A k \in 1 .. n : s[k] \in V
  OBVIOUS
<1>2. <<>> \in V
  OBVIOUS
<1>3. FlattenSeq(s) = IF n = 0 THEN s ELSE flat[n]
  BY DEF FlattenSeq
<1>4. n = 0 => s = <<>>
  OBVIOUS
<1> HIDE DEF n
<1>5. \A k \in 1 .. n : \A v \in V : v \o s[k] \in V
  BY <1>1, ConcatProperties
<1>6. n # 0 => <<>> \o s[1] = s[1]
  <2>1. n # 0 => 1 \in 1 .. n
    BY <1>1
  <2> QED
    BY <1>1, <2>1, ConcatEmptySeq
<1> HIDE DEF V
<1>7. Round \in [1 .. n -> [V -> V]]
  BY <1>5
<1>8. PICK f : LoopOf(f, n, V, <<>>, Round)
  <2> HIDE DEF Round
  <2> QED
    BY <1>1, <1>2, <1>7, LoopExists
<1>9. /\ f \in [0 .. n -> V] /\ f[0] = <<>>
      /\ \A k \in 1 .. n : k - 1 \in 0 .. n /\ f[k] = f[k - 1] \o s[k]
  <2>1. \A k \in 1 .. n : k - 1 \in 0 .. n
    BY <1>1
  <2> QED
    BY <1>8, <2>1 DEF LoopOf
<1>10. CASE n = 0
  <2>1. FlattenSeq(s) = f[n]
    BY <1>3, <1>4, <1>9, <1>10
  <2> QED
    BY <1>9, <2>1 DEF n, V
<1>11. CASE n # 0
  <2> DEFINE g == [k \in 1 .. n |-> f[k]]
  <2>1. \A k \in 1 .. n : g[k] = IF k = 1 THEN s[k] ELSE g[k - 1] \o s[k]
    <3> SUFFICES ASSUME NEW k \in 1 .. n
                 PROVE  g[k] = IF k = 1 THEN s[k] ELSE g[k - 1] \o s[k]
      OBVIOUS
    <3>1. CASE k = 1
      <4>1. g[k] = f[k] /\ k - 1 = 0
        BY <3>1
      <4> HIDE DEF g
      <4> QED
        BY <1>6, <1>9, <1>11, <3>1, <4>1
    <3>2. CASE k # 1
      <4>1. k - 1 \in 1 .. n
        BY <1>1, <3>2
      <4>2. g[k] = f[k] /\ g[k - 1] = f[k - 1]
        BY <4>1
      <4> HIDE DEF g
      <4> QED
        BY <1>9, <3>2, <4>2
    <3> QED
      BY <3>1, <3>2
  <2>2. Is(g)
    <3>1. g = [k \in 1 .. n |-> g[k]]
      OBVIOUS
    <3> HIDE DEF g
    <3> QED
      BY <2>1, <3>1
  <2>3. Is(flat)
    <3> HIDE DEF Is, g
    <3> QED
      BY <2>2
  <2> HIDE DEF flat, g
  <2>4. \A k \in 1 .. n : flat[k] = IF k = 1 THEN s[k] ELSE flat[k - 1] \o s[k]
    BY <2>3
  <2> DEFINE T == {k \in 0 .. n : k > 0 => flat[k] = f[k]}
  <2>5. 0 \in T
    BY <1>1
  <2>6. ASSUME NEW k \in 0 .. n - 1, k \in T
        PROVE  k + 1 \in T
    <3>1. k + 1 \in 1 .. n /\ k + 1 \in 0 .. n /\ (k + 1) - 1 = k
      BY <1>1
    <3>2. CASE k = 0
      <4>1. 1 \in 1 .. n /\ 1 - 1 = 0
        BY <3>1, <3>2
      <4>2. flat[1] = s[1]
        BY <2>4, <4>1
      <4>3. f[1] = f[0] \o s[1]
        BY <1>9, <4>1
      <4>4. f[1] = s[1]
        BY <1>6, <1>9, <1>11, <4>3
      <4> QED
        BY <3>1, <3>2, <4>2, <4>4
    <3>3. CASE k # 0
      <4>1. k > 0 /\ k + 1 # 1
        BY <1>1, <3>3
      <4>2. flat[k] = f[k]
        BY <2>6, <4>1
      <4>3. flat[k + 1] = flat[k] \o s[k + 1] /\ f[k + 1] = f[k] \o s[k + 1]
        BY <1>9, <2>4, <3>1, <4>1
      <4> QED
        BY <3>1, <4>2, <4>3
    <3> QED
      BY <3>2, <3>3
  <2>7. n \in T
    <3> HIDE DEF T
    <3>1. 0 .. n \subseteq T
      BY <1>1, <2>5, <2>6, CountingUp
    <3> QED
      BY <1>1, <3>1
  <2>8. n > 0 /\ flat[n] = f[n]
    BY <1>1, <1>11, <2>7
  <2>9. FlattenSeq(s) = f[n]
    BY <1>3, <1>11, <2>8
  <2> QED
    BY <1>9, <2>9 DEF n, V
<1> QED
  BY <1>10, <1>11

\* Read from its start, it is the first sequence and then what is behind it: behind[k] is
\* what the k-th sequence and all after it make.
LEMMA FlattenFromStart ==
    ASSUME NEW S, NEW s \in Seq(Seq(S))
    PROVE  \E behind : /\ behind \in [1 .. Len(s) + 1 -> Seq(S)] /\ behind[Len(s) + 1] = <<>>
                       /\ \A k \in 1 .. Len(s) : behind[k] = s[k] \o behind[k + 1]
                       /\ FlattenSeq(s) = behind[1]
<1> DEFINE n == Len(s)
           V == Seq(S)
           Round == [k \in 1 .. n |-> [v \in V |-> s[n + 1 - k] \o v]]
<1>1. n \in Nat /\ (\A k \in 1 .. n : s[k] \in V) /\ <<>> \in V
  OBVIOUS
<1>2. PICK f : /\ f \in [0 .. n -> V] /\ f[0] = <<>>
               /\ \A k \in 1 .. n : f[k] = f[k - 1] \o s[k]
               /\ FlattenSeq(s) = f[n]
  BY FlattenUnfolded
<1> HIDE DEF n
<1>3. \A k \in 1 .. n : n + 1 - k \in 1 .. n
  BY <1>1
<1>4. \A k \in 1 .. n : \A v \in V : s[n + 1 - k] \o v \in V
  BY <1>1, <1>3, ConcatProperties
<1>5. PICK b : LoopOf(b, n, V, <<>>, Round)
  <2> HIDE DEF V
  <2>1. Round \in [1 .. n -> [V -> V]]
    BY <1>4
  <2> HIDE DEF Round
  <2> QED
    BY <1>1, <2>1, LoopExists
<1> HIDE DEF V
<1>6. b \in [0 .. n -> V] /\ b[0] = <<>> /\ \A k \in 1 .. n : b[k] = s[n + 1 - k] \o b[k - 1]
  <2>1. \A k \in 1 .. n : k - 1 \in 0 .. n
    BY <1>1
  <2> QED
    BY <1>5, <2>1 DEF LoopOf
<1> DEFINE r == [k \in 1 .. n + 1 |-> b[n + 1 - k]]
<1>7. r \in [1 .. n + 1 -> V]
  <2>1. \A k \in 1 .. n + 1 : n + 1 - k \in 0 .. n
    BY <1>1
  <2> QED
    BY <1>6, <2>1
<1>8. r[n + 1] = <<>>
  <2>1. n + 1 \in 1 .. n + 1 /\ n + 1 - (n + 1) = 0
    BY <1>1
  <2> QED
    BY <1>6, <2>1
<1>9. ASSUME NEW k \in 1 .. n
      PROVE  r[k] = s[k] \o r[k + 1]
  <2>1. /\ k \in 1 .. n + 1 /\ k + 1 \in 1 .. n + 1 /\ n + 1 - k \in 1 .. n
        /\ n + 1 - (k + 1) = (n + 1 - k) - 1 /\ n + 1 - (n + 1 - k) = k
    BY <1>1
  <2>2. r[k] = b[n + 1 - k] /\ r[k + 1] = b[(n + 1 - k) - 1]
    BY <2>1
  <2> QED
    BY <1>6, <2>1, <2>2
<1> HIDE DEF r
<1> DEFINE T == {k \in 0 .. n : f[k] \o r[k + 1] = r[1]}
<1>10. 0 \in T
  <2>1. 1 \in 1 .. n + 1 /\ 0 + 1 = 1 /\ 0 \in 0 .. n
    BY <1>1
  <2>2. <<>> \o r[1] = r[1]
    BY <1>7, <2>1, ConcatEmptySeq DEF V
  <2> QED
    BY <1>2, <2>1, <2>2
<1>11. ASSUME NEW k \in 0 .. n - 1, k \in T
       PROVE  k + 1 \in T
  <2>1. /\ k + 1 \in 1 .. n /\ k + 1 \in 0 .. n /\ (k + 1) - 1 = k /\ k \in 0 .. n
        /\ (k + 1) + 1 \in 1 .. n + 1
    BY <1>1
  <2>2. f[k + 1] = f[k] \o s[k + 1] /\ r[k + 1] = s[k + 1] \o r[(k + 1) + 1]
    BY <1>2, <1>9, <2>1
  <2>3. f[k] \in Seq(S) /\ s[k + 1] \in Seq(S) /\ r[(k + 1) + 1] \in Seq(S)
    BY <1>1, <1>2, <1>7, <2>1 DEF V
  <2>4. (f[k] \o s[k + 1]) \o r[(k + 1) + 1] = f[k] \o (s[k + 1] \o r[(k + 1) + 1])
    <3>1. \A x, y, z \in Seq(S) : (x \o y) \o z = x \o (y \o z)
      BY ConcatAssociative
    <3> QED
      BY <2>3, <3>1
  <2>5. f[k + 1] \o r[(k + 1) + 1] = r[1]
    BY <1>11, <2>2, <2>4
  <2> QED
    BY <2>1, <2>5
<1>12. n \in T
  <2> HIDE DEF T
  <2>1. 0 .. n \subseteq T
    BY <1>1, <1>10, <1>11, CountingUp
  <2> QED
    BY <1>1, <2>1
<1>13. f[n] = r[1]
  <2>1. f[n] \in Seq(S)
    BY <1>1, <1>2 DEF V
  <2>2. f[n] \o <<>> = f[n]
    BY <2>1, ConcatEmptySeq
  <2> QED
    BY <1>8, <1>12, <2>2
<1> QED
  BY <1>2, <1>7, <1>8, <1>9, <1>13 DEF n, V

\* A sequence that begins with y, before another.
LEMMA FirstBefore ==
    ASSUME NEW S, NEW y \in S, NEW w \in Seq(S), NEW t \in Seq(S),
           NEW r, r = (<<y>> \o w) \o t
    PROVE  Head(r) = y /\ Tail(r) = w \o t
<1>1. w \o t \in Seq(S) /\ <<y>> \in Seq(S)
  BY ConcatProperties
<1>2. r = <<y>> \o (w \o t)
  BY ConcatAssociative
<1> DEFINE v == w \o t
<1> HIDE DEF v
<1>3. v \in Seq(S)
  BY <1>1 DEF v
<1> DEFINE c == <<y>> \o v
<1>4. c \in Seq(S) /\ Len(c) = 1 + Len(v) /\ c[1] = y /\ \A i \in 1 .. Len(v) : c[i + 1] = v[i]
  BY <1>3
<1> HIDE DEF c
<1>5. c # <<>>
  BY <1>3, <1>4
<1>6. Head(c) = y
  BY <1>4, <1>5
<1>7. Tail(c) \in Seq(S) /\ Len(Tail(c)) = Len(v) /\ \A i \in 1 .. Len(v) : Tail(c)[i] = v[i]
  BY <1>3, <1>4, <1>5, HeadTailProperties
<1>8. Tail(c) = v
  BY <1>3, <1>7, SeqEqual
<1> QED
  BY <1>2, <1>6, <1>8 DEF c, v

\* Of what is left of a sequence from its m-th entry, before another, the first is taken.
LEMMA TakeFirst ==
    ASSUME NEW S, NEW g \in Seq(S), NEW t \in Seq(S), NEW m \in 1 .. Len(g)
    PROVE  LET r == SubSeq(g, m, Len(g)) \o t
           IN  /\ Head(r) = g[m] /\ Tail(r) = SubSeq(g, m + 1, Len(g)) \o t
               /\ m < Len(g) => Tail(r) # <<>>
               /\ m = Len(g) => Tail(r) = t
<1> DEFINE n == Len(g)
           y == g[m]
           w == SubSeq(g, m + 1, n)
           r == SubSeq(g, m, n) \o t
<1>1. n \in Nat /\ y \in S /\ m \in Nat /\ m <= n /\ \A i \in m + 1 .. n : g[i] \in S
  OBVIOUS
<1>2. w \in Seq(S) /\ (m < n => Len(w) > 0) /\ (m = n => w = <<>>)
  <2> HIDE DEF n
  <2>1. w \in Seq(S) /\ (m < n => Len(w) > 0)
    BY <1>1, SubSeqProperties
  <2>2. m = n => w = <<>>
    BY <1>1, SubSeqEmpty
  <2> QED
    BY <2>1, <2>2
<1>3. SubSeq(g, m, n) = <<y>> \o w
  <2>1. n \in m .. Len(g)
    BY <1>1
  <2> QED
    BY <2>1, SubSeqRecursiveFirst
<1> HIDE DEF n, y, w
<1>4. r = (<<y>> \o w) \o t
  BY <1>3
<1> HIDE DEF r
<1>5. Head(r) = y /\ Tail(r) = w \o t
  BY <1>1, <1>2, <1>4, FirstBefore
<1>6. m < n => w \o t # <<>>
  <2>1. m < n => w # <<>>
    BY <1>2
  <2> QED
    BY <1>2, <2>1, ConcatEqualIffEmpty
<1>7. m = n => w \o t = t
  BY <1>2, ConcatEmptySeq
<1> QED
  BY <1>5, <1>6, <1>7 DEF n, y, w, r

\* A set of headers with Genesis and every child of its members holds all of them.
LEMMA TreeInduction ==
    ASSUME NEW S \in SUBSET Headers, Genesis \in S,
           \A x \in Headers \ {Genesis} : Parent[x] \in S => x \in S
    PROVE  S = Headers
<1> SUFFICES ASSUME Headers \ S # {} PROVE FALSE
  OBVIOUS
<1> DEFINE T == {Height[x] : x \in Headers \ S}
<1>1. T \in SUBSET Nat /\ T # {}
  BY TreeAssumption DEF TreeAssumption, Heights
<1>2. PICK n \in T : \A m \in T : n <= m
  BY <1>1, LeastNatural
<1>3. PICK x \in Headers \ S : \A y \in Headers \ S : Height[x] <= Height[y]
  BY <1>2
<1>4. x # Genesis /\ Parent[x] \in Headers \ S
  BY <1>3, TreeAssumption DEF TreeAssumption
<1>5. Height[x] = Height[Parent[x]] + 1 /\ Height[Parent[x]] \in Nat
  BY <1>4, TreeAssumption DEF TreeAssumption, Heights
<1> QED
  BY <1>3, <1>4, <1>5

\* What a chain holds besides the header itself is lower, no heavier, and ends at Genesis.
OnWayDown(x) ==
    /\ Ancestors[x] \subseteq Headers /\ x \in Ancestors[x] /\ Genesis \in Ancestors[x]
    /\ \A a \in Ancestors[x] : (a = x \/ Height[a] < Height[x]) /\ Work[a] <= Work[x]
    /\ \A k \in 0 .. Height[x] : \E a \in Ancestors[x] : Height[a] = k

LEMMA ChainGoesDown == \A x \in Headers : OnWayDown(x)
<1> DEFINE S == {x \in Headers : OnWayDown(x)}
<1>1. Genesis \in S
  <2>1. \A k \in 0 .. Height[Genesis] : k = Height[Genesis]
    BY TreeAssumption DEF TreeAssumption
  <2> QED
    BY <2>1, TreeAssumption DEF TreeAssumption, OnWayDown
<1>2. ASSUME NEW x \in Headers \ {Genesis}, Parent[x] \in S
      PROVE  x \in S
  <2>1. /\ Ancestors[x] = Ancestors[Parent[x]] \cup {x} /\ Parent[x] \in Headers
        /\ Height[x] = Height[Parent[x]] + 1 /\ Work[x] >= Work[Parent[x]]
    BY TreeAssumption DEF TreeAssumption
  <2>2. OnWayDown(Parent[x])
    BY <1>2
  <2>3. \A a \in Headers : Height[a] \in Nat /\ Work[a] \in Nat
    BY TreeAssumption DEF TreeAssumption, Heights
  <2>4. \A k \in 0 .. Height[x] : \E a \in Ancestors[x] : Height[a] = k
    <3> SUFFICES ASSUME NEW k \in 0 .. Height[x]
                 PROVE  \E a \in Ancestors[x] : Height[a] = k
      OBVIOUS
    <3>1. CASE k = Height[x]
      BY <2>1, <3>1
    <3>2. CASE k # Height[x]
      <4>1. k \in 0 .. Height[Parent[x]]
        BY <2>1, <2>3, <3>2
      <4> QED
        BY <2>1, <2>2, <4>1 DEF OnWayDown
    <3> QED
      BY <3>1, <3>2
  <2>5. OnWayDown(x)
    BY <2>1, <2>2, <2>3, <2>4 DEF OnWayDown
  <2> QED
    BY <2>5
<1>3. S = Headers
  <2> HIDE DEF S
  <2> S \in SUBSET Headers
    BY DEF S
  <2> QED
    BY <1>1, <1>2, TreeInduction
<1> QED
  BY <1>3

\* What a tip puts into an index of heights: Genesis at the bottom, itself at its height.
LEMMA ChainInIndex ==
    ASSUME NEW x \in Headers
    PROVE  /\ OnChain(x)[0] = Genesis /\ OnChain(x)[Height[x]] = x
           /\ Height[x] \in Heights /\ 0 \in Heights
           /\ OnChain(x) \in [Heights -> Headers \cup {None}]
<1>1. /\ Height[x] \in Heights /\ 0 \in Heights
      /\ \A a \in Headers : Height[a] \in Nat
  BY TreeAssumption DEF TreeAssumption, Heights
<1>2. \A a \in Headers : Height[a] = 0 => a = Genesis
  <2> SUFFICES ASSUME NEW a \in Headers \ {Genesis} PROVE Height[a] # 0
    OBVIOUS
  <2>1. Parent[a] \in Headers /\ Height[a] = Height[Parent[a]] + 1
    BY TreeAssumption DEF TreeAssumption
  <2> QED
    BY <1>1, <2>1
<1>3. OnWayDown(x)
  BY ChainGoesDown
<1>4. (CHOOSE a \in Ancestors[x] : Height[a] = 0) = Genesis
  <2>1. Genesis \in Ancestors[x] /\ Height[Genesis] = 0
    BY <1>3, TreeAssumption DEF TreeAssumption, OnWayDown
  <2> DEFINE c == CHOOSE a \in Ancestors[x] : Height[a] = 0
  <2>2. c \in Ancestors[x] /\ Height[c] = 0
    BY <2>1
  <2> QED
    BY <1>2, <1>3, <2>2 DEF OnWayDown
<1>5. (CHOOSE a \in Ancestors[x] : Height[a] = Height[x]) = x
  <2> DEFINE c == CHOOSE a \in Ancestors[x] : Height[a] = Height[x]
  <2>1. c \in Ancestors[x] /\ Height[c] = Height[x]
    BY <1>3 DEF OnWayDown
  <2>2. c = x \/ Height[c] < Height[x]
    BY <1>3, <2>1 DEF OnWayDown
  <2> QED
    BY <1>1, <2>1, <2>2
<1>6. 0 <= Height[x] /\ Height[x] <= Height[x]
  BY <1>1
<1>7. ASSUME NEW k \in Heights, k <= Height[x]
      PROVE  (CHOOSE a \in Ancestors[x] : Height[a] = k) \in Headers
  <2>1. k \in 0 .. Height[x]
    BY <1>1, <1>7 DEF Heights
  <2>2. PICK a \in Ancestors[x] : Height[a] = k
    BY <1>3, <2>1 DEF OnWayDown
  <2> QED
    BY <1>3, <2>2 DEF OnWayDown
<1>8. OnChain(x) \in [Heights -> Headers \cup {None}]
  BY <1>7 DEF OnChain
<1> QED
  BY <1>1, <1>4, <1>5, <1>6, <1>8 DEF OnChain

\* A chain is one path: it goes on below each of its headers, and has one at each height.
OnePath(x) ==
    /\ \A a \in Ancestors[x] \ {Genesis} : Parent[a] \in Ancestors[x]
    /\ \A a, b \in Ancestors[x] : Height[a] = Height[b] => a = b

LEMMA ChainIsOnePath == \A x \in Headers : OnePath(x)
<1> DEFINE S == {x \in Headers : OnePath(x)}
<1>1. Genesis \in S
  BY TreeAssumption DEF TreeAssumption, OnePath
<1>2. ASSUME NEW x \in Headers \ {Genesis}, Parent[x] \in S
      PROVE  x \in S
  <2>1. /\ Ancestors[x] = Ancestors[Parent[x]] \cup {x} /\ Parent[x] \in Headers
        /\ Height[x] = Height[Parent[x]] + 1 /\ Height[Parent[x]] \in Nat
    BY TreeAssumption DEF TreeAssumption, Heights
  <2>2. OnePath(Parent[x]) /\ OnWayDown(Parent[x])
    BY <1>2, <2>1, ChainGoesDown
  <2>3. \A a \in Ancestors[Parent[x]] : Height[a] # Height[x]
    <3> SUFFICES ASSUME NEW a \in Ancestors[Parent[x]] PROVE Height[a] # Height[x]
      OBVIOUS
    <3>1. Height[a] \in Nat /\ Height[a] <= Height[Parent[x]]
      <4>1. a \in Headers /\ (a = Parent[x] \/ Height[a] < Height[Parent[x]])
        BY <2>2 DEF OnWayDown
      <4>2. Height[a] \in Nat
        BY <4>1, TreeAssumption DEF TreeAssumption, Heights
      <4> QED
        BY <2>1, <4>1, <4>2
    <3> QED
      BY <2>1, <3>1
  <2>4. OnePath(x)
    BY <2>1, <2>2, <2>3 DEF OnePath, OnWayDown
  <2> QED
    BY <2>4
<1>3. S = Headers
  <2> HIDE DEF S
  <2> S \in SUBSET Headers
    BY DEF S
  <2> QED
    BY <1>1, <1>2, TreeInduction
<1> QED
  BY <1>3

\* An index names a chain up to the height top.
NamesChain(i, top) ==
    \A k \in 0 .. top : /\ i[k] \in Headers /\ Height[i[k]] = k
                        /\ k > 0 => i[k] # Genesis /\ Parent[i[k]] = i[k - 1]

LEMMA ChainIsPath == ASSUME NEW x \in Headers PROVE NamesChain(OnChain(x), Height[x])
<1> DEFINE at(k) == CHOOSE a \in Ancestors[x] : Height[a] = k
<1>1. OnWayDown(x) /\ OnePath(x)
  BY ChainGoesDown, ChainIsOnePath
<1>2. Height[x] \in Heights /\ MaxHeight \in Nat
  BY TreeAssumption DEF TreeAssumption
<1>3. ASSUME NEW k \in 0 .. Height[x]
      PROVE  at(k) \in Ancestors[x] /\ at(k) \in Headers /\ Height[at(k)] = k /\ OnChain(x)[k] = at(k)
  <2>1. PICK a \in Ancestors[x] : Height[a] = k
    BY <1>1 DEF OnWayDown
  <2>2. at(k) \in Ancestors[x] /\ Height[at(k)] = k
    BY <2>1
  <2>3. k \in Heights /\ k <= Height[x]
    BY <1>2 DEF Heights
  <2>4. OnChain(x)[k] = at(k)
    BY <2>3 DEF OnChain
  <2> QED
    BY <1>1, <2>2, <2>4 DEF OnWayDown
<1> HIDE DEF at
<1>4. ASSUME NEW k \in 0 .. Height[x], k > 0
      PROVE  at(k) # Genesis /\ Parent[at(k)] = at(k - 1)
  <2>1. k - 1 \in 0 .. Height[x]
    BY <1>2, <1>4 DEF Heights
  <2>2. at(k) # Genesis
    BY <1>3, <1>4, TreeAssumption DEF TreeAssumption
  <2>3. Parent[at(k)] \in Ancestors[x] /\ Height[at(k)] = Height[Parent[at(k)]] + 1
    BY <1>1, <1>3, <2>2, TreeAssumption DEF TreeAssumption, OnePath
  <2>4. Height[Parent[at(k)]] = k - 1
    <3>1. Height[Parent[at(k)]] \in Nat /\ Height[at(k)] = k
      BY <1>1, <1>3, <2>3, TreeAssumption DEF TreeAssumption, Heights, OnWayDown
    <3> QED
      BY <2>3, <3>1
  <2> QED
    BY <1>1, <1>3, <2>1, <2>2, <2>3, <2>4 DEF OnePath
<1>5. ASSUME NEW k \in 0 .. Height[x]
      PROVE  k > 0 => k - 1 \in 0 .. Height[x]
  BY <1>2 DEF Heights
<1> QED
  BY <1>3, <1>4, <1>5 DEF NamesChain

-----------------------------------------------------------------------------
(***************************************************************************)
(* The search.                                                             *)
(***************************************************************************)

Searching == {"first", "second", "search"}
Phases == {"none", "first", "second", "search", "range", "put"}

\* The node's headers: the tip is a heaviest one.
KnownInv ==
    /\ known \subseteq Headers /\ Genesis \in known /\ htip \in known
    /\ \A x \in known : Work[x] <= Work[htip]

\* The peers' indexes: whatever lies above, the tip is at its height.
IndexInv ==
    /\ rtip \in [Peers -> Headers] /\ index \in [Peers -> [Heights -> Headers \cup {None}]]
    /\ \A p \in Peers : index[p][0] = Genesis /\ index[p][Height[rtip[p]]] = rtip[p]

Holds(p, k) == k \in Heights /\ index[p][k] \in known
Lacks(p, k) == k \in Heights => index[p][k] \notin known

\* What the bounds of the search say of a peer that has not moved since it began.
Bounds(p, s) ==
    /\ s.phase \in {"first", "second"} => rtip[p] \notin known /\ s.donthave = Height[rtip[p]]
    /\ s.phase = "first" => s.have = 0
    /\ s.phase = "second" => Holds(p, s.have) /\ s.at = s.have + 1
    /\ s.phase = "search" => /\ Holds(p, s.have) /\ Lacks(p, s.donthave)
                             /\ s.have < s.donthave /\ s.at = Middle(s.have, s.donthave)

\* h is one download: its fields, and the peer it asks.
DownloadType ==
    /\ DOMAIN h = DOMAIN NoSync
    /\ h.phase \in Phases /\ h.quiet \in BOOLEAN
    /\ h.have \in Nat /\ h.donthave \in Nat /\ h.at \in Nat
    /\ h.received \in Seq(Headers) /\ (h.phase = "put" => h.received # <<>>)
    /\ h.phase # "none" => headerSync \in Peers
    /\ fails \in Nat

SearchInv ==
    /\ KnownInv /\ IndexInv /\ DownloadType
    /\ h.phase \in Searching /\ h.quiet => Bounds(headerSync, h)

LEMMA NoneIsUnknown == ASSUME KnownInv PROVE None \notin known
BY TreeAssumption DEF TreeAssumption, KnownInv

LEMMA FieldsOfNoSync ==
    DOMAIN NoSync = {"phase", "have", "donthave", "at", "max", "previous", "received", "uncles", "quiet"}
BY DEF NoSync

\* Two bounds that have not met have a height between them.
LEMMA MiddleProperties ==
    ASSUME NEW a \in Nat, NEW b \in Nat, a < b
    PROVE  /\ Middle(a, b) \in Nat /\ a <= Middle(a, b) /\ Middle(a, b) < b
           /\ a + 1 < b => a < Middle(a, b)
           /\ a + 1 >= b => Middle(a, b) = a
BY DEF Middle

LEMMA MiddleInNat == \A a, b \in Nat : Middle(a, b) \in Nat
BY DEF Middle

LEMMA InitSearch == Init => SearchInv
<1> SUFFICES ASSUME Init PROVE SearchInv
  OBVIOUS
<1>1. KnownInv
  <2>1. htip \in Headers /\ known = Ancestors[htip]
    BY TipsAssumption DEF Init, TipsAssumption
  <2>2. OnWayDown(htip)
    BY <2>1, ChainGoesDown
  <2> QED
    BY <2>1, <2>2 DEF KnownInv, OnWayDown
<1>2. IndexInv
  <2>1. rtip \in [Peers -> Headers] /\ index = [p \in Peers |-> OnChain(rtip[p])]
    BY TipsAssumption DEF Init, TipsAssumption
  <2> QED
    BY <2>1, ChainInIndex DEF IndexInv
<1>3. DownloadType /\ h.phase \notin Searching
  BY DEF Init, NoSync, DownloadType, Phases, Searching
<1> QED
  BY <1>1, <1>2, <1>3 DEF SearchInv

\* A header that is put is known if its parent is, and the tip stays a heaviest one.
LEMMA PutHeaderKeeps ==
    ASSUME KnownInv, NEW x \in Headers, PutHeader(x)
    PROVE  KnownInv'
<1>1. \A y \in Headers : Work[y] \in Nat
  BY TreeAssumption DEF TreeAssumption
<1>2. known' \subseteq Headers /\ Genesis \in known' /\ htip \in Headers
  BY DEF KnownInv, PutHeader
<1>3. CASE Taken(x)
  <2>1. known' = known \cup {x} /\ htip' = IF Work[x] > Work[htip] THEN x ELSE htip
    BY <1>3 DEF PutHeader
  <2> QED
    BY <1>1, <1>2, <2>1 DEF KnownInv
<1>4. CASE ~Taken(x)
  BY <1>4 DEF KnownInv, PutHeader
<1> QED
  BY <1>3, <1>4

LEMMA ReorganizeKeeps ==
    ASSUME SearchInv, NEW q \in Peers, NEW x \in RemoteTips, Reorganize(q, x)
    PROVE  SearchInv'
<1>1. x \in Headers
  BY TipsAssumption DEF TipsAssumption
<1>2. /\ rtip' = [rtip EXCEPT ![q] = x]
      /\ index' = [index EXCEPT ![q] = [k \in Heights |-> IF k <= Height[x] THEN OnChain(x)[k] ELSE index[q][k]]]
      /\ h' = [h EXCEPT !.quiet = h.quiet /\ headerSync # q]
      /\ UNCHANGED <<known, htip, headerSync, fails>>
  BY DEF Reorganize, local
<1>3. KnownInv'
  BY <1>2 DEF SearchInv, KnownInv
<1>4. IndexInv'
  <2>1. /\ rtip \in [Peers -> Headers] /\ index \in [Peers -> [Heights -> Headers \cup {None}]]
        /\ Height[x] \in Nat /\ OnChain(x) \in [Heights -> Headers \cup {None}]
        /\ 0 \in Heights /\ Height[x] \in Heights
    BY <1>1, ChainInIndex DEF SearchInv, IndexInv, Heights
  <2>2. rtip' \in [Peers -> Headers] /\ index' \in [Peers -> [Heights -> Headers \cup {None}]]
    BY <1>1, <1>2, <2>1
  <2>3. ASSUME NEW p \in Peers
        PROVE  index'[p][0] = Genesis /\ index'[p][Height[rtip'[p]]] = rtip'[p]
    <3>1. CASE p = q
      <4>1. index'[p] = [k \in Heights |-> IF k <= Height[x] THEN OnChain(x)[k] ELSE index[q][k]]
        BY <1>2, <2>1, <3>1
      <4>2. rtip'[p] = x
        BY <1>2, <2>1, <3>1
      <4>3. 0 <= Height[x] /\ Height[x] <= Height[x]
        BY <2>1
      <4> QED
        BY <1>1, <2>1, <4>1, <4>2, <4>3, ChainInIndex
    <3>2. CASE p # q
      <4>1. index'[p] = index[p] /\ rtip'[p] = rtip[p]
        BY <1>2, <2>1, <3>2
      <4> QED
        BY <4>1 DEF SearchInv, IndexInv
    <3> QED
      BY <3>1, <3>2
  <2> QED
    BY <2>2, <2>3 DEF IndexInv
<1>5. /\ DOMAIN h' = DOMAIN h /\ h'.quiet = (h.quiet /\ headerSync # q)
      /\ h'.phase = h.phase /\ h'.at = h.at /\ h'.have = h.have /\ h'.donthave = h.donthave
      /\ h'.received = h.received
  <2>1. DOMAIN h = DOMAIN NoSync
    BY DEF SearchInv, DownloadType
  <2> QED
    BY <1>2, <2>1, FieldsOfNoSync
<1>6. DownloadType'
  BY <1>2, <1>5 DEF SearchInv, DownloadType
<1>7. ASSUME h'.phase \in Searching, h'.quiet
      PROVE  Bounds(headerSync, h)'
  <2>1. h.phase \in Searching /\ h.quiet /\ headerSync # q /\ headerSync \in Peers
    BY <1>5, <1>7 DEF SearchInv, DownloadType, Searching
  <2>2. index'[headerSync] = index[headerSync] /\ rtip'[headerSync] = rtip[headerSync]
    BY <1>2, <2>1
  <2>3. Bounds(headerSync, h)
    BY <2>1 DEF SearchInv
  <2> QED
    BY <1>2, <1>5, <2>2, <2>3 DEF Bounds, Holds, Lacks
<1> QED
  BY <1>3, <1>4, <1>6, <1>7 DEF SearchInv

\* A step that leaves the search and what it rests on alone.
LEMMA OtherStepsKeep ==
    ASSUME SearchInv, KnownInv', UNCHANGED <<rtip, index>>, DownloadType',
           h'.phase \in Searching => ~h'.quiet \/ UNCHANGED <<h, headerSync, known>>
    PROVE  SearchInv'
<1>1. IndexInv'
  BY DEF SearchInv, IndexInv
<1>2. ASSUME h'.phase \in Searching, h'.quiet
      PROVE  Bounds(headerSync, h)'
  <2>1. UNCHANGED <<h, headerSync, known>>
    BY <1>2
  <2>2. Bounds(headerSync, h)
    BY <1>2, <2>1 DEF SearchInv
  <2> QED
    BY <2>1, <2>2 DEF Bounds, Holds, Lacks
<1> QED
  BY <1>1, <1>2 DEF SearchInv

LEMMA BroadcastKeeps ==
    ASSUME SearchInv, NEW x \in Headers, Broadcast(x)
    PROVE  SearchInv'
<1>1. PutHeader(x) /\ UNCHANGED <<rtip, index, headerSync, fails>>
  BY DEF Broadcast, remote
<1>2. KnownInv'
  BY <1>1, PutHeaderKeeps DEF SearchInv
<1>3. h' = [h EXCEPT !.quiet = FALSE] /\ DOMAIN h = DOMAIN NoSync
  BY DEF Broadcast, SearchInv, DownloadType
<1>4. /\ DOMAIN h' = DOMAIN NoSync /\ h'.quiet = FALSE /\ h'.phase = h.phase
      /\ h'.at = h.at /\ h'.have = h.have /\ h'.donthave = h.donthave /\ h'.received = h.received
  BY <1>3, FieldsOfNoSync
<1>5. DownloadType'
  BY <1>1, <1>4 DEF SearchInv, DownloadType
<1> QED
  BY <1>1, <1>2, <1>4, <1>5, OtherStepsKeep

\* The tip of a peer whose work is higher than any known is not known.
LEMMA StartKeeps ==
    ASSUME SearchInv, NEW p \in Peers, Start(p)
    PROVE  SearchInv'
<1>1. /\ UNCHANGED <<known, htip, rtip, index, fails>>
      /\ headerSync' = p /\ Work[htip] < Work[rtip[p]]
      /\ h' = [NoSync EXCEPT !.phase = "first", !.at = Height[htip],
                             !.donthave = Height[rtip[p]], !.max = Height[rtip[p]]]
  BY DEF Start, local, remote
<1>2. /\ DOMAIN h' = DOMAIN NoSync /\ h'.phase = "first" /\ h'.at = Height[htip]
      /\ h'.donthave = Height[rtip[p]] /\ h'.have = 0 /\ h'.quiet = TRUE
      /\ h'.received = <<>>
  BY <1>1 DEF NoSync
<1>3. KnownInv' /\ IndexInv'
  BY <1>1 DEF SearchInv, KnownInv, IndexInv
<1>4. DownloadType'
  <2>1. Height[htip] \in Nat /\ Height[rtip[p]] \in Nat
    BY TreeAssumption DEF TreeAssumption, Heights, SearchInv, KnownInv, IndexInv
  <2>2. headerSync' \in Peers /\ fails' \in Nat
    BY <1>1 DEF SearchInv, DownloadType
  <2>3. <<>> \in Seq(Headers)
    OBVIOUS
  <2>4. h'.received \in Seq(Headers)
    BY <1>2, <2>3
  <2>5. h'.phase # "put" /\ h'.phase \in Phases /\ h'.quiet \in BOOLEAN
    BY <1>2 DEF Phases
  <2>6. h'.have \in Nat /\ h'.donthave \in Nat /\ h'.at \in Nat
    BY <1>2, <2>1
  <2> QED
    BY <1>2, <2>2, <2>4, <2>5, <2>6 DEF DownloadType
<1>5. rtip[p] \notin known
  <2>1. Work[rtip[p]] \in Nat /\ Work[htip] \in Nat
    BY TreeAssumption DEF TreeAssumption, SearchInv, KnownInv, IndexInv
  <2> QED
    BY <1>1, <2>1 DEF SearchInv, KnownInv
<1>6. Bounds(headerSync, h)'
  BY <1>1, <1>2, <1>5 DEF Bounds
<1> QED
  BY <1>3, <1>4, <1>6 DEF SearchInv

\* What a quiet request tells: the entry of the index, None beyond it.
LEMMA AnswerProperties ==
    ASSUME SearchInv, NEW x \in Headers \cup {None}, headerSync \in Peers,
           Answers(headerSync, x)
    PROVE  /\ UNCHANGED <<known, htip, rtip, index>> /\ fails' \in Nat
           /\ fails' = fails => /\ h.at \in Heights => x = index[headerSync][h.at]
                                /\ h.at \notin Heights => x = None
                                /\ x \in known => Holds(headerSync, h.at)
                                /\ x \notin known => Lacks(headerSync, h.at)
<1>1. UNCHANGED <<known, htip, rtip, index>> /\ fails \in Nat
  BY DEF Answers, local, remote, SearchInv, DownloadType
<1>2. fails' \in Nat
  BY <1>1 DEF Answers
<1>3. ASSUME fails' = fails
      PROVE  x = IF h.at \in Heights THEN index[headerSync][h.at] ELSE None
  BY <1>1, <1>3 DEF Answers
<1>4. None \notin known
  BY NoneIsUnknown DEF SearchInv
<1> QED
  BY <1>1, <1>2, <1>3, <1>4 DEF Holds, Lacks

\* After a step of the search what is left to show is what it says of the bounds.
LEMMA SearchStepKeeps ==
    ASSUME SearchInv, UNCHANGED <<known, htip, rtip, index, headerSync>>, fails' \in Nat,
           headerSync \in Peers, DOMAIN h' = DOMAIN NoSync, h'.phase \in Phases \ {"put"}, h'.quiet \in BOOLEAN,
           h'.at \in Nat, h'.have \in Nat, h'.donthave \in Nat, h'.received = h.received,
           h'.phase \in Searching /\ h'.quiet => Bounds(headerSync, h')
    PROVE  SearchInv'
<1>1. KnownInv' /\ IndexInv'
  BY DEF SearchInv, KnownInv, IndexInv
<1>2. DownloadType'
  BY DEF SearchInv, DownloadType
<1>3. h'.phase \in Searching /\ h'.quiet => Bounds(headerSync, h)'
  BY DEF Bounds, Holds, Lacks
<1> QED
  BY <1>1, <1>2, <1>3 DEF SearchInv

LEMMA FirstKeeps == ASSUME SearchInv, First PROVE SearchInv'
<1>1. /\ h.phase = "first" /\ headerSync \in Peers /\ DOMAIN h = DOMAIN NoSync /\ h.quiet \in BOOLEAN
      /\ h.at \in Nat /\ h.have \in Nat /\ h.donthave \in Nat
  BY DEF First, SearchInv, DownloadType
<1>2. PICK x \in Headers \cup {None} :
        /\ Answers(headerSync, x)
        /\ h' = LET s == [h EXCEPT !.quiet = h.quiet /\ fails' = fails]
                IN  IF x \in known THEN [s EXCEPT !.phase = "second", !.have = h.at, !.at = s.at + 1]
                    ELSE Narrowed([s EXCEPT !.phase = "search", !.donthave = h.at])
  BY DEF First
<1>3. /\ DOMAIN h' = DOMAIN NoSync /\ h'.received = h.received
      /\ h'.quiet = (h.quiet /\ fails' = fails)
      /\ x \in known => /\ h'.phase = "second" /\ h'.have = h.at /\ h'.at = h.at + 1
                        /\ h'.donthave = h.donthave
      /\ x \notin known => /\ h'.phase = "search" /\ h'.have = h.have /\ h'.donthave = h.at
                           /\ h'.at = Middle(h.have, h.at)
  BY <1>1, <1>2, FieldsOfNoSync DEF Narrowed
<1>4. UNCHANGED <<known, htip, rtip, index, headerSync>> /\ fails' \in Nat
  BY <1>2 DEF First, Answers, local, remote, SearchInv, DownloadType
<1>5. ASSUME h'.quiet
      PROVE  Bounds(headerSync, h')
  <2>1. /\ h.at \in Nat /\ h.have = 0 /\ fails' = fails
        /\ rtip[headerSync] \notin known /\ h.donthave = Height[rtip[headerSync]]
    BY <1>1, <1>3, <1>5 DEF SearchInv, Searching, Bounds
  <2>2. x \in known => Holds(headerSync, h.at)
    BY <1>1, <1>2, <2>1, AnswerProperties
  <2>3. CASE x \in known
    BY <1>3, <2>1, <2>2, <2>3 DEF Bounds
  <2>4. CASE x \notin known
    <3>1. Holds(headerSync, 0)
      BY <1>1, ChainInIndex, TreeAssumption DEF TreeAssumption, SearchInv, KnownInv, IndexInv, Holds
    <3>2. Lacks(headerSync, h.at)
      BY <1>1, <1>2, <2>1, <2>4, AnswerProperties
    <3>3. 0 < h.at
      BY <2>1, <3>1, <3>2 DEF Holds, Lacks
    <3> QED
      BY <1>3, <2>1, <2>4, <3>1, <3>2, <3>3 DEF Bounds
  <2> QED
    BY <2>3, <2>4
<1>6. /\ h'.phase \in Phases \ {"put"} /\ h'.quiet \in BOOLEAN
      /\ h'.at \in Nat /\ h'.have \in Nat /\ h'.donthave \in Nat
  <2>1. CASE x \in known
    BY <1>1, <1>3, <2>1 DEF Phases
  <2>2. CASE x \notin known
    BY <1>1, <1>3, <2>2, MiddleInNat DEF Phases
  <2> QED
    BY <2>1, <2>2
<1> QED
  BY <1>1, <1>3, <1>4, <1>5, <1>6, SearchStepKeeps

\* The bound above is the tip, which is unknown; that the height after the node's own is
\* below it is where stale entries would be in the way.
LEMMA SecondKeeps == ASSUME SearchInv, StaleEntriesAreUnknown, Second PROVE SearchInv'
<1>1. /\ h.phase = "second" /\ headerSync \in Peers /\ DOMAIN h = DOMAIN NoSync /\ h.quiet \in BOOLEAN
      /\ h.at \in Nat /\ h.have \in Nat /\ h.donthave \in Nat
  BY DEF Second, SearchInv, DownloadType
<1>2. PICK x \in Headers \cup {None} :
        /\ Answers(headerSync, x)
        /\ h' = LET s == [h EXCEPT !.phase = "search", !.quiet = h.quiet /\ fails' = fails]
                IN  Narrowed(IF x \in known THEN [s EXCEPT !.have = h.at]
                             ELSE [s EXCEPT !.donthave = h.at])
  BY DEF Second
<1>3. /\ DOMAIN h' = DOMAIN NoSync /\ h'.received = h.received
      /\ h'.quiet = (h.quiet /\ fails' = fails) /\ h'.phase = "search"
      /\ x \in known => /\ h'.have = h.at /\ h'.donthave = h.donthave
                        /\ h'.at = Middle(h.at, h.donthave)
      /\ x \notin known => /\ h'.have = h.have /\ h'.donthave = h.at
                           /\ h'.at = Middle(h.have, h.at)
  BY <1>1, <1>2, FieldsOfNoSync DEF Narrowed
<1>4. UNCHANGED <<known, htip, rtip, index, headerSync>> /\ fails' \in Nat
  BY <1>2 DEF Second, Answers, local, remote, SearchInv, DownloadType
<1>5. ASSUME h'.quiet
      PROVE  Bounds(headerSync, h')
  <2>1. /\ Holds(headerSync, h.have) /\ h.at = h.have + 1 /\ fails' = fails
        /\ rtip[headerSync] \notin known /\ h.donthave = Height[rtip[headerSync]]
    BY <1>1, <1>3, <1>5 DEF SearchInv, Searching, Bounds
  <2>2. h.have \in Nat /\ h.at \in Nat
    BY <2>1, TreeAssumption DEF Holds, Heights, TreeAssumption
  <2>3. CASE x \in known
    <3>1. Holds(headerSync, h.at)
      BY <1>1, <1>2, <2>1, <2>2, <2>3, AnswerProperties
    <3>2. h.donthave \in Nat /\ Lacks(headerSync, h.donthave)
      BY <1>1, <2>1, TreeAssumption DEF TreeAssumption, Heights, SearchInv, IndexInv, Lacks
    <3>3. h.at <= h.donthave
      BY <1>1, <2>1, <2>2, <3>1, <3>2 DEF StaleEntriesAreUnknown, Holds
    <3>4. h.at < h.donthave
      BY <2>2, <3>1, <3>2, <3>3 DEF Holds, Lacks
    <3> QED
      BY <1>3, <2>3, <3>1, <3>2, <3>4 DEF Bounds
  <2>4. CASE x \notin known
    <3>1. Lacks(headerSync, h.at)
      BY <1>1, <1>2, <2>1, <2>2, <2>4, AnswerProperties
    <3> QED
      BY <1>3, <2>1, <2>2, <2>4, <3>1 DEF Bounds
  <2> QED
    BY <2>3, <2>4
<1>6. /\ h'.phase \in Phases \ {"put"} /\ h'.quiet \in BOOLEAN
      /\ h'.at \in Nat /\ h'.have \in Nat /\ h'.donthave \in Nat
  <2>1. CASE x \in known
    BY <1>1, <1>3, <2>1, MiddleInNat DEF Phases
  <2>2. CASE x \notin known
    BY <1>1, <1>3, <2>2, MiddleInNat DEF Phases
  <2> QED
    BY <2>1, <2>2
<1> QED
  BY <1>1, <1>3, <1>4, <1>5, <1>6, SearchStepKeeps

LEMMA NoDownload ==
    /\ NoSync.phase = "none" /\ NoSync.quiet = TRUE
    /\ NoSync.have = 0 /\ NoSync.donthave = 0 /\ NoSync.at = 0 /\ NoSync.received = <<>>
BY DEF NoSync

\* A download that is over has nothing to answer for.
LEMMA EndKeeps ==
    ASSUME SearchInv, KnownInv', UNCHANGED <<rtip, index>>, fails' \in Nat, h' = NoSync
    PROVE  SearchInv'
<1>1. h'.phase = "none" /\ h'.quiet = TRUE
  BY NoDownload
<1>2. <<>> \in Seq(Headers)
  OBVIOUS
<1>3. h'.received \in Seq(Headers)
  BY <1>2, NoDownload
<1>4. h'.have \in Nat /\ h'.donthave \in Nat /\ h'.at \in Nat
  BY NoDownload
<1>5. DownloadType'
  BY <1>1, <1>3, <1>4 DEF DownloadType, Phases
<1> QED
  BY <1>1, <1>5, OtherStepsKeep DEF Searching

\* A step of the search: the peer is let go for a rejected hash, or the search goes on.
LetsGo == EndSync /\ UNCHANGED <<known, htip, rtip, index>> /\ fails' \in Nat

GoesOn(x) ==
    /\ Answers(headerSync, x) /\ UNCHANGED headerSync
    /\ h' = LET s == [h EXCEPT !.quiet = h.quiet /\ fails' = fails]
            IN  IF Met(h.have, h.donthave)
                THEN [s EXCEPT !.phase = "range", !.previous = x, !.at = s.at + 1]
                ELSE Narrowed(IF x \in known THEN [s EXCEPT !.have = h.at]
                              ELSE [s EXCEPT !.donthave = h.at])

LEMMA SearchCases ==
    ASSUME SearchInv, Search
    PROVE  LetsGo \/ \E x \in Headers \cup {None} : GoesOn(x)
<1>1. PICK x \in Headers \cup {None} :
        /\ Answers(headerSync, x)
        /\ IF x \in rejected /\ ~Met(h.have, h.donthave)
           THEN EndSync /\ gone' = gone \cup {headerSync}
           ELSE /\ h' = LET s == [h EXCEPT !.quiet = h.quiet /\ fails' = fails]
                        IN  IF Met(h.have, h.donthave)
                            THEN [s EXCEPT !.phase = "range", !.previous = x, !.at = s.at + 1]
                            ELSE Narrowed(IF x \in known THEN [s EXCEPT !.have = h.at]
                                          ELSE [s EXCEPT !.donthave = h.at])
                /\ UNCHANGED <<headerSync, gone>>
  BY DEF Search
<1>2. CASE x \in rejected /\ ~Met(h.have, h.donthave)
  <2>1. EndSync
    BY <1>1, <1>2
  <2>2. UNCHANGED <<known, htip, rtip, index>> /\ fails' \in Nat
    BY <1>1 DEF Answers, local, remote, SearchInv, DownloadType
  <2> QED
    BY <2>1, <2>2 DEF LetsGo
<1>3. CASE ~(x \in rejected /\ ~Met(h.have, h.donthave))
  BY <1>1, <1>3 DEF GoesOn
<1> QED
  BY <1>2, <1>3

\* A step of the search either halves what is between the bounds or, once they have met,
\* names the hash at the lower one.
LEMMA GoesOnFacts ==
    ASSUME SearchInv, h.phase = "search", NEW x \in Headers \cup {None}, GoesOn(x)
    PROVE  /\ SearchInv'
           /\ h'.phase = "range" /\ h'.quiet =>
                /\ h'.at \in Nat \ {0} /\ Holds(headerSync, h'.at - 1)
                /\ h'.previous \in known /\ index[headerSync][h'.at - 1] = h'.previous
                /\ h'.at <= Height[rtip[headerSync]] => index[headerSync][h'.at] \notin known
<1>1. /\ h.phase = "search" /\ headerSync \in Peers /\ DOMAIN h = DOMAIN NoSync /\ h.quiet \in BOOLEAN
      /\ h.at \in Nat /\ h.have \in Nat /\ h.donthave \in Nat
  BY DEF SearchInv, DownloadType
<1>2. /\ Answers(headerSync, x) /\ UNCHANGED headerSync
      /\ h' = LET s == [h EXCEPT !.quiet = h.quiet /\ fails' = fails]
              IN  IF Met(h.have, h.donthave)
                  THEN [s EXCEPT !.phase = "range", !.previous = x, !.at = s.at + 1]
                  ELSE Narrowed(IF x \in known THEN [s EXCEPT !.have = h.at]
                                ELSE [s EXCEPT !.donthave = h.at])
  BY DEF GoesOn
<1>3. /\ DOMAIN h' = DOMAIN NoSync /\ h'.received = h.received
      /\ h'.quiet = (h.quiet /\ fails' = fails)
      /\ Met(h.have, h.donthave) => h'.phase = "range" /\ h'.previous = x /\ h'.at = h.at + 1
      /\ Met(h.have, h.donthave) => h'.have = h.have /\ h'.donthave = h.donthave
      /\ ~Met(h.have, h.donthave) => h'.phase = "search"
      /\ ~Met(h.have, h.donthave) /\ x \in known =>
            h'.have = h.at /\ h'.donthave = h.donthave /\ h'.at = Middle(h.at, h.donthave)
      /\ ~Met(h.have, h.donthave) /\ x \notin known =>
            h'.have = h.have /\ h'.donthave = h.at /\ h'.at = Middle(h.have, h.at)
  BY <1>1, <1>2, FieldsOfNoSync DEF Narrowed
<1>4. UNCHANGED <<known, htip, rtip, index, headerSync>> /\ fails' \in Nat
  BY <1>2 DEF Answers, local, remote, SearchInv, DownloadType
<1>5. /\ h'.phase \in Phases \ {"put"} /\ h'.quiet \in BOOLEAN
      /\ h'.at \in Nat /\ h'.have \in Nat /\ h'.donthave \in Nat
  <2>1. CASE Met(h.have, h.donthave)
    BY <1>1, <1>3, <2>1 DEF Phases
  <2>2. CASE ~Met(h.have, h.donthave)
    BY <1>1, <1>3, <2>2, MiddleInNat DEF Phases
  <2> QED
    BY <2>1, <2>2
<1>6. ASSUME h'.quiet
      PROVE  /\ h.have \in Nat /\ h.donthave \in Nat /\ h.at \in Nat /\ fails' = fails
             /\ Holds(headerSync, h.have) /\ Lacks(headerSync, h.donthave)
             /\ h.have < h.donthave /\ h.at = Middle(h.have, h.donthave)
  <2>1. /\ Holds(headerSync, h.have) /\ Lacks(headerSync, h.donthave) /\ fails' = fails
        /\ h.have < h.donthave /\ h.donthave \in Nat /\ h.at = Middle(h.have, h.donthave)
    BY <1>1, <1>3, <1>6 DEF SearchInv, Searching, Bounds
  <2>2. h.have \in Nat
    BY <2>1, TreeAssumption DEF Holds, Heights, TreeAssumption
  <2> QED
    BY <2>1, <2>2, MiddleProperties
<1>7. ASSUME h'.quiet
      PROVE  /\ x \in known => Holds(headerSync, h.at)
             /\ x \notin known => Lacks(headerSync, h.at)
             /\ h.at \in Heights => x = index[headerSync][h.at]
  BY <1>1, <1>2, <1>6, <1>7, AnswerProperties
<1>8. ASSUME h'.quiet, ~Met(h.have, h.donthave)
      PROVE  Bounds(headerSync, h')
  <2>1. h.have < h.at /\ h.at < h.donthave
    BY <1>6, <1>8, MiddleProperties DEF Met
  <2>2. CASE x \in known
    BY <1>3, <1>6, <1>7, <1>8, <2>1, <2>2 DEF Bounds
  <2>3. CASE x \notin known
    BY <1>3, <1>6, <1>7, <1>8, <2>1, <2>3 DEF Bounds
  <2> QED
    BY <2>2, <2>3
<1>9. ASSUME h'.quiet, Met(h.have, h.donthave)
      PROVE  /\ h'.at \in Nat \ {0} /\ Holds(headerSync, h'.at - 1)
             /\ h'.previous \in known /\ index[headerSync][h'.at - 1] = h'.previous
             /\ h'.at <= Height[rtip[headerSync]] => index[headerSync][h'.at] \notin known
  <2>1. h.at = h.have /\ h.have + 1 = h.donthave
    BY <1>6, <1>9, MiddleProperties DEF Met
  <2>2. h'.previous = x /\ h'.at = h.donthave /\ h'.at - 1 = h.at
    BY <1>3, <1>6, <1>9, <2>1
  <2>3. x \in known /\ x = index[headerSync][h.at]
    BY <1>6, <1>7, <1>9, <2>1 DEF Holds
  <2>4. h.donthave <= Height[rtip[headerSync]] => h.donthave \in Heights
    BY <1>1, TreeAssumption DEF TreeAssumption, Heights, SearchInv, IndexInv
  <2>5. h'.at \in Nat \ {0} /\ Holds(headerSync, h'.at - 1)
    BY <1>6, <1>9, <2>1, <2>2
  <2> QED
    BY <1>6, <1>9, <2>2, <2>3, <2>4, <2>5 DEF Lacks
<1>10. SearchInv'
  <2>1. h'.phase \in Searching => ~Met(h.have, h.donthave)
    BY <1>3 DEF Searching
  <2> QED
    BY <1>1, <1>3, <1>4, <1>5, <1>8, <2>1, SearchStepKeeps
<1>11. h'.phase = "range" => Met(h.have, h.donthave)
  BY <1>3
<1> QED
  BY <1>9, <1>10, <1>11

LEMMA SearchFacts ==
    ASSUME SearchInv, Search
    PROVE  /\ SearchInv'
           /\ h'.phase = "range" /\ h'.quiet =>
                /\ h'.at \in Nat \ {0} /\ Holds(headerSync, h'.at - 1)
                /\ h'.previous \in known /\ index[headerSync][h'.at - 1] = h'.previous
                /\ h'.at <= Height[rtip[headerSync]] => index[headerSync][h'.at] \notin known
<1>1. CASE LetsGo
  <2>1. h' = NoSync /\ KnownInv'
    BY <1>1 DEF LetsGo, EndSync, SearchInv, KnownInv
  <2> QED
    BY <1>1, <2>1, EndKeeps, NoDownload DEF LetsGo
<1>2. ASSUME NEW x \in Headers \cup {None}, GoesOn(x)
      PROVE  /\ SearchInv'
             /\ h'.phase = "range" /\ h'.quiet =>
                  /\ h'.at \in Nat \ {0} /\ Holds(headerSync, h'.at - 1)
                  /\ h'.previous \in known /\ index[headerSync][h'.at - 1] = h'.previous
                  /\ h'.at <= Height[rtip[headerSync]] => index[headerSync][h'.at] \notin known
  <2>1. h.phase = "search"
    BY DEF Search
  <2> QED
    BY <1>2, <2>1, GoesOnFacts
<1> QED
  BY <1>1, <1>2, SearchCases

\* What a peer sends for a height: its block, behind the uncles.
Group(p, k) == IF index[p][k] = None THEN <<>> ELSE Append(Uncles[index[p][k]], index[p][k])

\* behind[k] is what is sent for the heights from k to up, the last of the range.
Behind(p, from, up, behind) ==
    /\ up \in Heights
    /\ \A k \in from .. up + 1 : behind[k] \in Seq(Headers)
    /\ behind[up + 1] = <<>>
    /\ \A k \in from .. up : behind[k] = Group(p, k) \o behind[k + 1]

LEMMA GroupType ==
    ASSUME IndexInv, NEW p \in Peers, NEW k \in Heights
    PROVE  Group(p, k) \in Seq(Headers)
<1>1. index[p][k] \in Headers \cup {None} /\ Uncles \in [Headers -> Seq(Headers)]
  BY TreeAssumption DEF IndexInv, TreeAssumption
<1>2. CASE index[p][k] = None
  <2>1. <<>> \in Seq(Headers)
    OBVIOUS
  <2> QED
    BY <1>2, <2>1 DEF Group
<1>3. CASE index[p][k] # None
  <2>1. index[p][k] \in Headers /\ Uncles[index[p][k]] \in Seq(Headers)
    BY <1>1, <1>3
  <2>2. Append(Uncles[index[p][k]], index[p][k]) \in Seq(Headers)
    BY <2>1
  <2> QED
    BY <1>3, <2>2 DEF Group
<1> QED
  BY <1>2, <1>3

\* What a peer sends for a range are the groups of its heights, one behind the other.
LEMMA ByRangeIs ==
    ASSUME IndexInv, NEW p \in Peers, NEW from \in Nat
    PROVE  /\ ByRange(p, from) \in Seq(Headers)
           /\ from <= MaxHeight =>
                \E up, behind : /\ from <= up /\ Behind(p, from, up, behind)
                                            /\ ByRange(p, from) = behind[from]
<1> DEFINE up == IF from + MaxHeaders - 1 <= MaxHeight THEN from + MaxHeaders - 1 ELSE MaxHeight
           at == [i \in 1 .. up - from + 1 |-> index[p][from + i - 1]]
           sent == [i \in DOMAIN at |-> IF at[i] = None THEN <<>> ELSE Append(Uncles[at[i]], at[i])]
           n == IF up - from + 1 < 0 THEN 0 ELSE up - from + 1
<1>1. /\ up \in Int /\ up <= MaxHeight /\ MaxHeight \in Nat
      /\ from <= MaxHeight => from <= up /\ up \in Nat
  BY TreeAssumption, RangeAssumption DEF TreeAssumption, RangeAssumption
<1>2. ByRange(p, from) = FlattenSeq(sent)
  BY DEF ByRange
<1> HIDE DEF up
<1>3. /\ n \in Nat /\ 1 .. n = 1 .. up - from + 1 /\ (from <= MaxHeight => n = up - from + 1)
      /\ \A i \in 1 .. n : from + i - 1 \in Heights
  BY <1>1 DEF Heights
<1>4. sent = [i \in 1 .. n |-> Group(p, from + i - 1)]
  <2>1. DOMAIN at = 1 .. n /\ \A i \in 1 .. n : at[i] = index[p][from + i - 1]
    BY <1>3
  <2> HIDE DEF at, n
  <2> QED
    BY <2>1 DEF Group
<1> HIDE DEF n, sent
<1>5. sent \in [1 .. n -> Seq(Headers)] /\ \A i \in 1 .. n : sent[i] = Group(p, from + i - 1)
  BY <1>3, <1>4, GroupType
<1>6. sent \in Seq(Seq(Headers)) /\ Len(sent) = n
  BY <1>3, <1>5, IsASeq
<1>7. PICK r : /\ r \in [1 .. n + 1 -> Seq(Headers)] /\ r[n + 1] = <<>>
               /\ \A k \in 1 .. n : r[k] = sent[k] \o r[k + 1]
               /\ FlattenSeq(sent) = r[1]
  BY <1>6, FlattenFromStart
<1>8. ByRange(p, from) \in Seq(Headers)
  <2>1. 1 \in 1 .. n + 1
    BY <1>3
  <2> QED
    BY <1>2, <1>7, <2>1
<1>9. ASSUME from <= MaxHeight
      PROVE  \E u, behind : /\ from <= u /\ Behind(p, from, u, behind)
                                        /\ ByRange(p, from) = behind[from]
  <2> DEFINE behind == [k \in from .. up + 1 |-> r[k - from + 1]]
  <2>1. up \in Heights /\ from <= up /\ up \in Nat /\ n = up - from + 1
    BY <1>1, <1>3, <1>9 DEF Heights
  <2>2. ASSUME NEW k \in from .. up + 1
        PROVE  behind[k] = r[k - from + 1] /\ k - from + 1 \in 1 .. n + 1
    BY <2>1
  <2>3. behind[up + 1] = <<>> /\ behind[from] = r[1]
    <3>1. up + 1 - from + 1 = n + 1 /\ from - from + 1 = 1
      BY <2>1
    <3>2. up + 1 \in from .. up + 1 /\ from \in from .. up + 1
      BY <2>1
    <3>3. behind[up + 1] = r[up + 1 - from + 1] /\ behind[from] = r[from - from + 1]
      <4> HIDE DEF behind
      <4> QED
        BY <2>1, <2>2, <3>2
    <3> QED
      BY <1>7, <3>1, <3>3
  <2>4. ASSUME NEW k \in from .. up
        PROVE  behind[k] = Group(p, k) \o behind[k + 1]
    <3>1. /\ k - from + 1 \in 1 .. n /\ k + 1 - from + 1 = (k - from + 1) + 1
          /\ from + (k - from + 1) - 1 = k
          /\ k \in from .. up + 1 /\ k + 1 \in from .. up + 1
      BY <2>1
    <3>2. behind[k] = r[k - from + 1] /\ behind[k + 1] = r[(k - from + 1) + 1]
      BY <2>2, <3>1
    <3> HIDE DEF behind
    <3>3. sent[k - from + 1] = Group(p, k)
      BY <1>5, <3>1
    <3> QED
      BY <1>7, <3>1, <3>2, <3>3
  <2>5. Behind(p, from, up, behind)
    <3>1. \A k \in from .. up + 1 : behind[k] \in Seq(Headers)
      BY <1>7, <2>2
    <3> HIDE DEF behind
    <3> QED
      BY <2>1, <2>3, <2>4, <3>1 DEF Behind
  <2> HIDE DEF behind
  <2> QED
    BY <1>2, <1>7, <2>1, <2>3, <2>5
<1> QED
  BY <1>8, <1>9

LEMMA AskRangeKeeps == ASSUME SearchInv, AskRange PROVE SearchInv'
<1>1. /\ UNCHANGED <<known, htip, rtip, index>> /\ DOMAIN h = DOMAIN NoSync /\ h.phase = "range"
      /\ h.at \in Nat /\ headerSync \in Peers /\ fails \in Nat
  BY DEF AskRange, local, remote, SearchInv, DownloadType
<1>2. fails' \in Nat
  BY <1>1 DEF AskRange
<1>3. KnownInv'
  BY <1>1 DEF SearchInv, KnownInv
<1>4. CASE h' = NoSync
  BY <1>1, <1>2, <1>3, <1>4, EndKeeps
<1>5. CASE /\ ByRange(headerSync, h.at) # <<>> /\ headerSync' = headerSync
           /\ h' = [h EXCEPT !.phase = "put", !.received = ByRange(headerSync, h.at), !.uncles = 0]
  <2>1. /\ DOMAIN h' = DOMAIN NoSync /\ h'.phase = "put" /\ h'.quiet = h.quiet
        /\ h'.at = h.at /\ h'.have = h.have /\ h'.donthave = h.donthave
        /\ h'.received = ByRange(headerSync, h.at)
    BY <1>1, <1>5, FieldsOfNoSync
  <2>2. ByRange(headerSync, h.at) \in Seq(Headers)
    BY <1>1, ByRangeIs DEF SearchInv
  <2>3. h'.received \in Seq(Headers) /\ h'.received # <<>>
    BY <1>5, <2>1, <2>2
  <2>4. h.quiet \in BOOLEAN /\ h.at \in Nat /\ h.have \in Nat /\ h.donthave \in Nat
    BY DEF SearchInv, DownloadType
  <2>5. DownloadType'
    BY <1>1, <1>2, <1>5, <2>1, <2>3, <2>4 DEF DownloadType, Phases
  <2> QED
    BY <1>1, <1>3, <2>1, <2>5, OtherStepsKeep DEF Searching
<1> QED
  BY <1>4, <1>5 DEF AskRange, EndSync

\* What follows a header of a packet: the next one, the next range, or the end.
Going(s) ==
    /\ DOMAIN s = DOMAIN NoSync /\ s.phase = "put"
    /\ s.quiet \in BOOLEAN /\ s.at \in Nat /\ s.have \in Nat /\ s.donthave \in Nat
    /\ s.received \in Seq(Headers)

LEMMA MoreProperties ==
    ASSUME NEW s, Going(s), More(s) # NoSync
    PROVE  LET m == More(s)
           IN  /\ DOMAIN m = DOMAIN NoSync /\ m.phase \in {"put", "range"}
               /\ m.quiet \in BOOLEAN /\ m.at \in Nat /\ m.have \in Nat /\ m.donthave \in Nat
               /\ m.received \in Seq(Headers) /\ (m.phase = "put" => m.received # <<>>)
               /\ m.max = s.max /\ m.previous = s.previous
<1>1. CASE s.received # <<>>
  <2>1. More(s) = s
    BY <1>1 DEF More
  <2> QED
    BY <1>1, <2>1 DEF Going
<1>2. CASE s.received = <<>>
  <2>1. More(s) = [s EXCEPT !.phase = "range"]
    BY <1>2 DEF More
  <2> DEFINE m == [s EXCEPT !.phase = "range"]
  <2>2. /\ DOMAIN m = DOMAIN NoSync /\ m.phase = "range" /\ m.quiet = s.quiet /\ m.at = s.at
        /\ m.have = s.have /\ m.donthave = s.donthave /\ m.received = s.received
        /\ m.max = s.max /\ m.previous = s.previous
    BY FieldsOfNoSync DEF Going
  <2> HIDE DEF m
  <2> QED
    BY <2>1, <2>2 DEF Going, m
<1> QED
  BY <1>1, <1>2

\* It ends the download only behind the last header received, at the height it was to reach.
LEMMA MoreEnds ==
    ASSUME NEW s, Going(s), More(s) = NoSync
    PROVE  s.received = <<>> /\ ~Left(s)
<1>1. s # NoSync /\ [s EXCEPT !.phase = "range"] # NoSync
  <2>1. s.phase = "put" /\ [s EXCEPT !.phase = "range"].phase = "range"
    BY FieldsOfNoSync DEF Going
  <2> QED
    BY <2>1, NoDownload
<1> QED
  BY <1>1 DEF More

LEMMA MoreKeeps ==
    ASSUME NEW s, Going(s), More(s) # NoSync
    PROVE  LET m == More(s)
           IN  /\ m.max = s.max /\ m.at = s.at /\ m.previous = s.previous /\ m.uncles = s.uncles
               /\ m.phase = "put" => m.received = s.received /\ s.received # <<>>
<1>1. CASE s.received # <<>>
  BY <1>1 DEF More
<1>2. CASE s.received = <<>>
  <2>1. More(s) = [s EXCEPT !.phase = "range"]
    BY <1>2 DEF More
  <2> DEFINE m == [s EXCEPT !.phase = "range"]
  <2>2. /\ m.phase = "range" /\ m.max = s.max /\ m.at = s.at
        /\ m.previous = s.previous /\ m.uncles = s.uncles
    BY FieldsOfNoSync DEF Going
  <2> HIDE DEF m
  <2> QED
    BY <2>1, <2>2 DEF m
<1> QED
  BY <1>1, <1>2

LEMMA PutKeeps == ASSUME SearchInv, Put PROVE SearchInv'
<1>1. /\ h.phase = "put" /\ DOMAIN h = DOMAIN NoSync /\ h.quiet \in BOOLEAN /\ headerSync \in Peers
      /\ h.at \in Nat /\ h.have \in Nat /\ h.donthave \in Nat /\ fails \in Nat
      /\ h.received \in Seq(Headers) /\ h.received # <<>>
  BY DEF Put, SearchInv, DownloadType
<1> DEFINE x == Head(h.received)
           rest == [h EXCEPT !.received = Tail(h.received)]
           chain == [rest EXCEPT !.at = rest.at + 1, !.previous = x, !.uncles = 0]
           uncle == [rest EXCEPT !.uncles = rest.uncles + 1]
<1>2. x \in Headers /\ Tail(h.received) \in Seq(Headers)
  BY <1>1
<1>3. PutHeader(x) /\ UNCHANGED <<rtip, index, fails>>
  BY DEF Put, remote
<1>4. KnownInv'
  BY <1>2, <1>3, PutHeaderKeeps DEF SearchInv
<1>5. /\ h' \in {NoSync, More(chain), More(uncle)}
      /\ headerSync' = IF h' = NoSync THEN None ELSE headerSync
  BY DEF Put
<1>6. /\ DOMAIN rest = DOMAIN NoSync /\ rest.phase = "put" /\ rest.quiet = h.quiet
      /\ rest.at = h.at /\ rest.have = h.have /\ rest.donthave = h.donthave
      /\ rest.received = Tail(h.received)
  BY <1>1, FieldsOfNoSync
<1> HIDE DEF x, rest
<1>7. /\ DOMAIN chain = DOMAIN NoSync /\ chain.phase = "put" /\ chain.quiet = h.quiet
      /\ chain.at = h.at + 1 /\ chain.have = h.have /\ chain.donthave = h.donthave
      /\ chain.received = Tail(h.received)
  BY <1>6, FieldsOfNoSync
<1>8. /\ DOMAIN uncle = DOMAIN NoSync /\ uncle.phase = "put" /\ uncle.quiet = h.quiet
      /\ uncle.at = h.at /\ uncle.have = h.have /\ uncle.donthave = h.donthave
      /\ uncle.received = Tail(h.received)
  BY <1>6, FieldsOfNoSync
<1> HIDE DEF chain, uncle
<1>9. Going(chain) /\ Going(uncle)
  BY <1>1, <1>2, <1>7, <1>8 DEF Going
<1>10. CASE h' = NoSync
  BY <1>1, <1>3, <1>4, <1>10, EndKeeps
<1>11. CASE h' # NoSync
  <2>1. /\ DOMAIN h' = DOMAIN NoSync /\ h'.phase \in {"put", "range"}
        /\ h'.quiet \in BOOLEAN /\ h'.at \in Nat /\ h'.have \in Nat /\ h'.donthave \in Nat
        /\ h'.received \in Seq(Headers) /\ (h'.phase = "put" => h'.received # <<>>)
    BY <1>5, <1>9, <1>11, MoreProperties
  <2>2. headerSync' \in Peers /\ fails' \in Nat
    BY <1>1, <1>3, <1>5, <1>11
  <2>3. DownloadType'
    BY <2>1, <2>2 DEF DownloadType, Phases
  <2> QED
    BY <1>3, <1>4, <2>1, <2>3, OtherStepsKeep DEF Searching
<1> QED
  BY <1>10, <1>11

\* The download of transactions leaves the headers alone.
LEMMA BlocksKeep ==
    ASSUME SearchInv, UNCHANGED <<known, htip, rtip, index, headerSync, h>>, fails' \in Nat
    PROVE  SearchInv'
<1>1. KnownInv' /\ DownloadType'
  BY DEF SearchInv, KnownInv, DownloadType
<1> QED
  BY <1>1, OtherStepsKeep

LEMMA StartTxKeeps == ASSUME SearchInv, NEW p \in Peers, StartTx(p) PROVE SearchInv'
<1>1. UNCHANGED <<known, htip, rtip, index, headerSync, h>> /\ fails' \in Nat
  BY DEF StartTx, local, remote, SearchInv, DownloadType
<1> QED
  BY <1>1, BlocksKeep

LEMMA GetTxBlocksKeeps == ASSUME SearchInv, GetTxBlocks PROVE SearchInv'
<1>1. fails \in Nat
  BY DEF SearchInv, DownloadType
<1>2. UNCHANGED <<known, htip, rtip, index, headerSync, h>> /\ fails' \in Nat
  BY <1>1 DEF GetTxBlocks, local, remote
<1> QED
  BY <1>2, BlocksKeep

LEMMA NextKeeps == SearchInv /\ StaleEntriesAreUnknown /\ [Next]_vars => SearchInv'
<1> SUFFICES ASSUME SearchInv, StaleEntriesAreUnknown, [Next]_vars PROVE SearchInv'
  OBVIOUS
<1>1. CASE UNCHANGED vars
  <2>1. UNCHANGED <<known, htip, rtip, index, headerSync, h, fails>>
    BY <1>1 DEF vars, local, remote
  <2> QED
    BY <2>1, BlocksKeep DEF SearchInv, DownloadType
<1> QED
  BY <1>1, StartKeeps, StartTxKeeps, ReorganizeKeeps, BroadcastKeeps, FirstKeeps, SecondKeeps,
     SearchFacts, AskRangeKeeps, PutKeeps, GetTxBlocksKeeps DEF Next

\* Only the step in which the bounds meet goes from the search to the download.
LEMMA CommonStep ==
    ASSUME SearchInv, [Next]_vars, h.phase = "search", h'.phase = "range"
    PROVE  Search
<1>1. \A p \in Peers : ~Start(p)
  BY DEF SearchInv, DownloadType, Start, NoSync
<1>2. \A p \in Peers : ~StartTx(p)
  BY DEF StartTx
<1>3. ~GetTxBlocks
  BY DEF GetTxBlocks
<1>4. ASSUME NEW p \in Peers, NEW x \in RemoteTips, Reorganize(p, x)
      PROVE  FALSE
  <2>1. h' = [h EXCEPT !.quiet = h.quiet /\ headerSync # p] /\ DOMAIN h = DOMAIN NoSync
    BY <1>4 DEF Reorganize, SearchInv, DownloadType
  <2>2. h'.phase = h.phase
    BY <2>1, FieldsOfNoSync
  <2> QED
    BY <2>2
<1>5. ASSUME NEW x \in Headers, Broadcast(x)
      PROVE  FALSE
  <2>1. h' = [h EXCEPT !.quiet = FALSE] /\ DOMAIN h = DOMAIN NoSync
    BY <1>5 DEF Broadcast, SearchInv, DownloadType
  <2>2. h'.phase = h.phase
    BY <2>1, FieldsOfNoSync
  <2> QED
    BY <2>2
<1>6. ~First /\ ~Second /\ ~AskRange /\ ~Put
  BY DEF First, Second, AskRange, Put
<1>7. ~UNCHANGED vars
  BY DEF vars
<1> QED
  BY <1>1, <1>2, <1>3, <1>4, <1>5, <1>6, <1>7 DEF Next

\* While the peer it asks stays as it is, no request fails and nothing is broadcast, the
\* search ends at the highest block of the peer's chain that the node knows, wherever the
\* chains part and however long they are.
THEOREM SearchFindsCommon == Spec /\ []StaleEntriesAreUnknown => CommonIsHighest
<1>1. SearchInv /\ [Next]_vars =>
        [h.phase = "search" /\ h'.phase = "range" /\ h'.quiet =>
           LET above == h'.at
           IN  /\ h'.previous \in known /\ index[headerSync][above - 1] = h'.previous
               /\ above <= Height[rtip[headerSync]] => index[headerSync][above] \notin known]_vars
  BY CommonStep, SearchFacts
<1> QED
  BY <1>1, InitSearch, NextKeeps, PTL DEF Spec, CommonIsHighest

-----------------------------------------------------------------------------
(***************************************************************************)
(* The download.                                                           *)
(***************************************************************************)

KnownClosed == \A x \in known \ {Genesis} : Parent[x] \in known
PathInv == \A p \in Peers : NamesChain(index[p], Height[rtip[p]])

\* Everything of the peer's chain below the place reached is known, and what comes next
\* has to follow the last of it.
Reached(p, s) ==
    /\ s.at \in Nat \ {0}
    /\ \A k \in 0 .. s.max : k < s.at => index[p][k] \in known
    /\ s.at <= s.max => s.previous = index[p][s.at - 1]

\* What is received and not put yet: the rest of the group of the height to come, and the
\* groups behind it.
Awaited(p, s) ==
    \E up, behind :
        LET g == Group(p, s.at)
        IN  /\ s.at <= up /\ Behind(p, s.at, up, behind)
            /\ s.uncles \in 0 .. Len(g) - 1
            /\ s.received = SubSeq(g, s.uncles + 1, Len(g)) \o behind[s.at + 1]

\* A download from a peer that has not moved since it began.
Download(p, s) ==
    /\ s.phase # "none" => s.max = Height[rtip[p]]
    /\ s.phase \in {"range", "put"} => Reached(p, s)
    /\ s.phase = "put" /\ s.at <= s.max => Awaited(p, s)

DownInv ==
    /\ KnownClosed /\ PathInv
    /\ h.quiet => Download(headerSync, h)

LEMMA InitDownload == Init => DownInv
<1> SUFFICES ASSUME Init PROVE DownInv
  OBVIOUS
<1>1. KnownClosed
  BY TipsAssumption, ChainIsOnePath DEF Init, TipsAssumption, OnePath, KnownClosed
<1>2. PathInv
  <2>1. rtip \in [Peers -> Headers] /\ index = [p \in Peers |-> OnChain(rtip[p])]
    BY TipsAssumption DEF Init, TipsAssumption
  <2> QED
    BY <2>1, ChainIsPath DEF PathInv
<1>3. Download(headerSync, h)
  BY NoDownload DEF Init, Download
<1> QED
  BY <1>1, <1>2, <1>3 DEF DownInv

\* Whatever is put, the known headers stay closed under predecessors.
LEMMA PutHeaderCloses ==
    ASSUME KnownInv, KnownClosed, NEW x \in Headers, PutHeader(x)
    PROVE  KnownClosed' /\ known \subseteq known' /\ (Taken(x) => x \in known')
BY DEF KnownInv, KnownClosed, PutHeader, Taken, Connected

\* What the node knows of a peer's chain goes down to its start.
LEMMA KnownBelow ==
    ASSUME KnownClosed, NEW p \in Peers, IndexInv, PathInv,
           NEW n \in 0 .. Height[rtip[p]], index[p][n] \in known
    PROVE  \A k \in 0 .. n : index[p][k] \in known
<1>1. n \in Nat /\ n <= Height[rtip[p]] /\ Height[rtip[p]] \in Nat
  BY TreeAssumption DEF TreeAssumption, Heights, IndexInv
<1>2. NamesChain(index[p], Height[rtip[p]])
  BY DEF PathInv
<1> DEFINE S == {i \in 0 .. n : index[p][n - i] \in known}
<1>3. 0 \in S
  <2>1. 0 \in 0 .. n /\ n - 0 = n
    BY <1>1
  <2> QED
    BY <2>1
<1>4. ASSUME NEW i \in 0 .. n - 1, i \in S
      PROVE  i + 1 \in S
  <2>1. /\ n - i \in 0 .. Height[rtip[p]] /\ n - i > 0 /\ i + 1 \in 0 .. n
        /\ (n - i) - 1 = n - (i + 1)
    BY <1>1
  <2>2. index[p][n - i] # Genesis /\ Parent[index[p][n - i]] = index[p][(n - i) - 1]
    BY <1>2, <2>1 DEF NamesChain
  <2>3. index[p][n - (i + 1)] \in known
    BY <1>4, <2>1, <2>2 DEF KnownClosed
  <2> QED
    BY <2>1, <2>3
<1>5. 0 .. n \subseteq S
  <2> HIDE DEF S
  <2> QED
    BY <1>1, <1>3, <1>4, CountingUp
<1>6. ASSUME NEW k \in 0 .. n
      PROVE  index[p][k] \in known
  <2>1. n - k \in 0 .. n /\ n - (n - k) = k
    BY <1>1
  <2>2. n - k \in S
    BY <1>5, <2>1
  <2> QED
    BY <2>1, <2>2
<1> QED
  BY <1>6

\* Steps that leave the peer asked, its index and the download as they are.
LEMMA DownloadGoesOn ==
    ASSUME DownInv, KnownClosed', PathInv', known \subseteq known', UNCHANGED headerSync,
           index'[headerSync] = index[headerSync], rtip'[headerSync] = rtip[headerSync],
           h'.phase = h.phase, h'.at = h.at, h'.max = h.max, h'.previous = h.previous,
           h'.uncles = h.uncles, h'.received = h.received, h'.quiet => h.quiet
    PROVE  DownInv'
<1> SUFFICES ASSUME h'.quiet PROVE Download(headerSync, h)'
  BY DEF DownInv
<1>1. Download(headerSync, h)
  BY DEF DownInv
<1>2. /\ h'.phase # "none" => h'.max = Height[rtip'[headerSync]]
      /\ h'.phase \in {"range", "put"} => Reached(headerSync, h)'
      /\ h'.phase = "put" /\ h'.at <= h'.max => Awaited(headerSync, h)'
  <2> DEFINE p == headerSync
  <2>1. \A k : Group(p, k)' = Group(p, k)
    BY DEF Group
  <2>2. Reached(p, h) => Reached(p, h)'
    BY DEF Reached
  <2>3. Awaited(p, h) => Awaited(p, h)'
    <3> SUFFICES ASSUME Awaited(p, h) PROVE Awaited(p, h)'
      OBVIOUS
    <3>1. PICK up, behind :
            /\ h.at <= up /\ Behind(p, h.at, up, behind)
            /\ h.uncles \in 0 .. Len(Group(p, h.at)) - 1
            /\ h.received = SubSeq(Group(p, h.at), h.uncles + 1, Len(Group(p, h.at))) \o behind[h.at + 1]
      BY DEF Awaited
    <3>2. Behind(p, h.at, up, behind)'
      BY <2>1, <3>1 DEF Behind
    <3>3. /\ h'.at <= up /\ h'.uncles \in 0 .. Len(Group(p, h.at)') - 1
          /\ h'.received = SubSeq(Group(p, h.at)', h'.uncles + 1, Len(Group(p, h.at)')) \o behind[h'.at + 1]
      BY <2>1, <3>1
    <3> QED
      BY <2>1, <3>1, <3>2, <3>3 DEF Awaited
  <2> QED
    BY <1>1, <2>2, <2>3 DEF Download
<1> QED
  BY <1>2 DEF Download

LEMMA ReorganizeDownload ==
    ASSUME SearchInv, DownInv, NEW q \in Peers, NEW x \in RemoteTips, Reorganize(q, x)
    PROVE  DownInv'
<1>1. x \in Headers
  BY TipsAssumption DEF TipsAssumption
<1>2. /\ rtip' = [rtip EXCEPT ![q] = x]
      /\ index' = [index EXCEPT ![q] = [k \in Heights |-> IF k <= Height[x] THEN OnChain(x)[k] ELSE index[q][k]]]
      /\ h' = [h EXCEPT !.quiet = h.quiet /\ headerSync # q]
      /\ UNCHANGED <<known, headerSync>>
  BY DEF Reorganize, local
<1>3. /\ rtip \in [Peers -> Headers] /\ index \in [Peers -> [Heights -> Headers \cup {None}]]
      /\ Height[x] \in Heights /\ MaxHeight \in Nat
  BY <1>1, TreeAssumption DEF TreeAssumption, SearchInv, IndexInv
<1>4. ASSUME NEW p \in Peers, p # q
      PROVE  index'[p] = index[p] /\ rtip'[p] = rtip[p]
  BY <1>2, <1>3, <1>4
<1>5. PathInv'
  <2> SUFFICES ASSUME NEW p \in Peers PROVE NamesChain(index'[p], Height[rtip'[p]])
    BY DEF PathInv
  <2>1. CASE p # q
    BY <1>4, <2>1 DEF DownInv, PathInv
  <2>2. CASE p = q
    <3>1. /\ rtip'[p] = x
          /\ index'[p] = [k \in Heights |-> IF k <= Height[x] THEN OnChain(x)[k] ELSE index[q][k]]
      BY <1>2, <1>3, <2>2
    <3>2. \A k \in 0 .. Height[x] : k \in Heights /\ k <= Height[x] /\ (k > 0 => k - 1 \in 0 .. Height[x])
      BY <1>3 DEF Heights
    <3>3. \A k \in 0 .. Height[x] : index'[p][k] = OnChain(x)[k]
      BY <3>1, <3>2
    <3>4. NamesChain(OnChain(x), Height[x])
      BY <1>1, ChainIsPath
    <3> QED
      BY <3>1, <3>2, <3>3, <3>4 DEF NamesChain
  <2> QED
    BY <2>1, <2>2
<1>6. /\ h'.quiet = (h.quiet /\ headerSync # q) /\ h'.phase = h.phase /\ h'.at = h.at /\ h'.max = h.max
      /\ h'.previous = h.previous /\ h'.uncles = h.uncles /\ h'.received = h.received
  <2>1. DOMAIN h = DOMAIN NoSync
    BY DEF SearchInv, DownloadType
  <2> QED
    BY <1>2, <2>1, FieldsOfNoSync
<1>7. KnownClosed'
  BY <1>2 DEF DownInv, KnownClosed
<1>8. CASE h.phase = "none"
  <2>1. Download(headerSync, h)'
    BY <1>6, <1>8 DEF Download
  <2> QED
    BY <1>5, <1>7, <2>1 DEF DownInv
<1>9. CASE h.phase # "none" /\ headerSync # q
  <2>1. headerSync \in Peers
    BY <1>9 DEF SearchInv, DownloadType
  <2> QED
    BY <1>2, <1>4, <1>5, <1>6, <1>7, <1>9, <2>1, DownloadGoesOn
<1>10. CASE headerSync = q
  BY <1>5, <1>6, <1>7, <1>10 DEF DownInv
<1> QED
  BY <1>8, <1>9, <1>10

LEMMA BroadcastDownload ==
    ASSUME SearchInv, DownInv, NEW x \in Headers, Broadcast(x)
    PROVE  DownInv'
<1>1. PutHeader(x) /\ UNCHANGED <<rtip, index>>
  BY DEF Broadcast, remote
<1>2. KnownClosed'
  BY <1>1, PutHeaderCloses DEF SearchInv, DownInv
<1>3. h' = [h EXCEPT !.quiet = FALSE] /\ DOMAIN h = DOMAIN NoSync
  BY DEF Broadcast, SearchInv, DownloadType
<1>4. h'.quiet = FALSE
  BY <1>3, FieldsOfNoSync
<1> QED
  BY <1>1, <1>2, <1>4 DEF DownInv, PathInv

LEMMA StartDownload ==
    ASSUME SearchInv, DownInv, NEW p \in Peers, Start(p)
    PROVE  DownInv'
<1>1. /\ UNCHANGED <<known, rtip, index>> /\ headerSync' = p
      /\ h' = [NoSync EXCEPT !.phase = "first", !.at = Height[htip],
                             !.donthave = Height[rtip[p]], !.max = Height[rtip[p]]]
  BY DEF Start, local, remote
<1>2. h'.phase = "first" /\ h'.max = Height[rtip[p]]
  BY <1>1 DEF NoSync
<1>3. Download(headerSync, h)'
  BY <1>1, <1>2 DEF Download
<1> QED
  BY <1>1, <1>3 DEF DownInv, KnownClosed, PathInv

\* The steps of the search before the last have nothing to say of the download yet.
LEMMA SearchingDownload ==
    ASSUME SearchInv, DownInv, UNCHANGED <<known, rtip, index, headerSync>>, h.phase # "none",
           h'.phase \in Searching, h'.max = h.max, h'.quiet => h.quiet
    PROVE  DownInv'
<1>1. KnownClosed' /\ PathInv'
  BY DEF DownInv, KnownClosed, PathInv
<1>2. h'.quiet => Download(headerSync, h)'
  BY DEF DownInv, Download, Searching
<1> QED
  BY <1>1, <1>2 DEF DownInv

LEMMA FirstDownload == ASSUME SearchInv, DownInv, First PROVE DownInv'
<1>1. h.phase = "first" /\ DOMAIN h = DOMAIN NoSync /\ h.quiet \in BOOLEAN
  BY DEF First, SearchInv, DownloadType
<1>2. PICK x \in Headers \cup {None} :
        /\ Answers(headerSync, x)
        /\ h' = LET s == [h EXCEPT !.quiet = h.quiet /\ fails' = fails]
                IN  IF x \in known THEN [s EXCEPT !.phase = "second", !.have = h.at, !.at = s.at + 1]
                    ELSE Narrowed([s EXCEPT !.phase = "search", !.donthave = h.at])
  BY DEF First
<1>3. h'.quiet = (h.quiet /\ fails' = fails) /\ h'.max = h.max /\ h'.phase \in {"second", "search"}
  BY <1>1, <1>2, FieldsOfNoSync DEF Narrowed
<1>4. UNCHANGED <<known, rtip, index, headerSync>>
  BY <1>2 DEF First, Answers, local, remote
<1> QED
  BY <1>1, <1>3, <1>4, SearchingDownload DEF Searching

LEMMA SecondDownload == ASSUME SearchInv, DownInv, Second PROVE DownInv'
<1>1. h.phase = "second" /\ DOMAIN h = DOMAIN NoSync /\ h.quiet \in BOOLEAN
  BY DEF Second, SearchInv, DownloadType
<1>2. PICK x \in Headers \cup {None} :
        /\ Answers(headerSync, x)
        /\ h' = LET s == [h EXCEPT !.phase = "search", !.quiet = h.quiet /\ fails' = fails]
                IN  Narrowed(IF x \in known THEN [s EXCEPT !.have = h.at]
                             ELSE [s EXCEPT !.donthave = h.at])
  BY DEF Second
<1>3. h'.quiet = (h.quiet /\ fails' = fails) /\ h'.max = h.max /\ h'.phase = "search"
  BY <1>1, <1>2, FieldsOfNoSync DEF Narrowed
<1>4. UNCHANGED <<known, rtip, index, headerSync>>
  BY <1>2 DEF Second, Answers, local, remote
<1> QED
  BY <1>1, <1>3, <1>4, SearchingDownload DEF Searching

LEMMA EndDownload ==
    ASSUME DownInv, KnownClosed', UNCHANGED <<rtip, index>>, h' = NoSync
    PROVE  DownInv'
<1>1. Download(headerSync, h)'
  BY NoDownload DEF Download
<1> QED
  BY <1>1 DEF DownInv, PathInv

\* The search hands over a place of the peer's chain, all of which below it is known.
LEMMA SearchDownload ==
    ASSUME SearchInv, StaleEntriesAreUnknown, DownInv, Search
    PROVE  DownInv'
<1>1. h.phase = "search" /\ DOMAIN h = DOMAIN NoSync /\ h.quiet \in BOOLEAN /\ headerSync \in Peers
  BY DEF Search, SearchInv, DownloadType
<1>2. CASE LetsGo
  <2>1. h' = NoSync /\ UNCHANGED <<known, rtip, index>>
    BY <1>2 DEF LetsGo, EndSync
  <2> QED
    BY <2>1, EndDownload DEF DownInv, KnownClosed
<1>3. ASSUME NEW x \in Headers \cup {None}, GoesOn(x)
      PROVE  /\ h'.quiet = (h.quiet /\ fails' = fails) /\ h'.max = h.max
             /\ h'.phase \in {"search", "range"}
             /\ UNCHANGED <<known, rtip, index, headerSync>>
  <2>1. h' = LET s == [h EXCEPT !.quiet = h.quiet /\ fails' = fails]
             IN  IF Met(h.have, h.donthave)
                 THEN [s EXCEPT !.phase = "range", !.previous = x, !.at = s.at + 1]
                 ELSE Narrowed(IF x \in known THEN [s EXCEPT !.have = h.at]
                               ELSE [s EXCEPT !.donthave = h.at])
    BY <1>3 DEF GoesOn
  <2>2. /\ h'.quiet = (h.quiet /\ fails' = fails) /\ h'.max = h.max
        /\ h'.phase \in {"search", "range"}
    BY <1>1, <2>1, FieldsOfNoSync DEF Narrowed
  <2>3. UNCHANGED <<known, rtip, index, headerSync>>
    BY <1>3 DEF GoesOn, Answers, local, remote
  <2> QED
    BY <2>2, <2>3
<1>4. LetsGo \/ /\ h'.quiet = (h.quiet /\ fails' = fails) /\ h'.max = h.max
                /\ h'.phase \in {"search", "range"}
                /\ UNCHANGED <<known, rtip, index, headerSync>>
  BY <1>3, SearchCases
<1>5. CASE ~LetsGo /\ h'.phase = "search"
  BY <1>1, <1>4, <1>5, SearchingDownload DEF Searching
<1>6. CASE ~LetsGo /\ h'.phase = "range"
  <2>1. ASSUME h'.quiet
        PROVE  Download(headerSync, h)'
    <3> DEFINE top == Height[rtip[headerSync]]
    <3>1. /\ h'.at \in Nat \ {0} /\ h'.previous = index[headerSync][h'.at - 1]
          /\ h'.at - 1 \in Heights /\ index[headerSync][h'.at - 1] \in known
      BY <1>6, <2>1, SearchFacts DEF Holds
    <3>2. top \in Nat
      BY <1>1, TreeAssumption DEF TreeAssumption, Heights, SearchInv, IndexInv
    <3>3. ~(h'.at - 1 > top)
      BY <1>1, <3>1 DEF StaleEntriesAreUnknown
    <3>4. h'.at - 1 \in 0 .. top
      BY <3>1, <3>2, <3>3
    <3>5. \A k \in 0 .. h'.at - 1 : index[headerSync][k] \in known
      BY <1>1, <3>1, <3>4, KnownBelow DEF SearchInv, DownInv
    <3>6. h'.max = top
      BY <1>1, <1>4, <1>6, <2>1 DEF DownInv, Download
    <3>7. \A k \in 0 .. top : k < h'.at => k \in 0 .. h'.at - 1
      BY <3>1, <3>2
    <3>8. Reached(headerSync, h)'
      BY <1>4, <1>6, <3>1, <3>5, <3>6, <3>7 DEF Reached
    <3> QED
      BY <1>4, <1>6, <3>6, <3>8 DEF Download
  <2>2. KnownClosed' /\ PathInv'
    BY <1>4, <1>6 DEF DownInv, KnownClosed, PathInv
  <2> QED
    BY <2>1, <2>2 DEF DownInv
<1> QED
  BY <1>2, <1>4, <1>5, <1>6

\* What comes for a range begins with the group of the height to come.
LEMMA AskRangeDownload == ASSUME SearchInv, DownInv, AskRange PROVE DownInv'
<1>1. /\ UNCHANGED <<known, rtip, index>> /\ DOMAIN h = DOMAIN NoSync /\ h.phase = "range"
      /\ h.at \in Nat /\ headerSync \in Peers
  BY DEF AskRange, local, remote, SearchInv, DownloadType
<1>2. KnownClosed' /\ PathInv'
  BY <1>1 DEF DownInv, KnownClosed, PathInv
<1>3. CASE h' = NoSync
  BY <1>1, <1>2, <1>3, EndDownload
<1>4. CASE /\ ByRange(headerSync, h.at) # <<>> /\ headerSync' = headerSync
           /\ h' = [h EXCEPT !.phase = "put", !.received = ByRange(headerSync, h.at), !.uncles = 0]
  <2>1. /\ h'.phase = "put" /\ h'.quiet = h.quiet /\ h'.at = h.at /\ h'.max = h.max
        /\ h'.previous = h.previous /\ h'.uncles = 0
        /\ h'.received = ByRange(headerSync, h.at)
    BY <1>1, <1>4, FieldsOfNoSync
  <2>2. ASSUME h'.quiet
        PROVE  Download(headerSync, h)'
    <3>1. h.max = Height[rtip[headerSync]] /\ Reached(headerSync, h)
      BY <1>1, <2>1, <2>2 DEF DownInv, Download
    <3>2. Reached(headerSync, h)'
      BY <1>1, <1>4, <2>1, <3>1 DEF Reached
    <3>3. ASSUME h.at <= h.max
          PROVE  Awaited(headerSync, h)'
      <4>1. /\ Height[rtip[headerSync]] \in 0 .. MaxHeight /\ MaxHeight \in Nat
            /\ NamesChain(index[headerSync], Height[rtip[headerSync]])
        BY <1>1, TreeAssumption DEF TreeAssumption, Heights, SearchInv, IndexInv, DownInv, PathInv
      <4>2. h.at \in 0 .. Height[rtip[headerSync]] /\ h.at <= MaxHeight /\ h.at \in Heights
        BY <1>1, <3>1, <3>3, <4>1 DEF Heights
      <4>3. PICK up, behind : /\ h.at <= up /\ Behind(headerSync, h.at, up, behind)
                                          /\ ByRange(headerSync, h.at) = behind[h.at]
        BY <1>1, <4>2, ByRangeIs DEF SearchInv
      <4> DEFINE a == index[headerSync][h.at]
                 g == Group(headerSync, h.at)
      <4>4. a \in Headers /\ Uncles[a] \in Seq(Headers) /\ a # None
        BY <4>1, <4>2, TreeAssumption DEF NamesChain, TreeAssumption
      <4>5. g = Append(Uncles[a], a)
        BY <4>4 DEF Group
      <4>6. Len(g) \in Nat \ {0} /\ SubSeq(g, 1, Len(g)) = g
        <5> HIDE DEF a, g
        <5>1. g \in Seq(Headers) /\ Len(g) = Len(Uncles[a]) + 1 /\ Len(Uncles[a]) \in Nat
          BY <4>4, <4>5, AppendProperties
        <5> QED
          BY <5>1, SubSeqFull
      <4>7. h.at \in h.at .. up
        BY <1>1, <4>3 DEF Heights
      <4>8. behind[h.at] = g \o behind[h.at + 1]
        BY <4>3, <4>7 DEF Behind
      <4>9. /\ h.at <= up /\ 0 \in 0 .. Len(g) - 1
            /\ h'.received = SubSeq(g, 0 + 1, Len(g)) \o behind[h.at + 1]
        <5> HIDE DEF g
        <5>1. 0 \in 0 .. Len(g) - 1 /\ 0 + 1 = 1
          BY <4>6
        <5>2. SubSeq(g, 0 + 1, Len(g)) = g
          BY <4>6, <5>1
        <5> QED
          BY <2>1, <4>3, <4>8, <5>1, <5>2
      <4>10. Group(headerSync, h.at)' = g /\ Behind(headerSync, h.at, up, behind)'
        <5>1. \A k : Group(headerSync, k)' = Group(headerSync, k)
          BY <1>1, <1>4 DEF Group
        <5>2. Group(headerSync, h.at)' = g
          BY <2>1, <5>1
        <5>3. Behind(headerSync, h.at, up, behind)'
          BY <2>1, <4>3, <5>1 DEF Behind
        <5> QED
          BY <5>2, <5>3
      <4> HIDE DEF a, g
      <4> QED
        BY <1>1, <1>4, <2>1, <4>9, <4>10 DEF Awaited
    <3> QED
      BY <1>1, <1>4, <2>1, <3>1, <3>2, <3>3 DEF Download
  <2> QED
    BY <1>2, <2>2 DEF DownInv
<1> QED
  BY <1>3, <1>4 DEF AskRange, EndSync

\* The header a put starts with, and what is left behind it: an uncle while there are some
\* left in the group, then the block of the peer's chain.
NextOfChain(p) == index[p][h.at]

LEMMA AwaitedHeader ==
    ASSUME SearchInv, DownInv, UnclesAreLower, h.phase = "put", h.quiet, h.at <= h.max
    PROVE  LET p == headerSync
               x == Head(h.received)
               rest == Tail(h.received)
               a == NextOfChain(p)
           IN  \/ /\ h.uncles \in Nat /\ ~Continues(x) /\ UncleAllowed(x) /\ rest # <<>>
                  /\ \E up, behind :
                        LET g == Group(p, h.at)
                        IN  /\ h.at <= up /\ Behind(p, h.at, up, behind)
                            /\ h.uncles + 1 \in 0 .. Len(g) - 1
                            /\ rest = SubSeq(g, h.uncles + 2, Len(g)) \o behind[h.at + 1]
               \/ /\ x = a /\ Continues(x) /\ (x \notin Invalid => Accepted(x))
                  /\ \E up, behind :
                        h.at <= up /\ Behind(p, h.at, up, behind) /\ rest = behind[h.at + 1]
<1> DEFINE p == headerSync
           x == Head(h.received)
           rest == Tail(h.received)
           a == NextOfChain(p)
           us == Uncles[a]
           g == Group(p, h.at)
           u == h.uncles
<1>1. /\ p \in Peers /\ h.at \in Nat \ {0} /\ h.max = Height[rtip[p]]
      /\ Height[rtip[p]] \in 0 .. MaxHeight /\ MaxHeight \in Nat
      /\ NamesChain(index[p], Height[rtip[p]])
      /\ Reached(p, h) /\ Awaited(p, h)
  <2>1. p \in Peers
    BY DEF SearchInv, DownloadType
  <2>2. h.max = Height[rtip[p]] /\ Reached(p, h) /\ Awaited(p, h)
    BY DEF DownInv, Download
  <2>3. Height[rtip[p]] \in 0 .. MaxHeight /\ MaxHeight \in Nat
    BY <2>1, TreeAssumption DEF TreeAssumption, Heights, SearchInv, IndexInv
  <2> QED
    BY <2>1, <2>2, <2>3 DEF DownInv, PathInv, Reached
<1>2. h.at \in 0 .. Height[rtip[p]] /\ h.at > 0 /\ h.at - 1 \in 0 .. h.max /\ h.at - 1 < h.at
  BY <1>1
<1>3. /\ a \in Headers /\ Height[a] = h.at /\ a # Genesis /\ Parent[a] = index[p][h.at - 1]
  BY <1>1, <1>2 DEF NamesChain, NextOfChain
<1>4. Parent[a] = h.previous /\ h.previous \in known /\ h.previous \in Headers
  BY <1>1, <1>2, <1>3 DEF Reached, SearchInv, KnownInv
<1>5. Height[a] = Height[h.previous] + 1 /\ Height[h.previous] \in Nat
  BY <1>3, <1>4, TreeAssumption DEF TreeAssumption, Heights
<1>6. us \in Seq(Headers) /\ Len(us) \in Nat /\ g = Append(us, a) /\ Len(us) <= MaxUncles
  <2>1. us \in Seq(Headers) /\ a # None
    BY <1>3, TreeAssumption DEF TreeAssumption
  <2>2. g = Append(us, a)
    BY <2>1 DEF Group, NextOfChain
  <2> QED
    BY <1>3, <2>1, <2>2 DEF UnclesAreLower
<1>7. PICK up, behind :
        /\ h.at <= up /\ Behind(p, h.at, up, behind)
        /\ u \in 0 .. Len(g) - 1
        /\ h.received = SubSeq(g, u + 1, Len(g)) \o behind[h.at + 1]
  BY <1>1 DEF Awaited
<1> DEFINE t == behind[h.at + 1]
<1>8. t \in Seq(Headers)
  <2>1. h.at + 1 \in h.at .. up + 1
    <3>1. up \in Heights /\ h.at <= up
      BY <1>7 DEF Behind
    <3> QED
      BY <1>1, <3>1 DEF Heights
  <2> QED
    BY <1>7, <2>1 DEF Behind
<1> HIDE DEF a, us, g, u, t
<1>9. Len(g) = Len(us) + 1 /\ u \in 0 .. Len(us)
  <2>1. Len(Append(us, a)) = Len(us) + 1
    BY <1>3, <1>6, AppendProperties
  <2> QED
    BY <1>6, <1>7, <2>1
<1>10. /\ u < Len(us) => /\ x = us[u + 1]
                         /\ rest = SubSeq(g, u + 2, Len(g)) \o t /\ rest # <<>>
       /\ u = Len(us) => x = a /\ rest = t
  <2> DEFINE r == SubSeq(g, u + 1, Len(g)) \o t
  <2>1. r = h.received
    BY <1>7 DEF t
  <2>2. us \in Seq(Headers) /\ a \in Headers /\ t \in Seq(Headers) /\ u \in 0 .. Len(us)
    BY <1>3, <1>6, <1>8, <1>9
  <2>3. /\ g \in Seq(Headers) /\ Len(g) = Len(us) + 1
        /\ (\A i \in 1 .. Len(us) : g[i] = us[i]) /\ g[Len(us) + 1] = a
    BY <1>3, <1>6, AppendProperties
  <2>4. /\ u + 1 \in 1 .. Len(g) /\ (u + 1) + 1 = u + 2
        /\ u < Len(us) => u + 1 < Len(g) /\ g[u + 1] = us[u + 1]
        /\ u = Len(us) => u + 1 = Len(g) /\ g[u + 1] = a
    BY <1>6, <2>2, <2>3
  <2>5. /\ Head(r) = g[u + 1] /\ Tail(r) = SubSeq(g, (u + 1) + 1, Len(g)) \o t
        /\ u + 1 < Len(g) => Tail(r) # <<>>
        /\ u + 1 = Len(g) => Tail(r) = t
    BY <2>2, <2>3, <2>4, TakeFirst
  <2>6. /\ u < Len(us) => /\ Head(r) = us[u + 1]
                          /\ Tail(r) = SubSeq(g, u + 2, Len(g)) \o t /\ Tail(r) # <<>>
        /\ u = Len(us) => Head(r) = a /\ Tail(r) = t
    <3> HIDE DEF r
    <3> QED
      BY <2>4, <2>5
  <2> QED
    BY <2>1, <2>6
<1> HIDE DEF x, rest
<1>11. CASE u < Len(us)
  <2>1. /\ u + 1 \in 1 .. Len(us) /\ u + 1 \in 0 .. Len(g) - 1 /\ u < MaxUncles
        /\ u \in Nat
    BY <1>6, <1>9, <1>11, UnclesAssumption DEF UnclesAssumption
  <2>2. x = us[u + 1] /\ x \in Headers
    BY <1>6, <1>10, <1>11, <2>1
  <2>3. x # Genesis /\ Height[x] < h.at /\ h.at - Height[x] <= MaxUncleHeightDelta
    BY <1>3, <2>1, <2>2 DEF UnclesAreLower, us
  <2>4. ~Continues(x)
    <3>1. Height[x] = Height[Parent[x]] + 1 /\ Height[x] \in Nat
      BY <2>2, <2>3, TreeAssumption DEF TreeAssumption, Heights
    <3> QED
      BY <1>1, <1>3, <1>5, <2>3, <3>1 DEF Continues
  <2>5. UncleAllowed(x)
    BY <2>1, <2>3 DEF UncleAllowed, u
  <2> QED
    BY <1>7, <1>10, <1>11, <2>1, <2>4, <2>5 DEF p, x, rest, g, u, t
<1>12. CASE u = Len(us)
  <2>1. x = a /\ rest = t
    BY <1>10, <1>12
  <2>2. Continues(x) /\ (x \notin Invalid => Accepted(x))
    BY <1>3, <1>4, <2>1 DEF Continues, Accepted, Taken, Connected
  <2> QED
    BY <1>7, <2>1, <2>2 DEF p, x, rest, a, t
<1>13. u < Len(us) \/ u = Len(us)
  BY <1>6, <1>9
<1> QED
  BY <1>11, <1>12, <1>13

\* A put in a download from a quiet peer: one that ends it leaves the peer's chain known but
\* for its last header, and any other gets one header further.
LEMMA QuietPut ==
    ASSUME SearchInv, DownInv, UnclesAreLower, Put, h.quiet
    PROVE  /\ h'.phase = "none" /\ Head(h.received) \notin Invalid =>
                \A k \in 0 .. h.max - 1 : index[headerSync][k] \in known'
           /\ h'.phase # "none" => Download(headerSync, h)'
<1> DEFINE p == headerSync
           x == Head(h.received)
           rest == [h EXCEPT !.received = Tail(h.received)]
           chain == [rest EXCEPT !.at = rest.at + 1, !.previous = x, !.uncles = 0]
           uncle == [rest EXCEPT !.uncles = rest.uncles + 1]
<1>1. /\ h.phase = "put" /\ DOMAIN h = DOMAIN NoSync /\ p \in Peers
      /\ h.at \in Nat /\ h.received \in Seq(Headers) /\ h.received # <<>>
      /\ h.have \in Nat /\ h.donthave \in Nat
  BY DEF Put, SearchInv, DownloadType
<1>2. x \in Headers /\ Tail(h.received) \in Seq(Headers)
  BY <1>1
<1>3. PutHeader(x) /\ UNCHANGED <<rtip, index>>
  BY DEF Put, remote
<1>4. known \subseteq known' /\ (Taken(x) => x \in known')
  BY <1>2, <1>3, PutHeaderCloses DEF SearchInv, DownInv
<1>5. /\ h' = IF h.previous = None THEN NoSync
              ELSE IF Continues(x)
              THEN IF Accepted(x) THEN More(chain) ELSE NoSync
              ELSE IF UncleAllowed(x) THEN More(uncle) ELSE NoSync
      /\ headerSync' = IF h' = NoSync THEN None ELSE headerSync
  BY DEF Put
<1>6. /\ DOMAIN rest = DOMAIN NoSync /\ rest.phase = "put" /\ rest.quiet = h.quiet
      /\ rest.at = h.at /\ rest.max = h.max /\ rest.previous = h.previous /\ rest.uncles = h.uncles
      /\ rest.received = Tail(h.received) /\ rest.have = h.have /\ rest.donthave = h.donthave
  BY <1>1, FieldsOfNoSync
<1> HIDE DEF x, rest
<1>7. /\ DOMAIN chain = DOMAIN NoSync /\ chain.phase = "put" /\ chain.quiet = h.quiet
      /\ chain.at = h.at + 1 /\ chain.max = h.max /\ chain.previous = x /\ chain.uncles = 0
      /\ chain.received = Tail(h.received) /\ chain.have = h.have /\ chain.donthave = h.donthave
  BY <1>6, FieldsOfNoSync
<1>8. /\ DOMAIN uncle = DOMAIN NoSync /\ uncle.phase = "put" /\ uncle.quiet = h.quiet
      /\ uncle.at = h.at /\ uncle.max = h.max /\ uncle.previous = h.previous
      /\ uncle.uncles = h.uncles + 1
      /\ uncle.received = Tail(h.received) /\ uncle.have = h.have /\ uncle.donthave = h.donthave
  BY <1>6, FieldsOfNoSync
<1> HIDE DEF chain, uncle
<1>9. Going(chain) /\ Going(uncle)
  BY <1>1, <1>2, <1>7, <1>8 DEF Going
<1>10. /\ h.max = Height[rtip[p]] /\ h.max \in Nat /\ h.max \in Heights
       /\ Reached(p, h) /\ h.at \in Nat \ {0}
  BY <1>1, TreeAssumption DEF TreeAssumption, Heights, SearchInv, IndexInv, DownInv, Download, Reached
<1>11. \A k \in 0 .. h.max : k < h.at => index[p][k] \in known'
  BY <1>4, <1>10 DEF Reached
<1>12. h' # NoSync => headerSync' = p
  BY <1>5
<1>13. CASE h.at > h.max
  <2>1. \A k \in 0 .. h.max : index[p][k] \in known'
    BY <1>10, <1>11, <1>13
  <2>2. ASSUME h' # NoSync
        PROVE  h'.max = h.max /\ h'.at \in Nat \ {0} /\ h'.at > h.max
    <3>1. CASE h' = More(chain)
      <4>1. h'.max = chain.max /\ h'.at \in {chain.at}
        BY <1>9, <2>2, <3>1, MoreKeeps
      <4> QED
        BY <1>7, <1>10, <1>13, <4>1
    <3>2. CASE h' = More(uncle)
      <4>1. h'.max = uncle.max /\ h'.at \in {uncle.at}
        BY <1>9, <2>2, <3>2, MoreKeeps
      <4> QED
        BY <1>8, <1>10, <1>13, <4>1
    <3> QED
      BY <1>5, <2>2, <3>1, <3>2
  <2>3. ASSUME h' # NoSync
        PROVE  Download(headerSync, h)'
    <3>1. Reached(headerSync, h)'
      BY <1>3, <1>10, <1>12, <2>1, <2>2, <2>3 DEF Reached
    <3> QED
      BY <1>3, <1>10, <1>12, <2>2, <2>3, <3>1 DEF Download
  <2> QED
    BY <1>10, <2>1, <2>3, NoDownload
<1>14. CASE h.at <= h.max
  <2> DEFINE left == Tail(h.received)
             a == NextOfChain(p)
  <2>1. h.previous \in Headers /\ h.previous # None /\ h.at \in Heights
    <3>1. NamesChain(index[p], Height[rtip[p]])
      BY <1>1 DEF DownInv, PathInv
    <3>2. h.at - 1 \in 0 .. Height[rtip[p]] /\ h.at \in Heights
      BY <1>10, <1>14, TreeAssumption DEF TreeAssumption, Heights
    <3>3. h.previous = index[p][h.at - 1]
      BY <1>10, <1>14 DEF Reached
    <3> QED
      BY <3>1, <3>2, <3>3, TreeAssumption DEF NamesChain, TreeAssumption
  <2>3. CASE /\ h.uncles \in Nat /\ ~Continues(x) /\ UncleAllowed(x) /\ left # <<>>
             /\ \E up, behind :
                   LET g == Group(p, h.at)
                   IN  /\ h.at <= up /\ Behind(p, h.at, up, behind)
                       /\ h.uncles + 1 \in 0 .. Len(g) - 1
                       /\ left = SubSeq(g, h.uncles + 2, Len(g)) \o behind[h.at + 1]
    <3>1. h' = uncle
      BY <1>5, <1>8, <2>1, <2>3 DEF More
    <3>2. h' # NoSync /\ headerSync' = p
      BY <1>8, <1>12, <3>1, NoDownload
    <3>3. Reached(headerSync, h)'
      BY <1>3, <1>8, <1>10, <1>11, <3>1, <3>2 DEF Reached
    <3>4. Awaited(headerSync, h)'
      <4>1. PICK up, behind :
                   /\ h.at <= up /\ Behind(p, h.at, up, behind)
                   /\ h.uncles + 1 \in 0 .. Len(Group(p, h.at)) - 1
                   /\ left = SubSeq(Group(p, h.at), h.uncles + 2, Len(Group(p, h.at))) \o behind[h.at + 1]
        BY <2>3
      <4>2. \A k : Group(headerSync, k)' = Group(p, k)
        BY <1>3, <3>2 DEF Group
      <4>3. Behind(headerSync, h.at, up, behind)'
        BY <1>8, <3>1, <4>1, <4>2 DEF Behind
      <4>4. h.uncles + 2 = (h.uncles + 1) + 1
        BY <2>3
      <4>5. /\ h'.at <= up /\ h'.uncles \in 0 .. Len(Group(headerSync, h.at)') - 1
            /\ h'.received = SubSeq(Group(headerSync, h.at)', h'.uncles + 1, Len(Group(headerSync, h.at)'))
                               \o behind[h'.at + 1]
        <5>1. h'.at = h.at /\ h'.uncles = h.uncles + 1 /\ h'.received = left
          BY <1>8, <3>1
        <5>2. Group(headerSync, h.at)' = Group(p, h.at)
          BY <4>2, <5>1
        <5> QED
          BY <4>1, <4>4, <5>1, <5>2
      <4> QED
        BY <4>3, <4>5 DEF Awaited
    <3> QED
      BY <1>3, <1>8, <1>10, <3>1, <3>2, <3>3, <3>4 DEF Download
  <2>4. CASE /\ x = a /\ Continues(x) /\ Accepted(x)
             /\ \E up, behind :
                   h.at <= up /\ Behind(p, h.at, up, behind) /\ left = behind[h.at + 1]
    <3>1. h' = More(chain)
      BY <1>5, <2>1, <2>4
    <3>2. x \in known' /\ x = index[p][h.at]
      BY <1>4, <2>4 DEF Accepted, NextOfChain
    <3>3. \A k \in 0 .. h.max : k < h.at + 1 => index[p][k] \in known'
      BY <1>10, <1>11, <3>2
    <3>4. CASE h' = NoSync
      <4>1. ~ (h.at + 1 < h.max)
        <5>1. chain.received = <<>> /\ ~Left(chain)
          <6>1. Going(chain) /\ More(chain) = NoSync
            BY <1>9, <3>1, <3>4
          <6> QED
            BY <6>1, MoreEnds
        <5> QED
          BY <1>7, <5>1 DEF Left
      <4>2. \A k \in 0 .. h.max - 1 : k \in 0 .. h.max /\ k < h.at + 1
        BY <1>10, <4>1
      <4> QED
        BY <3>3, <3>4, <4>2, NoDownload
    <3>5. CASE h' # NoSync
      <4>1. /\ h'.max = h.max /\ h'.at = h.at + 1 /\ h'.previous = x /\ headerSync' = p
            /\ h'.uncles = 0
            /\ h'.phase = "put" => h'.received = left /\ left # <<>>
            /\ h'.phase \in {"put", "range"}
        BY <1>7, <1>9, <1>12, <3>1, <3>5, MoreKeeps, MoreProperties
      <4>2. Reached(headerSync, h)'
        BY <1>3, <1>10, <3>2, <3>3, <4>1 DEF Reached
      <4>3. ASSUME h'.phase = "put", h'.at <= h'.max
            PROVE  Awaited(headerSync, h)'
        <5>1. PICK up, behind :
                h.at <= up /\ Behind(p, h.at, up, behind) /\ left = behind[h.at + 1]
          BY <2>4
        <5>2. up \in Nat /\ left # <<>>
          BY <4>1, <4>3, <5>1 DEF Heights, Behind
        <5>3. h.at + 1 <= up /\ h.at + 1 \in h.at .. up
          <6>1. h.at = up => left = <<>>
            BY <5>1 DEF Behind
          <6> QED
            BY <1>10, <5>1, <5>2, <6>1
        <5> DEFINE b == index[p][h.at + 1]
                   g == Group(p, h.at + 1)
        <5>4. b \in Headers /\ Uncles[b] \in Seq(Headers) /\ b # None
          <6>1. h.at + 1 \in 0 .. Height[rtip[p]] /\ NamesChain(index[p], Height[rtip[p]])
            BY <1>1, <1>10, <4>1, <4>3 DEF DownInv, PathInv
          <6> QED
            BY <6>1, TreeAssumption DEF NamesChain, TreeAssumption
        <5>5. g = Append(Uncles[b], b)
          BY <5>4 DEF Group
        <5>6. Len(g) \in Nat \ {0} /\ SubSeq(g, 1, Len(g)) = g
          <6> HIDE DEF b, g
          <6>1. g \in Seq(Headers) /\ Len(g) = Len(Uncles[b]) + 1 /\ Len(Uncles[b]) \in Nat
            BY <5>4, <5>5, AppendProperties
          <6> QED
            BY <6>1, SubSeqFull
        <5>7. behind[h.at + 1] = g \o behind[(h.at + 1) + 1]
          BY <5>1, <5>3 DEF Behind
        <5>8. \A k : Group(headerSync, k)' = Group(p, k)
          BY <1>3, <4>1 DEF Group
        <5>9. Behind(p, h.at + 1, up, behind)
          <6>1. /\ \A k \in h.at + 1 .. up + 1 : k \in h.at .. up + 1
                /\ \A k \in h.at + 1 .. up : k \in h.at .. up
            BY <1>10, <5>2
          <6> QED
            BY <5>1, <6>1 DEF Behind
        <5>10. Behind(headerSync, h.at, up, behind)'
          BY <4>1, <5>8, <5>9 DEF Behind
        <5> HIDE DEF g, b
        <5>11. 0 \in 0 .. Len(g) - 1 /\ SubSeq(g, 0 + 1, Len(g)) = g
          <6>1. 0 + 1 = 1
            OBVIOUS
          <6> QED
            BY <5>6, <6>1
        <5>12. Group(headerSync, h.at)' = g
          BY <4>1, <5>8 DEF g
        <5>13. /\ h'.at <= up /\ h'.uncles \in 0 .. Len(g) - 1
               /\ h'.received = SubSeq(g, h'.uncles + 1, Len(g)) \o behind[h'.at + 1]
          BY <4>1, <4>3, <5>1, <5>3, <5>7, <5>11
        <5> QED
          BY <5>10, <5>12, <5>13 DEF Awaited
      <4> QED
        <5>1. h'.max = Height[rtip'[headerSync']]
          BY <1>3, <1>10, <4>1
        <5>2. Download(headerSync, h)'
          BY <4>2, <4>3, <5>1 DEF Download
        <5> QED
          BY <4>1, <5>2
    <3> QED
      BY <3>4, <3>5
  <2>5. CASE Continues(x) /\ x \in Invalid
    <3>1. h' = NoSync
      BY <1>5, <2>5 DEF Accepted, Taken
    <3> QED
      BY <2>5, <3>1, NoDownload DEF x
  <2>6. left = Tail(h.received)
    OBVIOUS
  <2> QED
    BY <1>1, <1>14, <2>3, <2>4, <2>5, AwaitedHeader DEF x
<1> QED
  BY <1>10, <1>13, <1>14 DEF x

LEMMA PutDownload == ASSUME SearchInv, DownInv, UnclesAreLower, Put PROVE DownInv'
<1>1. /\ h.phase = "put" /\ DOMAIN h = DOMAIN NoSync /\ h.quiet \in BOOLEAN
      /\ h.received \in Seq(Headers) /\ h.received # <<>>
  BY DEF Put, SearchInv, DownloadType
<1>2. PutHeader(Head(h.received)) /\ UNCHANGED <<rtip, index>> /\ Head(h.received) \in Headers
  BY <1>1 DEF Put, remote
<1>3. KnownClosed' /\ PathInv'
  BY <1>2, PutHeaderCloses DEF SearchInv, DownInv, PathInv
<1>4. CASE h'.phase = "none"
  BY <1>3, <1>4 DEF DownInv, Download
<1>5. CASE h'.phase # "none" /\ h.quiet
  BY <1>3, <1>5, QuietPut DEF DownInv
<1>6. CASE h'.phase # "none" /\ ~h.quiet
  <2> DEFINE x == Head(h.received)
             rest == [h EXCEPT !.received = Tail(h.received)]
             chain == [rest EXCEPT !.at = rest.at + 1, !.previous = x, !.uncles = 0]
             uncle == [rest EXCEPT !.uncles = rest.uncles + 1]
  <2>1. h' \in {More(chain), More(uncle)}
    BY <1>6, NoDownload DEF Put
  <2>2. DOMAIN rest = DOMAIN NoSync /\ rest.quiet = h.quiet
    BY <1>1, FieldsOfNoSync
  <2> HIDE DEF rest, x
  <2>3. /\ DOMAIN chain = DOMAIN NoSync /\ chain.quiet = h.quiet
        /\ DOMAIN uncle = DOMAIN NoSync /\ uncle.quiet = h.quiet
    BY <2>2, FieldsOfNoSync
  <2> HIDE DEF chain, uncle
  <2>4. \A s : DOMAIN s = DOMAIN NoSync =>
          More(s) = s \/ More(s) = NoSync \/ More(s) = [s EXCEPT !.phase = "range"]
    BY DEF More
  <2>5. ASSUME NEW s, DOMAIN s = DOMAIN NoSync, h' = More(s)
        PROVE  h'.quiet = s.quiet
    <3>1. [s EXCEPT !.phase = "range"].quiet = s.quiet
      BY <2>5, FieldsOfNoSync
    <3> QED
      BY <1>6, <2>4, <2>5, <3>1, NoDownload
  <2>6. ~h'.quiet
    BY <1>6, <2>1, <2>3, <2>5
  <2> QED
    BY <1>3, <2>6 DEF DownInv
<1> QED
  BY <1>1, <1>4, <1>5, <1>6

LEMMA NextDownload ==
    UnclesAreLower /\ SearchInv /\ DownInv /\ StaleEntriesAreUnknown /\ [Next]_vars => DownInv'
<1> SUFFICES ASSUME UnclesAreLower, SearchInv, DownInv, StaleEntriesAreUnknown, [Next]_vars
             PROVE  DownInv'
  OBVIOUS
<1>1. ASSUME UNCHANGED <<known, rtip, index, headerSync, h>>
      PROVE  DownInv'
  <2>1. KnownClosed' /\ PathInv'
    BY <1>1 DEF DownInv, KnownClosed, PathInv
  <2> QED
    BY <1>1, <2>1, DownloadGoesOn
<1>2. CASE UNCHANGED vars
  BY <1>1, <1>2 DEF vars, local, remote
<1>3. ASSUME NEW p \in Peers, StartTx(p) PROVE DownInv'
  BY <1>1, <1>3 DEF StartTx, local, remote
<1>4. CASE GetTxBlocks
  BY <1>1, <1>4 DEF GetTxBlocks, local, remote
<1> QED
  BY <1>2, <1>3, <1>4, StartDownload, ReorganizeDownload, BroadcastDownload, FirstDownload,
     SecondDownload, SearchDownload, AskRangeDownload, PutDownload DEF Next

\* Only a put ends a download whose headers are being put.
LEMMA EndStep ==
    ASSUME SearchInv, [Next]_vars, h.phase = "put", h'.phase = "none"
    PROVE  Put
<1>1. \A p \in Peers : ~Start(p)
  BY DEF SearchInv, DownloadType, Start, NoSync
<1>2. (\A p \in Peers : ~StartTx(p)) /\ ~GetTxBlocks
  BY DEF StartTx, GetTxBlocks
<1>3. ASSUME NEW p \in Peers, NEW x \in RemoteTips, Reorganize(p, x)
      PROVE  FALSE
  <2>1. h' = [h EXCEPT !.quiet = h.quiet /\ headerSync # p] /\ DOMAIN h = DOMAIN NoSync
    BY <1>3 DEF Reorganize, SearchInv, DownloadType
  <2>2. h'.phase = h.phase
    BY <2>1, FieldsOfNoSync
  <2> QED
    BY <2>2
<1>4. ASSUME NEW x \in Headers, Broadcast(x)
      PROVE  FALSE
  <2>1. h' = [h EXCEPT !.quiet = FALSE] /\ DOMAIN h = DOMAIN NoSync
    BY <1>4 DEF Broadcast, SearchInv, DownloadType
  <2>2. h'.phase = h.phase
    BY <2>1, FieldsOfNoSync
  <2> QED
    BY <2>2
<1>5. ~First /\ ~Second /\ ~Search /\ ~AskRange
  BY DEF First, Second, Search, AskRange
<1>6. ~UNCHANGED vars
  BY DEF vars
<1> QED
  BY <1>1, <1>2, <1>3, <1>4, <1>5, <1>6 DEF Next

\* A header download from a peer that stays as it is, no request failing and nothing being
\* broadcast, takes every header of the peer's chain but perhaps the last if it ends with a
\* valid header, however the ranges cut the chain and whatever uncles come between.
THEOREM DownloadTakesAll ==
    ASSUME UnclesAreLower
    PROVE  Spec /\ []StaleEntriesAreUnknown => DownloadIsComplete
<1>1. SearchInv /\ DownInv /\ [Next]_vars =>
        [h.phase = "put" /\ h'.phase = "none" /\ h.quiet /\ Head(h.received) \notin Invalid =>
           \A k \in 0 .. h.max - 1 : index[headerSync][k] \in known']_vars
  BY EndStep, QuietPut
<1>2. SearchInv /\ DownInv /\ StaleEntriesAreUnknown /\ [Next]_vars => DownInv'
  BY NextDownload
<1> QED
  BY <1>1, <1>2, InitSearch, NextKeeps, InitDownload, PTL DEF Spec, DownloadIsComplete

=============================================================================
