--------------------------- MODULE BlockRecordsProofs ---------------------------
(***************************************************************************)
(* The accounts after every recorded block, and the block in its file, for *)
(* any bytes and addresses, any amounts, transactions and pools, and any   *)
(* number of blocks and crashes.                                           *)
(*                                                                         *)
(* Four parts.  A tree: getAccount finds what is in it, putAccount makes a *)
(* whole tree that says what the changes and the tree before said, and     *)
(* there is one whole tree for given accounts.  A block: what next does,   *)
(* one transaction at a time, is what sums over the transactions say.  The *)
(* blocks: the invariant WorldInv, which relates every recorded block to   *)
(* its parent, and the ledger that follows from it.  The files: FilesInv,  *)
(* and that the steps of filing are steps of the world state.              *)
(*                                                                         *)
(* What a recursive function is, is seen level by level: there is a        *)
(* function on 0 .. k that satisfies the equation (CountingUp), and one on *)
(* the arguments of putAccount, which get longer with every call.          *)
(***************************************************************************)
EXTENDS BlockRecords, SequenceTheorems, WellFoundedInduction, FiniteSetTheorems, TLAPS

\* Induction up to a bound.
LEMMA CountingUp ==
    ASSUME NEW size \in Nat, NEW S, 0 \in S,
           \A k \in 0 .. size - 1 : k \in S => k + 1 \in S
    PROVE  0 .. size \subseteq S
<1> SUFFICES ASSUME (0 .. size) \ S # {} PROVE FALSE
  OBVIOUS
<1>1. IsWellFoundedOn(OpToRel(<, Nat), Nat)
  BY NatLessThanWellFounded
<1>2. (0 .. size) \ S \in SUBSET Nat
  OBVIOUS
<1>3. PICK m \in (0 .. size) \ S : \A y \in (0 .. size) \ S : ~ (<<y, m>> \in OpToRel(<, Nat))
  BY <1>1, <1>2, WFMin
<1>4. \A y \in (0 .. size) \ S : ~ (y < m)
  BY <1>3, <1>2 DEF OpToRel
<1>5. m - 1 \in 0 .. size - 1 /\ m - 1 \in S
  BY <1>4
<1> QED
  BY <1>5

-----------------------------------------------------------------------------
(***************************************************************************)
(* Beginnings of addresses, and when one matches another (match).          *)
(***************************************************************************)

LEMMA PlacesAre ==
    /\ AddressLength \in Nat /\ AddressLength >= 1
    /\ \A p : p \in Places <=> p \in Seq(Bytes) /\ Len(p) <= AddressLength
    /\ \A p : p \in Addresses <=> p \in Seq(Bytes) /\ Len(p) = AddressLength
    /\ \A p \in Places : Len(p) \in Nat /\ \A i \in 1 .. Len(p) : p[i] \in Bytes
<1>1. AddressLength \in Nat /\ AddressLength >= 1
  BY AddressAssumption
<1>2. \A p \in Places : p \in Seq(Bytes) /\ Len(p) <= AddressLength
  <2>1. ASSUME NEW k \in 0 .. AddressLength, NEW p \in [1 .. k -> Bytes]
        PROVE  p \in Seq(Bytes) /\ Len(p) <= AddressLength
    BY <1>1
  <2> QED
    BY <2>1 DEF Places
<1>3. \A p \in Seq(Bytes) : p \in [1 .. Len(p) -> Bytes] /\ Len(p) \in Nat
  OBVIOUS
<1>4. \A p \in Seq(Bytes) : Len(p) <= AddressLength => p \in Places
  BY <1>1, <1>3 DEF Places
<1>5. \A p \in Addresses : p \in Seq(Bytes) /\ Len(p) = AddressLength
  BY <1>1 DEF Addresses
<1>6. \A p \in Seq(Bytes) : Len(p) = AddressLength => p \in Addresses
  BY <1>3 DEF Addresses
<1>7. \A p \in Seq(Bytes) : Len(p) \in Nat /\ \A i \in 1 .. Len(p) : p[i] \in Bytes
  OBVIOUS
<1> QED
  BY <1>1, <1>2, <1>4, <1>5, <1>6, <1>7

LEMMA SamePlace ==
    ASSUME NEW p \in Seq(Bytes), NEW q \in Seq(Bytes), Len(p) = Len(q),
           \A i \in 1 .. Len(p) : p[i] = q[i]
    PROVE  p = q
BY SeqEqual

Join(p, q) == p \o q

LEMMA Joined ==
    ASSUME NEW p \in Places, NEW q \in Places
    PROVE  LET r == Join(p, q) IN
           /\ r \in Seq(Bytes) /\ Len(r) = Len(p) + Len(q)
           /\ Len(r) <= AddressLength => r \in Places
           /\ \A i \in 1 .. Len(p) : r[i] = p[i]
           /\ \A i \in 1 .. Len(q) : r[Len(p) + i] = q[i]
<1> DEFINE r == Join(p, q)
<1>1. p \in Seq(Bytes) /\ q \in Seq(Bytes)
  BY PlacesAre
<1> USE DEF Join
<1>2. r \in Seq(Bytes) /\ Len(r) = Len(p) + Len(q)
  BY <1>1
<1>3. \A i \in 1 .. Len(p) : r[i] = p[i]
  BY <1>1
<1>4. \A i \in 1 .. Len(q) : r[Len(p) + i] = q[i]
  BY <1>1
<1> QED
  BY <1>2, <1>3, <1>4, PlacesAre

LEMMA MatchesTwice ==
    ASSUME NEW p \in Places, NEW q \in Places, NEW r \in Places,
           Matches(p, q, 0), Matches(q, r, 0)
    PROVE  Matches(p, r, 0)
BY PlacesAre DEF Matches

LEMMA MatchesJoined ==
    ASSUME NEW p \in Places, NEW q \in Places, NEW a \in Places
    PROVE  LET r == Join(p, q) IN
           /\ Matches(r, a, 0) <=> Matches(p, a, 0) /\ Matches(q, a, Len(p))
           /\ Matches(p, r, 0) /\ Matches(q, r, Len(p))
<1>0. PICK r : r = Join(p, q)
  OBVIOUS
<1>1. /\ r \in Seq(Bytes) /\ Len(r) = Len(p) + Len(q)
      /\ \A i \in 1 .. Len(p) : r[i] = p[i]
      /\ \A i \in 1 .. Len(q) : r[Len(p) + i] = q[i]
  BY <1>0, Joined
<1>2. Len(p) \in Nat /\ Len(q) \in Nat /\ Len(a) \in Nat
  BY PlacesAre
<1>3. Matches(p, r, 0) /\ Matches(q, r, Len(p))
  BY <1>1, <1>2 DEF Matches
<1>4. ASSUME Matches(r, a, 0)
      PROVE  Matches(p, a, 0) /\ Matches(q, a, Len(p))
  <2>1. Len(p) + Len(q) <= Len(a) /\ \A i \in 1 .. Len(p) + Len(q) : r[i] = a[i]
    BY <1>1, <1>2, <1>4 DEF Matches
  <2>2. \A i \in 1 .. Len(p) : p[i] = a[i]
    BY <1>1, <1>2, <2>1
  <2>3. \A i \in 1 .. Len(q) : q[i] = a[Len(p) + i]
    BY <1>1, <1>2, <2>1
  <2> QED
    BY <1>2, <2>1, <2>2, <2>3 DEF Matches
<1>5. ASSUME Matches(p, a, 0), Matches(q, a, Len(p))
      PROVE  Matches(r, a, 0)
  <2>1. Len(r) <= Len(a)
    BY <1>1, <1>2, <1>5 DEF Matches
  <2>2. ASSUME NEW i \in 1 .. Len(r)
        PROVE  r[i] = a[i]
    <3>1. CASE i <= Len(p)
      BY <1>1, <1>2, <1>5, <3>1 DEF Matches
    <3>2. CASE i > Len(p)
      <4>1. PICK j : j = i - Len(p)
        OBVIOUS
      <4>2. j \in 1 .. Len(q) /\ i = Len(p) + j
        BY <1>1, <1>2, <3>2, <4>1
      <4> QED
        BY <1>1, <1>5, <4>2 DEF Matches
    <3> QED
      BY <1>1, <1>2, <3>1, <3>2
  <2> QED
    BY <1>1, <1>2, <2>1, <2>2 DEF Matches
<1> QED
  BY <1>0, <1>3, <1>4, <1>5

\* An address matches only itself.
LEMMA MatchesItself ==
    ASSUME NEW p \in Places, NEW a \in Places, Matches(p, a, 0), Len(p) >= Len(a)
    PROVE  p = a
BY PlacesAre, SamePlace DEF Matches

-----------------------------------------------------------------------------
(***************************************************************************)
(* What is in a tree, and when a tree is whole.                            *)
(***************************************************************************)

LEMMA ValuesAre ==
    /\ \A v \in AccountValues : ~IsNode(v) /\ v # Absent
    /\ ~IsNode(Absent)
    /\ \A refs : IsNode(Node(refs)) /\ Node(refs).refs = refs /\ Node(refs) # Absent
<1>1. \A v \in AccountValues : DOMAIN v = {"balance", "nonce"}
  BY DEF AccountValues
<1>2. DOMAIN Absent = {"absent"}
  BY DEF Absent
<1>3. \A refs : DOMAIN Node(refs) = {"refs"} /\ Node(refs).refs = refs
  BY DEF Node
<1>4. "refs" # "absent" /\ "refs" # "balance" /\ "refs" # "nonce" /\ "absent" # "balance"
  OBVIOUS
<1>5. \A v \in AccountValues : ~IsNode(v) /\ v # Absent
  <2> TAKE v \in AccountValues
  <2>1. "balance" \in DOMAIN v /\ "refs" \notin DOMAIN v
    BY <1>1, <1>4
  <2>2. "balance" \notin DOMAIN Absent
    BY <1>2, <1>4
  <2> QED
    BY <2>1, <2>2 DEF IsNode
<1>6. ~IsNode(Absent)
  BY <1>2, <1>4 DEF IsNode
<1>7. \A refs : IsNode(Node(refs)) /\ Node(refs) # Absent
  BY <1>3, <1>6 DEF IsNode
<1> QED
  BY <1>3, <1>5, <1>6, <1>7

\* An entry is as it should be: an account at the end of an address, a node above, and no
\* node below the root with a single reference.
Sound(e) ==
    /\ e.at \in Places /\ \E p, v : e = At(p, v)
    /\ Len(e.at) = AddressLength => e.value \in AccountValues
    /\ Len(e.at) < AddressLength =>
         /\ \E refs : e.value = Node(refs)
         /\ \A r \in e.value.refs :
              /\ \E p, c : r = Ref(p, c)
              /\ r.address \in Places /\ Len(r.address) >= 1
              /\ Len(e.at) + Len(r.address) <= AddressLength
         /\ \A r, s \in e.value.refs : r.address[1] = s.address[1] => r = s
         /\ e.at # <<>> => \E r, s \in e.value.refs : r # s

Behind(p, r) == At(Join(p, r.address), r.child)
Child(e, r) == Behind(e.at, r)

\* D has everything its nodes refer to.
Complete(D) == \A e \in D : IsNode(e.value) => \A r \in e.value.refs : Child(e, r) \in D

Closed(D) == Complete(D) /\ \A e \in D : Sound(e)

LEMMA SoundIs ==
    ASSUME NEW e, Sound(e)
    PROVE  /\ Len(e.at) \in Nat /\ Len(e.at) <= AddressLength
           /\ IsNode(e.value) <=> Len(e.at) < AddressLength
           /\ ~IsNode(e.value) => e.at \in Addresses /\ e.value \in AccountValues
           /\ e.value # Absent
           /\ \A r \in e.value.refs : IsNode(e.value) =>
                /\ r.address \in Places /\ Len(r.address) >= 1
                /\ Child(e, r).at \in Places /\ Len(Child(e, r).at) = Len(e.at) + Len(r.address)
                /\ Child(e, r).at = Join(e.at, r.address) /\ Child(e, r).value = r.child
<1>1. Len(e.at) \in Nat /\ Len(e.at) <= AddressLength
  BY PlacesAre DEF Sound
<1>2. CASE Len(e.at) = AddressLength
  <2>1. e.value \in AccountValues /\ e.at \in Addresses
    BY <1>2, PlacesAre DEF Sound
  <2>2. ~IsNode(e.value) /\ e.value # Absent
    BY <2>1, ValuesAre
  <2> QED
    BY <1>1, <1>2, <2>1, <2>2
<1>3. CASE Len(e.at) < AddressLength
  <2>1. PICK refs : e.value = Node(refs)
    BY <1>3 DEF Sound
  <2>2. IsNode(e.value) /\ e.value # Absent
    BY <2>1, ValuesAre
  <2>3. ASSUME NEW r \in e.value.refs
        PROVE  /\ r.address \in Places /\ Len(r.address) >= 1
               /\ Child(e, r).at \in Places /\ Len(Child(e, r).at) = Len(e.at) + Len(r.address)
               /\ Child(e, r).at = Join(e.at, r.address) /\ Child(e, r).value = r.child
    <3>1. e.at \in Places /\ r.address \in Places /\ Len(r.address) >= 1 /\ Len(e.at) + Len(r.address) <= AddressLength
      BY <1>3 DEF Sound
    <3>2. PICK q : q = Join(e.at, r.address)
      OBVIOUS
    <3>3. q \in Places /\ Len(q) = Len(e.at) + Len(r.address)
      BY <3>1, <3>2, Joined
    <3>4. Child(e, r).at = q /\ Child(e, r).value = r.child
      BY <3>2 DEF Child, Behind, At
    <3> QED
      BY <3>1, <3>2, <3>3, <3>4
  <2> QED
    BY <1>1, <1>3, <2>2, <2>3
<1>4. Len(e.at) = AddressLength \/ Len(e.at) < AddressLength
  BY <1>1, AddressAssumption
<1> QED
  BY <1>1, <1>2, <1>3, <1>4

\* l is how Reached goes down level by level.
Levels(l, m, entry) ==
    l[0] = {entry} /\ \A k \in 1 .. m : l[k] = Deeper(l[k - 1])

LEMMA LevelsExist ==
    ASSUME NEW entry, NEW size \in Nat
    PROVE  \E l : Levels(l, size, entry)
<1> DEFINE S == {m \in 0 .. size : \E l : Levels(l, m, entry)}
<1>1. 0 \in S
  <2>1. PICK l : l = [k \in 0 .. 0 |-> {entry}]
    OBVIOUS
  <2>2. Levels(l, 0, entry)
    BY <2>1 DEF Levels
  <2> QED
    BY <2>2
<1>2. ASSUME NEW m \in 0 .. size - 1, m \in S
      PROVE  m + 1 \in S
  <2>1. PICK l : Levels(l, m, entry)
    BY <1>2
  <2>2. PICK g : g = [k \in 0 .. m + 1 |-> IF k = m + 1 THEN Deeper(l[m]) ELSE l[k]]
    OBVIOUS
  <2>3. g[m + 1] = Deeper(l[m]) /\ \A k \in 0 .. m : g[k] = l[k]
    BY <2>2
  <2>4. g[0] = {entry}
    BY <2>1, <2>3 DEF Levels
  <2>5. ASSUME NEW k \in 1 .. m + 1
        PROVE  g[k] = Deeper(g[k - 1])
    <3>1. CASE k = m + 1
      <4>1. g[k - 1] = l[m]
        BY <2>3, <3>1
      <4> QED
        BY <2>3, <3>1, <4>1
    <3>2. CASE k \in 1 .. m
      <4>1. g[k] = l[k] /\ g[k - 1] = l[k - 1]
        BY <2>3, <3>2
      <4> QED
        BY <2>1, <3>2, <4>1 DEF Levels
    <3> QED
      BY <3>1, <3>2
  <2>6. Levels(g, m + 1, entry)
    BY <2>4, <2>5 DEF Levels
  <2> QED
    BY <2>6
<1>3. 0 .. size \subseteq S
  <2> HIDE DEF S
  <2> QED
    BY <1>1, <1>2, CountingUp
<1> QED
  BY <1>3

LEMMA ReachedIs ==
    ASSUME NEW entry
    PROVE  \E l : /\ Levels(l, AddressLength, entry)
                  /\ Reached(entry) = UNION {l[k] : k \in 0 .. AddressLength}
<1> DEFINE size == AddressLength
           Body(l) == [k \in 0 .. size |-> IF k = 0 THEN {entry} ELSE Deeper(l[k - 1])]
           level == CHOOSE l : l = Body(l)
<1>0. size \in Nat
  BY AddressAssumption
<1>1. PICK l : Levels(l, size, entry)
  BY <1>0, LevelsExist
<1>2. PICK g : g = [k \in 0 .. size |-> l[k]]
  OBVIOUS
<1>3. ASSUME NEW k \in 0 .. size
      PROVE  l[k] = IF k = 0 THEN {entry} ELSE Deeper(g[k - 1])
  <2>1. CASE k = 0
    BY <1>1, <2>1 DEF Levels
  <2>2. CASE k # 0
    <3>1. k \in 1 .. size /\ k - 1 \in 0 .. size
      BY <1>0, <2>2
    <3>2. l[k] = Deeper(l[k - 1]) /\ g[k - 1] = l[k - 1]
      BY <1>1, <1>2, <3>1 DEF Levels
    <3> QED
      BY <2>2, <3>2
  <2> QED
    BY <2>1, <2>2
<1>4. g = Body(g)
  BY <1>2, <1>3
<1>5. level = Body(level)
  BY <1>4
<1>6. Reached(entry) = UNION {level[k] : k \in 0 .. size}
  BY DEF Reached
<1> HIDE DEF level
<1>7. \A k \in 0 .. size : level[k] = IF k = 0 THEN {entry} ELSE Deeper(level[k - 1])
  BY <1>5
<1>8. Levels(level, size, entry)
  BY <1>0, <1>7 DEF Levels
<1> QED
  BY <1>6, <1>8

LEMMA DeeperIs ==
    ASSUME NEW E
    PROVE  /\ \A e \in E : IsNode(e.value) => \A r \in e.value.refs : Child(e, r) \in Deeper(E)
           /\ \A d \in Deeper(E) : \E e \in E : IsNode(e.value) /\ \E r \in e.value.refs : d = Child(e, r)
<1> DEFINE Under(e) == {At(e.at \o ref.address, ref.child) : ref \in e.value.refs}
<1>1. Deeper(E) = UNION {Under(e) : e \in {f \in E : IsNode(f.value)}}
  BY DEF Deeper
<1>2. \A e, r : r \in e.value.refs => Child(e, r) \in Under(e)
  BY DEF Child, Behind, Join
<1>3. \A e : \A d \in Under(e) : \E r \in e.value.refs : d = Child(e, r)
  BY DEF Child, Behind, Join
<1> HIDE DEF Under
<1> QED
  BY <1>1, <1>2, <1>3

LEMMA ReachesItself == ASSUME NEW entry PROVE entry \in Reached(entry)
<1>1. PICK l : /\ Levels(l, AddressLength, entry)
               /\ Reached(entry) = UNION {l[k] : k \in 0 .. AddressLength}
  BY ReachedIs
<1>2. 0 \in 0 .. AddressLength /\ entry \in l[0]
  BY <1>1, AddressAssumption DEF Levels
<1> QED
  BY <1>1, <1>2

\* Nothing is reached that is not in every set with the entry and what it leads to.
LEMMA ReachesNoMore ==
    ASSUME NEW D, Complete(D), NEW entry \in D
    PROVE  Reached(entry) \subseteq D
<1>1. PICK l : /\ Levels(l, AddressLength, entry)
               /\ Reached(entry) = UNION {l[k] : k \in 0 .. AddressLength}
  BY ReachedIs
<1> DEFINE S == {k \in 0 .. AddressLength : l[k] \subseteq D}
<1>2. 0 \in S
  BY <1>1, AddressAssumption DEF Levels
<1>3. ASSUME NEW k \in 0 .. AddressLength - 1, k \in S
      PROVE  k + 1 \in S
  <2>1. l[k + 1] = Deeper(l[k]) /\ k + 1 \in 0 .. AddressLength
    BY <1>1, AddressAssumption DEF Levels
  <2>2. ASSUME NEW d \in Deeper(l[k])
        PROVE  d \in D
    <3>1. PICK e \in l[k] : IsNode(e.value) /\ \E r \in e.value.refs : d = Child(e, r)
      BY DeeperIs
    <3> QED
      BY <1>3, <3>1 DEF Complete
  <2> QED
    BY <2>1, <2>2
<1>4. 0 .. AddressLength \subseteq S
  <2> HIDE DEF S
  <2> QED
    BY <1>2, <1>3, CountingUp, AddressAssumption
<1> QED
  BY <1>1, <1>4

\* In a sound set the levels end before AddressLength.
LEMMA ReachesAll ==
    ASSUME NEW D, Closed(D), NEW entry \in D
    PROVE  /\ Reached(entry) \subseteq D
           /\ Closed(Reached(entry))
           /\ \A e \in Reached(entry) : Matches(entry.at, e.at, 0)
<1>1. Reached(entry) \subseteq D
  BY ReachesNoMore DEF Closed
<1>2. PICK l : /\ Levels(l, AddressLength, entry)
               /\ Reached(entry) = UNION {l[k] : k \in 0 .. AddressLength}
  BY ReachedIs
<1>3. \A e \in D : Sound(e)
  BY DEF Closed
<1> DEFINE S == {k \in 0 .. AddressLength : \A e \in l[k] : Len(e.at) >= k}
<1>4. 0 \in S
  <2>1. entry.at \in Places
    BY <1>3 DEF Sound
  <2> QED
    BY <1>2, <2>1, PlacesAre DEF Levels
<1>5. ASSUME NEW k \in 0 .. AddressLength - 1, k \in S
      PROVE  k + 1 \in S
  <2>1. l[k + 1] = Deeper(l[k]) /\ k + 1 \in 0 .. AddressLength /\ k \in 0 .. AddressLength
    BY <1>2, AddressAssumption DEF Levels
  <2>2. ASSUME NEW d \in Deeper(l[k])
        PROVE  Len(d.at) >= k + 1
    <3>1. PICK e \in l[k] : IsNode(e.value) /\ \E r \in e.value.refs : d = Child(e, r)
      BY DeeperIs
    <3>2. PICK r \in e.value.refs : d = Child(e, r)
      BY <3>1
    <3>3. Sound(e)
      BY <1>1, <1>2, <1>3, <2>1
    <3>4. Len(d.at) = Len(e.at) + Len(r.address) /\ Len(r.address) >= 1 /\ r.address \in Places /\ Len(e.at) \in Nat
      BY <3>1, <3>2, <3>3, SoundIs
    <3>5. Len(e.at) >= k /\ Len(r.address) \in Nat
      BY <1>5, <3>1, <3>4, PlacesAre
    <3>6. \A x, y \in Nat : x >= k /\ y >= 1 => x + y >= k + 1
      BY AddressAssumption
    <3>7. Len(d.at) = Len(e.at) + Len(r.address) /\ Len(e.at) \in Nat /\ Len(r.address) >= 1
      BY <3>4
    <3> QED
      BY <3>5, <3>6, <3>7
  <2> QED
    BY <2>1, <2>2
<1>6. 0 .. AddressLength \subseteq S
  <2> HIDE DEF S
  <2> QED
    BY <1>4, <1>5, CountingUp, AddressAssumption
<1>7. ASSUME NEW e \in Reached(entry), IsNode(e.value), NEW r \in e.value.refs
      PROVE  Child(e, r) \in Reached(entry)
  <2>1. PICK k \in 0 .. AddressLength : e \in l[k]
    BY <1>2
  <2>2. Sound(e) /\ Len(e.at) >= k
    BY <1>1, <1>3, <1>6, <2>1
  <2>3. Len(e.at) < AddressLength /\ Len(e.at) \in Nat
    BY <1>7, <2>2, SoundIs
  <2>4. k + 1 \in 1 .. AddressLength
    BY <2>2, <2>3, AddressAssumption
  <2>5. l[k + 1] = Deeper(l[k])
    BY <1>2, <2>4 DEF Levels
  <2>6. Child(e, r) \in l[k + 1]
    BY <1>7, <2>1, <2>5, DeeperIs
  <2> QED
    BY <1>2, <2>4, <2>6
<1>8. Closed(Reached(entry))
  BY <1>1, <1>3, <1>7 DEF Closed, Complete
<1>9. \A e \in Reached(entry) : Matches(entry.at, e.at, 0)
  <2> DEFINE G == {e \in D : Matches(entry.at, e.at, 0)}
  <2>1. entry \in G
    <3>1. entry.at \in Places
      BY <1>3 DEF Sound
    <3> QED
      BY <3>1, PlacesAre DEF Matches
  <2>2. Complete(G)
    <3>1. SUFFICES ASSUME NEW e \in G, IsNode(e.value), NEW r \in e.value.refs PROVE Child(e, r) \in G
      BY DEF Complete
    <3>2. Child(e, r) \in D /\ Sound(e) /\ Sound(entry)
      BY <1>3, <3>1 DEF Closed, Complete
    <3>3. /\ r.address \in Places /\ Child(e, r).at \in Places /\ e.at \in Places /\ entry.at \in Places
          /\ Child(e, r).at = Join(e.at, r.address)
      BY <3>1, <3>2, SoundIs DEF Sound
    <3>4. Matches(e.at, Child(e, r).at, 0)
      BY <3>3, MatchesJoined
    <3> QED
      BY <3>1, <3>2, <3>3, <3>4, MatchesTwice
  <2> HIDE DEF G
  <2>3. Reached(entry) \subseteq G
    BY <2>1, <2>2, ReachesNoMore
  <2> QED
    BY <2>3 DEF G
<1> QED
  BY <1>1, <1>8, <1>9

\* What a node reaches is the node and what its references reach.
LEMMA ReachedUnfolds ==
    ASSUME NEW D, Closed(D), NEW e \in D, IsNode(e.value), NEW f
    PROVE  f \in Reached(e) <=> f = e \/ \E r \in e.value.refs : f \in Reached(Child(e, r))
<1> DEFINE G == {e} \cup UNION {Reached(Child(e, r)) : r \in e.value.refs}
<1>1. \A r \in e.value.refs : Child(e, r) \in D /\ Child(e, r) \in Reached(e)
  <2>1. e \in Reached(e) /\ Closed(Reached(e))
    BY ReachesAll, ReachesItself
  <2> QED
    BY <2>1 DEF Closed, Complete
<1>2. \A r \in e.value.refs : Reached(Child(e, r)) \subseteq Reached(e)
  <2>1. Complete(Reached(e))
    BY ReachesAll DEF Closed
  <2> QED
    BY <1>1, <2>1, ReachesNoMore
<1>3. Complete(G)
  <2>1. SUFFICES ASSUME NEW d \in G, IsNode(d.value), NEW s \in d.value.refs PROVE Child(d, s) \in G
    BY DEF Complete
  <2>2. CASE d = e
    <3>1. Child(e, s) \in Reached(Child(e, s)) /\ s \in e.value.refs
      BY <2>1, <2>2, ReachesItself
    <3> QED
      BY <2>2, <3>1
  <2>3. CASE d # e
    <3>1. PICK r \in e.value.refs : d \in Reached(Child(e, r))
      BY <2>1, <2>3
    <3>2. Complete(Reached(Child(e, r)))
      BY <1>1, ReachesAll DEF Closed
    <3>3. Child(d, s) \in Reached(Child(e, r))
      BY <2>1, <3>1, <3>2 DEF Complete
    <3> QED
      BY <3>1, <3>3
  <2> QED
    BY <2>2, <2>3
<1>4. e \in G
  OBVIOUS
<1>5. Reached(e) \subseteq G
  <2> HIDE DEF G
  <2> QED
    BY <1>3, <1>4, ReachesNoMore
<1> QED
  BY <1>2, <1>5, ReachesItself

LEMMA LeafReaches ==
    ASSUME NEW e, ~IsNode(e.value)
    PROVE  Reached(e) = {e}
<1>1. Complete({e})
  BY DEF Complete
<1> QED
  BY <1>1, ReachesNoMore, ReachesItself

LEMMA AtIs ==
    /\ \A p, v : At(p, v).at = p /\ At(p, v).value = v
    /\ \A p, v, q, w : At(p, v) = At(q, w) => p = q /\ v = w
<1>1. \A p, v : At(p, v).at = p /\ At(p, v).value = v
  BY DEF At
<1> QED
  BY <1>1

-----------------------------------------------------------------------------
(***************************************************************************)
(* getAccount finds what is in the tree.                                   *)
(***************************************************************************)

\* One round of its loop.
Descend(address, s) ==
    LET matching == {r \in s.value.refs : Matches(r.address, address, s.offset)}
        ref == CHOOSE r \in matching : TRUE
    IN  IF ~IsNode(s.value) THEN s
        ELSE IF matching = {} THEN [value |-> Absent, offset |-> s.offset]
        ELSE [value |-> ref.child, offset |-> s.offset + Len(ref.address)]

Descent(f, m, root, address) ==
    /\ f[0] = [value |-> root, offset |-> 0]
    /\ \A k \in 1 .. m : f[k] = Descend(address, f[k - 1])

LEMMA DescentExists ==
    ASSUME NEW root, NEW address, NEW size \in Nat
    PROVE  \E f : Descent(f, size, root, address)
<1> DEFINE S == {m \in 0 .. size : \E f : Descent(f, m, root, address)}
<1>1. 0 \in S
  <2>1. PICK f : f = [k \in 0 .. 0 |-> [value |-> root, offset |-> 0]]
    OBVIOUS
  <2>2. Descent(f, 0, root, address)
    BY <2>1 DEF Descent
  <2> QED
    BY <2>2
<1>2. ASSUME NEW m \in 0 .. size - 1, m \in S
      PROVE  m + 1 \in S
  <2>1. PICK f : Descent(f, m, root, address)
    BY <1>2
  <2>2. PICK g : g = [k \in 0 .. m + 1 |-> IF k = m + 1 THEN Descend(address, f[m]) ELSE f[k]]
    OBVIOUS
  <2>3. g[m + 1] = Descend(address, f[m]) /\ \A k \in 0 .. m : g[k] = f[k]
    BY <2>2
  <2>4. g[0] = [value |-> root, offset |-> 0]
    BY <2>1, <2>3 DEF Descent
  <2>5. ASSUME NEW k \in 1 .. m + 1
        PROVE  g[k] = Descend(address, g[k - 1])
    <3>1. CASE k = m + 1
      <4>1. g[k - 1] = f[m]
        BY <2>3, <3>1
      <4> QED
        BY <2>3, <3>1, <4>1
    <3>2. CASE k \in 1 .. m
      <4>1. g[k] = f[k] /\ g[k - 1] = f[k - 1]
        BY <2>3, <3>2
      <4> QED
        BY <2>1, <3>2, <4>1 DEF Descent
    <3> QED
      BY <3>1, <3>2
  <2>6. Descent(g, m + 1, root, address)
    BY <2>4, <2>5 DEF Descent
  <2> QED
    BY <2>6
<1>3. 0 .. size \subseteq S
  <2> HIDE DEF S
  <2> QED
    BY <1>1, <1>2, CountingUp
<1> QED
  BY <1>3

LEMMA GetAccountIs ==
    ASSUME NEW root, NEW address
    PROVE  \E f : /\ Descent(f, AddressLength, root, address)
                  /\ GetAccount(root, address) = f[AddressLength].value
<1> DEFINE size == AddressLength
           Start == [value |-> root, offset |-> 0]
           Body(l) == [k \in 0 .. size |-> IF k = 0 THEN Start ELSE Descend(address, l[k - 1])]
           state == CHOOSE l : l = Body(l)
<1>0. size \in Nat
  BY AddressAssumption
<1>1. PICK l : Descent(l, size, root, address)
  BY <1>0, DescentExists
<1>2. PICK g : g = [k \in 0 .. size |-> l[k]]
  OBVIOUS
<1>3. ASSUME NEW k \in 0 .. size
      PROVE  l[k] = IF k = 0 THEN Start ELSE Descend(address, g[k - 1])
  <2>1. CASE k = 0
    BY <1>1, <2>1 DEF Descent
  <2>2. CASE k # 0
    <3>1. k \in 1 .. size /\ k - 1 \in 0 .. size
      BY <1>0, <2>2
    <3>2. l[k] = Descend(address, l[k - 1]) /\ g[k - 1] = l[k - 1]
      BY <1>1, <1>2, <3>1 DEF Descent
    <3> QED
      BY <2>2, <3>2
  <2> QED
    BY <2>1, <2>2
<1>4. g = Body(g)
  BY <1>2, <1>3
<1>5. state = Body(state)
  BY <1>4
<1>6. GetAccount(root, address) = state[size].value
  BY DEF GetAccount, Descend
<1> HIDE DEF state
<1>7. \A k \in 0 .. size : state[k] = IF k = 0 THEN Start ELSE Descend(address, state[k - 1])
  BY <1>5
<1>8. Descent(state, size, root, address)
  BY <1>0, <1>7 DEF Descent
<1> QED
  BY <1>6, <1>8

\* At most one reference of a node leads to an address.
LEMMA OneWay ==
    ASSUME NEW D, Closed(D), NEW e \in D, IsNode(e.value), NEW a \in Addresses
    PROVE  /\ \A r, s \in e.value.refs :
                 Matches(r.address, a, Len(e.at)) /\ Matches(s.address, a, Len(e.at)) => r = s
           /\ \A c : \A r \in e.value.refs :
                 At(a, c) \in Reached(Child(e, r)) => Matches(r.address, a, Len(e.at))
           /\ \A c : At(a, c) \in Reached(e) =>
                 \E r \in e.value.refs : At(a, c) \in Reached(Child(e, r))
<1>1. Sound(e) /\ e.at \in Places /\ Len(e.at) < AddressLength /\ Len(e.at) \in Nat
  BY SoundIs DEF Closed, Sound
<1>2. a \in Places /\ Len(a) = AddressLength
  BY PlacesAre
<1>3. ASSUME NEW r \in e.value.refs, NEW s \in e.value.refs,
             Matches(r.address, a, Len(e.at)), Matches(s.address, a, Len(e.at))
      PROVE  r = s
  <2>1. /\ r.address \in Places /\ Len(r.address) >= 1 /\ Len(r.address) \in Nat
        /\ s.address \in Places /\ Len(s.address) >= 1 /\ Len(s.address) \in Nat
    BY <1>1, PlacesAre, SoundIs
  <2>2. 1 \in 1 .. Len(r.address) /\ 1 \in 1 .. Len(s.address)
    BY <2>1
  <2>3. r.address[1] = a[Len(e.at) + 1] /\ s.address[1] = a[Len(e.at) + 1]
    BY <1>3, <2>2 DEF Matches
  <2> QED
    BY <1>1, <2>3 DEF Sound
<1>4. ASSUME NEW c, NEW r \in e.value.refs, At(a, c) \in Reached(Child(e, r))
      PROVE  Matches(r.address, a, Len(e.at))
  <2>1. Child(e, r) \in D
    BY DEF Closed, Complete
  <2>2. Matches(Child(e, r).at, a, 0)
    BY <1>4, <2>1, ReachesAll, AtIs
  <2>3. r.address \in Places /\ Child(e, r).at = Join(e.at, r.address)
    BY <1>1, SoundIs
  <2> QED
    BY <1>1, <1>2, <2>2, <2>3, MatchesJoined
<1>5. ASSUME NEW c, At(a, c) \in Reached(e)
      PROVE  \E r \in e.value.refs : At(a, c) \in Reached(Child(e, r))
  <2>1. At(a, c) # e
    BY <1>1, <1>2, AtIs
  <2> QED
    BY <1>5, <2>1, ReachedUnfolds
<1> QED
  BY <1>3, <1>4, <1>5

Whole(root) == Closed(Reached(Root(root)))

LEMMA AccountFound ==
    ASSUME NEW root, Whole(root), NEW a \in Addresses
    PROVE  /\ GetAccount(root, a) \in AccountValues \cup {Absent}
           /\ \A c \in AccountValues : At(a, c) \in Reached(Root(root)) <=> GetAccount(root, a) = c
<1> DEFINE R == Reached(Root(root))
           Lost(s) == s.value = Absent /\ \A c : At(a, c) \notin R
           On(s, p) == /\ p \in Places /\ Len(p) = s.offset /\ Matches(p, a, 0) /\ At(p, s.value) \in R
                       /\ \A c : At(a, c) \in R => At(a, c) \in Reached(At(p, s.value))
           Fine(s, k) == Lost(s) \/ \E p : On(s, p) /\ (IsNode(s.value) => s.offset >= k)
<1>1. Closed(R) /\ Root(root) \in R /\ Root(root) = At(<<>>, root)
  BY ReachesItself DEF Whole, Root
<1>2. a \in Places /\ Len(a) = AddressLength /\ AddressLength \in Nat
  BY PlacesAre
<1>3. PICK f : /\ Descent(f, AddressLength, root, a)
               /\ GetAccount(root, a) = f[AddressLength].value
  BY GetAccountIs
<1> DEFINE S == {k \in 0 .. AddressLength : Fine(f[k], k)}
<1>4. 0 \in S
  <2>1. f[0].value = root /\ f[0].offset = 0
    BY <1>3 DEF Descent
  <2>2. <<>> \in Places /\ Len(<<>>) = 0 /\ Matches(<<>>, a, 0)
    <3>1. <<>> \in Seq(Bytes) /\ Len(<<>>) = 0
      OBVIOUS
    <3>2. <<>> \in Places
      <4>1. PICK p : p = <<>>
        OBVIOUS
      <4>2. p \in Seq(Bytes) /\ Len(p) <= AddressLength
        BY <1>2, <3>1, <4>1
      <4> QED
        BY <4>1, <4>2, PlacesAre
    <3> QED
      BY <1>2, <3>1, <3>2 DEF Matches
  <2>3. On(f[0], <<>>)
    BY <1>1, <2>1, <2>2
  <2> QED
    BY <1>2, <2>1, <2>3
<1>5. ASSUME NEW k \in 0 .. AddressLength - 1, k \in S
      PROVE  k + 1 \in S
  <2>1. k \in Nat /\ k + 1 \in 1 .. AddressLength /\ k + 1 \in 0 .. AddressLength
    BY <1>2
  <2>2. PICK s : s = f[k]
    OBVIOUS
  <2>3. f[k + 1] = Descend(a, s)
    BY <1>3, <2>1, <2>2 DEF Descent
  <2>4. CASE Lost(s)
    <3>1. Descend(a, s) = s
      BY <2>4, ValuesAre DEF Descend
    <3> QED
      BY <2>1, <2>3, <2>4, <3>1
  <2>5. ASSUME NEW p, On(s, p), ~IsNode(s.value)
        PROVE  k + 1 \in S
    <3>1. Descend(a, s) = s
      BY <2>5 DEF Descend
    <3>2. Fine(f[k + 1], k + 1)
      BY <2>3, <2>5, <3>1
    <3> QED
      BY <2>1, <3>2
  <2>6. ASSUME NEW p, On(s, p), IsNode(s.value), s.offset >= k
        PROVE  k + 1 \in S
    <3>1. PICK e : e = At(p, s.value)
      OBVIOUS
    <3>2. e \in R /\ e.at = p /\ e.value = s.value /\ Len(p) \in Nat
      BY <2>6, <3>1, AtIs, PlacesAre
    <3>3. Sound(e)
      BY <1>1, <3>2 DEF Closed
    <3> DEFINE matching == {r \in s.value.refs : Matches(r.address, a, s.offset)}
    <3>4. CASE matching = {}
      <4>1. f[k + 1] = [value |-> Absent, offset |-> s.offset]
        BY <2>3, <2>6, <3>4 DEF Descend
      <4>2. ASSUME NEW c PROVE At(a, c) \notin R
        <5>1. SUFFICES ASSUME At(a, c) \in Reached(e) PROVE FALSE
          BY <2>6, <3>1
        <5>2. PICK r \in e.value.refs : At(a, c) \in Reached(Child(e, r))
          BY <1>1, <2>6, <3>2, <5>1, OneWay
        <5>3. Matches(r.address, a, Len(e.at))
          BY <1>1, <2>6, <3>2, <5>2, OneWay
        <5> QED
          BY <2>6, <3>2, <3>4, <5>3
      <4> QED
        BY <2>1, <4>1, <4>2
    <3>5. CASE matching # {}
      <4>1. PICK ref : ref = CHOOSE r \in matching : TRUE
        OBVIOUS
      <4>2. ref \in s.value.refs /\ Matches(ref.address, a, s.offset)
        BY <3>5, <4>1
      <4>3. f[k + 1] = [value |-> ref.child, offset |-> s.offset + Len(ref.address)]
        BY <2>3, <2>6, <3>5, <4>1 DEF Descend
      <4>4. /\ ref.address \in Places /\ Len(ref.address) >= 1 /\ Len(ref.address) \in Nat
            /\ Child(e, ref).at \in Places /\ Len(Child(e, ref).at) = Len(p) + Len(ref.address)
            /\ Child(e, ref).at = Join(p, ref.address)
            /\ Child(e, ref) = At(Join(p, ref.address), ref.child)
        BY <2>6, <3>2, <3>3, <4>2, SoundIs, PlacesAre DEF Child, Behind
      <4>5. PICK q : q = Join(p, ref.address)
        OBVIOUS
      <4>6. At(q, ref.child) \in R
        BY <1>1, <2>6, <3>2, <4>2, <4>4, <4>5 DEF Closed, Complete
      <4>7. Matches(q, a, 0)
        BY <1>2, <2>6, <4>2, <4>4, <4>5, MatchesJoined
      <4>8. ASSUME NEW c, At(a, c) \in R PROVE At(a, c) \in Reached(At(q, ref.child))
        <5>1. At(a, c) \in Reached(e)
          BY <2>6, <3>1, <4>8
        <5>2. PICK r \in e.value.refs : At(a, c) \in Reached(Child(e, r))
          BY <1>1, <2>6, <3>2, <5>1, OneWay
        <5>3. Matches(r.address, a, Len(e.at)) /\ Matches(ref.address, a, Len(e.at))
          BY <1>1, <2>6, <3>2, <4>2, <5>2, OneWay
        <5>4. r = ref
          BY <1>1, <2>6, <3>2, <4>2, <5>3, OneWay
        <5> QED
          BY <4>4, <4>5, <5>2, <5>4
      <4>9. f[k + 1].value = ref.child /\ f[k + 1].offset = Len(q)
        BY <2>6, <4>3, <4>4, <4>5
      <4>10. On(f[k + 1], q)
        BY <4>4, <4>5, <4>6, <4>7, <4>8, <4>9
      <4>11. Len(q) >= k + 1
        <5>1. \A x, y \in Nat : x >= k /\ y >= 1 => x + y >= k + 1
          BY <2>1
        <5> QED
          BY <2>6, <3>2, <4>4, <4>5, <5>1
      <4>12. Fine(f[k + 1], k + 1)
        BY <4>9, <4>10, <4>11
      <4> QED
        BY <2>1, <4>12
    <3> QED
      BY <3>4, <3>5
  <2>7. Fine(s, k)
    BY <1>5, <2>2
  <2> QED
    BY <2>4, <2>5, <2>6, <2>7
<1>6. 0 .. AddressLength \subseteq S
  <2> HIDE DEF S
  <2> QED
    BY <1>2, <1>4, <1>5, CountingUp
<1>7. PICK s : s = f[AddressLength]
  OBVIOUS
<1>8. Fine(s, AddressLength)
  BY <1>2, <1>6, <1>7
<1>9. CASE Lost(s)
  BY <1>3, <1>7, <1>9, ValuesAre
<1>10. ASSUME NEW p, On(s, p), IsNode(s.value) => s.offset >= AddressLength
       PROVE  /\ s.value \in AccountValues
              /\ \A c : At(a, c) \in R <=> c = s.value
  <2>1. PICK e : e = At(p, s.value)
    OBVIOUS
  <2>2. e \in R /\ e.at = p /\ e.value = s.value /\ Len(p) \in Nat
    BY <1>10, <2>1, AtIs, PlacesAre
  <2>3. Sound(e)
    BY <1>1, <2>2 DEF Closed
  <2>4. ~IsNode(e.value)
    <3>1. SUFFICES ASSUME IsNode(e.value) PROVE FALSE
      OBVIOUS
    <3>2. Len(p) < AddressLength
      BY <2>2, <2>3, <3>1, SoundIs
    <3>3. Len(p) >= AddressLength
      BY <1>10, <2>2, <3>1
    <3> QED
      BY <1>2, <2>2, <3>2, <3>3
  <2>5. e.value \in AccountValues /\ p \in Addresses
    BY <2>2, <2>3, <2>4, SoundIs
  <2>6. p = a
    BY <1>2, <1>10, <2>5, MatchesItself, PlacesAre
  <2>7. Reached(e) = {e}
    BY <2>4, LeafReaches
  <2> QED
    BY <1>10, <2>1, <2>2, <2>5, <2>6, <2>7, AtIs
<1> QED
  BY <1>3, <1>7, <1>8, <1>9, <1>10

\* What putAccount is called for, on a tree with everything in D.
Behaves(x, D) ==
    /\ x.changes \in Maps /\ x.prefix \in Places /\ x.met.at \in Places
    /\ x.met \in D \/ (x.met.value = Absent /\ x.met = At(x.met.at, Absent))
    /\ Known(x.changes) # {}
    /\ \A a \in Known(x.changes) : Matches(x.prefix, a, 0)
    /\ Matches(x.prefix, x.met.at, 0)

Arg(x, D) ==
    Behaves(x, D) /\ (Len(x.prefix) < AddressLength => IsNode(x.met.value) \/ ~Single(x))

LEMMA EntryIs ==
    ASSUME NEW D, Closed(D), NEW e \in D
    PROVE  Sound(e) /\ e = At(e.at, e.value)
<1>1. Sound(e)
  BY DEF Closed
<1>2. PICK p, v : e = At(p, v)
  BY <1>1 DEF Sound
<1> QED
  BY <1>1, <1>2, AtIs

\* The account in the way, and the changes it is put with.
LEMMA WithAccountIs ==
    ASSUME NEW D, Closed(D), NEW x, Behaves(x, D)
    PROVE  LET w == WithAccount(x) IN
           /\ w \in Maps /\ Changed(x) = {a \in Addresses : w[a] # Absent}
           /\ \A a \in Addresses : x.changes[a] # Absent => w[a] = x.changes[a]
           /\ \A a \in Changed(x) : Matches(x.prefix, a, 0)
           /\ Known(x.changes) \subseteq Changed(x)
           /\ IsNode(x.met.value) \/ x.met.value = Absent => w = x.changes
           /\ ~IsNode(x.met.value) /\ x.met.value # Absent =>
                /\ x.met \in D /\ x.met.at \in Addresses /\ x.met.value \in AccountValues
                /\ x.met.at \in Changed(x)
                /\ \A a \in Addresses \ {x.met.at} : w[a] = x.changes[a]
                /\ x.changes[x.met.at] = Absent => w[x.met.at] = x.met.value
<1>0. PICK w : w = WithAccount(x)
  OBVIOUS
<1>1. /\ x.changes \in [Addresses -> AccountValues \cup {Absent}]
      /\ \A a \in Known(x.changes) : Matches(x.prefix, a, 0)
      /\ Matches(x.prefix, x.met.at, 0)
      /\ x.met \in D \/ x.met.value = Absent
  BY DEF Behaves, Maps
<1>2. Changed(x) = {a \in Addresses : w[a] # Absent}
      /\ Known(x.changes) = {a \in Addresses : x.changes[a] # Absent}
  BY <1>0 DEF Changed, Known
<1>3. CASE IsNode(x.met.value) \/ x.met.value = Absent
  <2>1. w = x.changes
    BY <1>0, <1>3 DEF WithAccount
  <2> QED
    BY <1>0, <1>1, <1>2, <1>3, <2>1 DEF Maps
<1>4. CASE ~IsNode(x.met.value) /\ x.met.value # Absent
  <2>1. x.met \in D /\ x.met.at \in Addresses /\ x.met.value \in AccountValues
    BY <1>1, <1>4, EntryIs, SoundIs
  <2>2. CASE x.changes[x.met.at] # Absent
    <3>1. w = x.changes
      BY <1>0, <2>2 DEF WithAccount
    <3> QED
      BY <1>0, <1>1, <1>2, <1>4, <2>1, <2>2, <3>1 DEF Maps
  <2>3. CASE x.changes[x.met.at] = Absent
    <3>1. w = [x.changes EXCEPT ![x.met.at] = x.met.value]
      BY <1>0, <1>4, <2>3 DEF WithAccount
    <3>2. w \in Maps
      BY <1>1, <2>1, <3>1 DEF Maps
    <3>3. w[x.met.at] = x.met.value /\ \A a \in Addresses \ {x.met.at} : w[a] = x.changes[a]
      BY <1>1, <2>1, <3>1
    <3>4. \A a \in Addresses : x.changes[a] # Absent => w[a] = x.changes[a]
      BY <2>3, <3>3
    <3>5. x.met.at \in Changed(x) /\ Known(x.changes) \subseteq Changed(x)
      BY <1>2, <1>4, <2>1, <3>3, <3>4
    <3>6. \A a \in Changed(x) : Matches(x.prefix, a, 0)
      BY <1>1, <1>2, <3>3
    <3> QED
      BY <1>0, <1>2, <1>4, <2>1, <2>3, <3>2, <3>3, <3>4, <3>5, <3>6
  <2> QED
    BY <2>2, <2>3
<1> QED
  BY <1>3, <1>4

LEMMA PartIs ==
    ASSUME NEW p \in Places, NEW k \in 0 .. Len(p), NEW m \in k .. Len(p)
    PROVE  LET q == SubSeq(p, k + 1, m) IN
           /\ q \in Places /\ Len(q) = m - k
           /\ \A i \in 1 .. m - k : q[i] = p[k + i]
<1>1. p \in Seq(Bytes) /\ Len(p) \in Nat /\ Len(p) <= AddressLength /\ AddressLength \in Nat
  BY PlacesAre
<1>2. PICK q : q = SubSeq(p, k + 1, m)
  OBVIOUS
<1>3. q \in Seq(Bytes) /\ Len(q) = m - k /\ \A i \in 1 .. m - k : q[i] = p[k + i]
  <2>1. q = [i \in 1 .. m - k |-> p[k + i]]
    BY <1>1, <1>2
  <2>2. \A i \in 1 .. m - k : p[k + i] \in Bytes
    BY <1>1
  <2>3. m - k \in Nat /\ q \in [1 .. m - k -> Bytes]
    BY <1>1, <2>1, <2>2
  <2>4. q \in Seq(Bytes) /\ Len(q) = m - k
    BY <2>3
  <2>5. \A i \in 1 .. m - k : q[i] = p[k + i]
    BY <2>1
  <2> QED
    BY <2>4, <2>5
<1>4. m - k <= AddressLength
  BY <1>1
<1> QED
  BY <1>2, <1>3, <1>4, PlacesAre

\* The references a node is opened to lead where the node led.
LEMMA OpenedIs ==
    ASSUME NEW D, Closed(D), NEW x, Behaves(x, D), Len(x.prefix) < AddressLength
    PROVE  /\ ~IsNode(x.met.value) => Opened(x) = {}
           /\ \A r \in Opened(x) :
                /\ \E p, c : r = Ref(p, c)
                /\ r.address \in Places /\ Len(r.address) >= 1
                /\ Len(x.prefix) + Len(r.address) <= AddressLength
                /\ Behind(x.prefix, r) \in D
           /\ \A r, s \in Opened(x) : r.address[1] = s.address[1] => r = s
           /\ IsNode(x.met.value) =>
                \A a \in Addresses : \A c : At(a, c) \in Reached(x.met) <=>
                    \E r \in Opened(x) : At(a, c) \in Reached(Behind(x.prefix, r))
<1> DEFINE e == x.met
<1>1. CASE ~IsNode(e.value)
  BY <1>1 DEF Opened
<1>2. CASE IsNode(e.value)
  <2>1. e \in D /\ Sound(e) /\ e = At(e.at, e.value) /\ e.at \in Places /\ x.prefix \in Places
        /\ Matches(x.prefix, e.at, 0)
    BY <1>2, EntryIs, ValuesAre DEF Behaves
  <2>2. Len(e.at) < AddressLength /\ Len(e.at) \in Nat /\ Len(x.prefix) \in Nat /\ AddressLength \in Nat
    BY <1>2, <2>1, SoundIs, PlacesAre
  <2>3. CASE e.at = x.prefix
    <3>1. Opened(x) = e.value.refs
      BY <1>2, <2>3 DEF Opened
    <3>2. \A r : Behind(x.prefix, r) = Child(e, r)
      BY <2>3 DEF Child
    <3>3. \A r \in e.value.refs : Child(e, r) \in D
      BY <1>2, <2>1 DEF Closed, Complete
    <3>4. \A a \in Addresses : \A c : At(a, c) # e
      BY <2>1, <2>2, AtIs, PlacesAre
    <3>5. \A a \in Addresses : \A c : At(a, c) \in Reached(e) <=> \E r \in e.value.refs : At(a, c) \in Reached(Child(e, r))
      BY <1>2, <2>1, <3>4, ReachedUnfolds
    <3>6. /\ \A r \in e.value.refs :
                /\ \E p, c : r = Ref(p, c)
                /\ r.address \in Places /\ Len(r.address) >= 1
                /\ Len(e.at) + Len(r.address) <= AddressLength
          /\ \A r, s \in e.value.refs : r.address[1] = s.address[1] => r = s
      BY <2>1, <2>2 DEF Sound
    <3> QED
      BY <1>2, <2>3, <3>1, <3>2, <3>3, <3>5, <3>6
  <2>4. CASE e.at # x.prefix
    <3>1. PICK q : q = SubSeq(e.at, Len(x.prefix) + 1, Len(e.at))
      OBVIOUS
    <3>2. PICK r : r = Ref(q, e.value)
      OBVIOUS
    <3>3. Opened(x) = {r} /\ r.address = q /\ r.child = e.value
      BY <1>2, <2>4, <3>1, <3>2 DEF Opened, Ref
    <3>4. Len(x.prefix) <= Len(e.at) /\ \A i \in 1 .. Len(x.prefix) : x.prefix[i] = e.at[i]
      BY <2>1, <2>2 DEF Matches
    <3>5. Len(x.prefix) < Len(e.at)
      <4>1. Len(x.prefix) # Len(e.at)
        BY <2>1, <2>2, <2>4, MatchesItself
      <4> QED
        BY <2>2, <3>4, <4>1
    <3>6. /\ q \in Places /\ Len(q) = Len(e.at) - Len(x.prefix)
          /\ \A i \in 1 .. Len(e.at) - Len(x.prefix) : q[i] = e.at[Len(x.prefix) + i]
      <4>1. Len(x.prefix) \in 0 .. Len(e.at) /\ Len(e.at) \in Len(x.prefix) .. Len(e.at)
        BY <2>2, <3>5
      <4> QED
        BY <2>1, <3>1, <4>1, PartIs
    <3>7. Join(x.prefix, q) = e.at
      <4>1. PICK j : j = Join(x.prefix, q)
        OBVIOUS
      <4>2. /\ j \in Seq(Bytes) /\ Len(j) = Len(x.prefix) + Len(q)
            /\ \A i \in 1 .. Len(x.prefix) : j[i] = x.prefix[i]
            /\ \A i \in 1 .. Len(q) : j[Len(x.prefix) + i] = q[i]
        BY <2>1, <3>6, <4>1, Joined
      <4>3. Len(j) = Len(e.at) /\ e.at \in Seq(Bytes)
        BY <2>1, <2>2, <3>6, <4>2, PlacesAre
      <4>4. ASSUME NEW i \in 1 .. Len(j) PROVE j[i] = e.at[i]
        <5>1. CASE i <= Len(x.prefix)
          BY <2>2, <3>4, <4>2, <5>1
        <5>2. CASE i > Len(x.prefix)
          <6>1. PICK k : k = i - Len(x.prefix)
            OBVIOUS
          <6>2. k \in 1 .. Len(q) /\ i = Len(x.prefix) + k /\ k \in 1 .. Len(e.at) - Len(x.prefix)
            BY <2>2, <3>6, <4>2, <5>2, <6>1
          <6> QED
            BY <3>6, <4>2, <6>2
        <5> QED
          BY <2>2, <4>3, <5>1, <5>2
      <4> QED
        BY <4>1, <4>2, <4>3, <4>4, SamePlace
    <3>8. Behind(x.prefix, r) = e
      BY <2>1, <3>3, <3>7 DEF Behind
    <3>9. Len(q) >= 1 /\ Len(x.prefix) + Len(q) <= AddressLength
      BY <2>2, <3>5, <3>6
    <3> QED
      BY <1>2, <2>1, <3>2, <3>3, <3>6, <3>8, <3>9
  <2> QED
    BY <2>3, <2>4
<1> QED
  BY <1>1, <1>2

\* What the changes say of an account, and what is left of the tree says of the others.
Says(x, a, c) == IF x.changes[a] # Absent THEN c = x.changes[a] ELSE At(a, c) \in Reached(x.met)

LEMMA SaysIs ==
    ASSUME NEW D, Closed(D), NEW x, Behaves(x, D), Len(x.prefix) < AddressLength,
           NEW a \in Addresses, NEW c \in AccountValues
    PROVE  Says(x, a, c) <=>
             IF WithAccount(x)[a] # Absent THEN c = WithAccount(x)[a]
             ELSE \E r \in Opened(x) : At(a, c) \in Reached(Behind(x.prefix, r))
<1>0. PICK w : w = WithAccount(x)
  OBVIOUS
<1>1. CASE IsNode(x.met.value)
  <2>1. w = x.changes
    BY <1>0, <1>1, WithAccountIs
  <2>2. At(a, c) \in Reached(x.met) <=> \E r \in Opened(x) : At(a, c) \in Reached(Behind(x.prefix, r))
    BY <1>1, OpenedIs
  <2> QED
    BY <1>0, <2>1, <2>2 DEF Says
<1>2. CASE ~IsNode(x.met.value)
  <2>1. Reached(x.met) = {x.met} /\ Opened(x) = {}
    BY <1>2, LeafReaches, OpenedIs
  <2>2. CASE x.met.value = Absent
    <3>1. w = x.changes
      BY <1>0, <2>2, WithAccountIs
    <3>2. At(a, c) # x.met
      BY <2>2, ValuesAre, AtIs
    <3> QED
      BY <1>0, <2>1, <3>1, <3>2 DEF Says
  <2>3. CASE x.met.value # Absent
    <3>1. /\ x.met \in D
          /\ \A d \in Addresses \ {x.met.at} : w[d] = x.changes[d]
          /\ x.changes[x.met.at] = Absent => w[x.met.at] = x.met.value
          /\ x.changes[a] # Absent => w[a] = x.changes[a]
          /\ x.met.value \in AccountValues
      BY <1>0, <1>2, <2>3, WithAccountIs
    <3>2. x.met = At(x.met.at, x.met.value)
      BY <3>1, EntryIs
    <3>3. At(a, c) \in Reached(x.met) <=> a = x.met.at /\ c = x.met.value
      BY <2>1, <3>2, AtIs
    <3>4. CASE a = x.met.at /\ x.changes[a] = Absent
      BY <1>0, <2>1, <2>3, <3>1, <3>3, <3>4 DEF Says
    <3>5. CASE a # x.met.at \/ x.changes[a] # Absent
      <4>1. w[a] = x.changes[a]
        BY <3>1, <3>5
      <4> QED
        BY <1>0, <2>1, <3>3, <3>5, <4>1 DEF Says
    <3> QED
      BY <3>4, <3>5
  <2> QED
    BY <2>2, <2>3
<1> QED
  BY <1>1, <1>2

LEMMA MaxIs ==
    ASSUME NEW N \in Nat, NEW S \in SUBSET (0 .. N), S # {}
    PROVE  Max(S) \in S /\ \A y \in S : Max(S) >= y
<1>1. \E m \in S : \A y \in S : m >= y
  <2> DEFINE T == {k \in 0 .. N : N - k \notin S}
  <2>1. SUFFICES ASSUME \A m \in S : \E y \in S : ~ (m >= y) PROVE FALSE
    OBVIOUS
  <2>2. 0 \in T
    BY <2>1
  <2> DEFINE U == {k \in 0 .. N : \A j \in 0 .. k : N - j \notin S}
  <2>3. 0 \in U
    BY <2>2
  <2>4. ASSUME NEW k \in 0 .. N - 1, k \in U
        PROVE  k + 1 \in U
    <3>1. k + 1 \in 0 .. N /\ k \in Nat
      OBVIOUS
    <3>2. ASSUME N - (k + 1) \in S PROVE FALSE
      <4>1. PICK y \in S : ~ (N - (k + 1) >= y)
        BY <2>1, <3>2
      <4>2. y \in 0 .. N /\ N - y \in 0 .. k /\ N - (N - y) = y
        BY <3>1, <4>1
      <4> QED
        BY <2>4, <4>1, <4>2
    <3>3. ASSUME NEW j \in 0 .. k + 1 PROVE N - j \notin S
      <4>1. j \in 0 .. k \/ j = k + 1
        BY <3>1
      <4> QED
        BY <2>4, <3>2, <4>1
    <3> QED
      BY <3>1, <3>3
  <2>5. 0 .. N \subseteq U
    <3> HIDE DEF U
    <3> QED
      BY <2>3, <2>4, CountingUp
  <2>6. PICK y \in S : TRUE
    OBVIOUS
  <2>7. N - y \in 0 .. N /\ N - (N - y) = y
    BY <2>6
  <2>8. N - y \in U
    BY <2>5, <2>7
  <2>9. N - y \in 0 .. N - y
    BY <2>7
  <2> QED
    BY <2>6, <2>7, <2>8, <2>9
<1> QED
  BY <1>1 DEF Max

\* A group of changes goes as far as its addresses, and the reference they meet, have in
\* common, and no less.
LEMMA SliceIs ==
    ASSUME NEW D, Closed(D), NEW x, Behaves(x, D), Len(x.prefix) < AddressLength, NEW b \in Firsts(x)
    PROVE  LET p == Slice(x, b)
               size == Len(x.prefix) IN
           /\ Group(x, b) # {} /\ Group(x, b) \subseteq Addresses
           /\ p \in Places /\ Len(p) >= 1 /\ size + Len(p) <= AddressLength /\ p[1] = b
           /\ \A c \in Group(x, b) : Matches(p, c, size)
           /\ \A r \in Met(x, b) : Matches(p, r.address, 0)
           /\ size + Len(p) < AddressLength =>
                \/ \E c, d \in Group(x, b) : c[size + Len(p) + 1] # d[size + Len(p) + 1]
                \/ \E r \in Met(x, b) :
                     \/ Len(r.address) = Len(p)
                     \/ /\ Len(r.address) > Len(p)
                        /\ \E c \in Group(x, b) : r.address[Len(p) + 1] # c[size + Len(p) + 1]
<1>1. PICK size : size = Len(x.prefix)
  OBVIOUS
<1>2. PICK group : group = Group(x, b)
  OBVIOUS
<1>3. PICK a : a = CHOOSE c \in group : TRUE
  OBVIOUS
<1> DEFINE L == AddressLength
           Part(k) == SubSeq(a, size + 1, size + k)
           shared == {k \in 1 .. L - size :
                        /\ \A c \in group : \A i \in 1 .. k : c[size + i] = a[size + i]
                        /\ \A r \in Met(x, b) : Matches(Part(k), r.address, 0)}
<1>4. Slice(x, b) = Part(Max(shared))
  BY <1>1, <1>2, <1>3 DEF Slice
<1>5. x.prefix \in Places /\ size \in Nat /\ size < L /\ L \in Nat /\ L - size \in Nat /\ L - size >= 1
  BY <1>1, PlacesAre DEF Behaves
<1>6. /\ \A c \in group : c \in Addresses /\ c[size + 1] = b /\ c \in Places /\ Len(c) = L
      /\ group # {}
  BY <1>1, <1>2, WithAccountIs, PlacesAre DEF Group, Firsts, NextByte
<1>7. a \in group
  BY <1>3, <1>6
<1>8. \A r \in Met(x, b) : r.address \in Places /\ Len(r.address) >= 1 /\ r.address[1] = b /\ Len(r.address) \in Nat
  <2>1. \A r \in Met(x, b) : r \in Opened(x) /\ r.address[1] = b
    BY DEF Met
  <2>2. \A r \in Opened(x) : r.address \in Places /\ Len(r.address) >= 1
    BY OpenedIs
  <2> QED
    BY <2>1, <2>2, PlacesAre
<1>9. ASSUME NEW k \in 1 .. L - size
      PROVE  /\ Part(k) \in Places /\ Len(Part(k)) = k
             /\ \A i \in 1 .. k : Part(k)[i] = a[size + i]
  <2>1. size \in 0 .. Len(a) /\ size + k \in size .. Len(a) /\ (size + k) - size = k /\ a \in Places
    BY <1>5, <1>6, <1>7
  <2> QED
    BY <2>1, PartIs
<1> HIDE DEF Part
<1>10. 1 \in shared
  <2>1. 1 \in 1 .. L - size /\ \A i \in 1 .. 1 : i = 1
    BY <1>5
  <2>2. \A c \in group : \A i \in 1 .. 1 : c[size + i] = a[size + i]
    BY <1>6, <1>7, <2>1
  <2>3. Len(Part(1)) = 1 /\ Part(1)[1] = a[size + 1] /\ a[size + 1] = b
    <3>1. Len(Part(1)) = 1 /\ \A i \in 1 .. 1 : Part(1)[i] = a[size + i]
      BY <1>9, <2>1
    <3>2. 1 \in 1 .. 1
      OBVIOUS
    <3> QED
      BY <1>6, <1>7, <3>1, <3>2
  <2>4. ASSUME NEW r \in Met(x, b) PROVE Matches(Part(1), r.address, 0)
    <3>1. Len(r.address) >= 1 /\ r.address[1] = b /\ Len(r.address) \in Nat
      BY <1>8
    <3>2. PICK q : q = Part(1)
      OBVIOUS
    <3>3. Len(q) = 1 /\ q[1] = r.address[1]
      BY <2>3, <3>1, <3>2
    <3>4. Len(q) <= Len(r.address) - 0
      BY <3>1, <3>3
    <3>5. ASSUME NEW i \in 1 .. Len(q) PROVE q[i] = r.address[0 + i]
      <4>1. i = 1 /\ 0 + i = 1
        BY <3>3
      <4> QED
        BY <3>3, <4>1
    <3> QED
      BY <3>2, <3>4, <3>5 DEF Matches
  <2> QED
    BY <2>1, <2>2, <2>4
<1>11. PICK m : m = Max(shared)
  OBVIOUS
<1>12. shared \in SUBSET (0 .. L - size) /\ shared # {} /\ shared \subseteq 1 .. L - size
  <2>1. shared \subseteq 1 .. L - size
    OBVIOUS
  <2>2. 1 .. L - size \subseteq 0 .. L - size
    BY <1>5
  <2> HIDE DEF shared
  <2> QED
    BY <1>10, <2>1, <2>2
<1>13. m \in shared /\ \A y \in shared : m >= y
  <2> HIDE DEF shared
  <2> QED
    BY <1>5, <1>11, <1>12, MaxIs
<1>14. PICK p : p = Part(m)
  OBVIOUS
<1>15. p = Slice(x, b)
  BY <1>4, <1>11, <1>14
<1>16. /\ m \in 1 .. L - size /\ m \in Nat
       /\ \A c \in group : \A i \in 1 .. m : c[size + i] = a[size + i]
       /\ \A r \in Met(x, b) : Matches(p, r.address, 0)
  BY <1>5, <1>13, <1>14
<1>17. p \in Places /\ Len(p) = m /\ \A i \in 1 .. m : p[i] = a[size + i]
  BY <1>9, <1>14, <1>16
<1>18. p[1] = b /\ size + m <= L
  BY <1>5, <1>6, <1>7, <1>16, <1>17
<1>19. ASSUME NEW c \in group PROVE Matches(p, c, size)
  <2>1. Len(c) = L /\ \A i \in 1 .. m : c[size + i] = a[size + i]
    BY <1>6, <1>16
  <2>2. m <= L - size
    BY <1>5, <1>16
  <2> QED
    BY <1>17, <2>1, <2>2 DEF Matches
<1>20. ASSUME size + m < L
       PROVE  \/ \E c, d \in group : c[size + m + 1] # d[size + m + 1]
              \/ \E r \in Met(x, b) :
                   \/ Len(r.address) = m
                   \/ /\ Len(r.address) > m
                      /\ \E c \in group : r.address[m + 1] # c[size + m + 1]
  <2>1. m + 1 \in 1 .. L - size /\ m + 1 \notin shared /\ size + (m + 1) = size + m + 1
    <3>1. m + 1 \in 1 .. L - size /\ size + (m + 1) = size + m + 1 /\ ~ (m >= m + 1)
      BY <1>5, <1>16, <1>20
    <3> HIDE DEF shared
    <3> QED
      BY <1>13, <3>1
  <2>2. CASE \E c \in group : \E i \in 1 .. m + 1 : c[size + i] # a[size + i]
    <3>1. PICK c \in group, i \in 1 .. m + 1 : c[size + i] # a[size + i]
      BY <2>2
    <3>2. i = m + 1
      BY <1>16, <3>1
    <3> QED
      BY <1>7, <2>1, <3>1, <3>2
  <2>3. CASE \E r \in Met(x, b) : ~Matches(Part(m + 1), r.address, 0)
    <3>1. PICK r \in Met(x, b) : ~Matches(Part(m + 1), r.address, 0)
      BY <2>3
    <3>2. Len(Part(m + 1)) = m + 1 /\ \A i \in 1 .. m + 1 : Part(m + 1)[i] = a[size + i]
      BY <1>9, <2>1
    <3>3. m <= Len(r.address) /\ (\A i \in 1 .. m : p[i] = r.address[i]) /\ Len(r.address) \in Nat
      BY <1>8, <1>16, <1>17 DEF Matches
    <3>4. CASE Len(r.address) = m
      BY <3>4
    <3>5. CASE Len(r.address) > m
      <4>1. PICK i \in 1 .. m + 1 : a[size + i] # r.address[i]
        <5>1. m + 1 <= Len(r.address)
          BY <1>16, <3>3, <3>5
        <5>2. ~ \A i \in 1 .. m + 1 : Part(m + 1)[i] = r.address[0 + i]
          BY <3>1, <3>2, <3>3, <5>1 DEF Matches
        <5> QED
          BY <3>2, <5>2
      <4>2. i = m + 1
        BY <1>16, <1>17, <3>3, <4>1
      <4> QED
        BY <1>7, <2>1, <3>5, <4>1, <4>2
    <3> QED
      BY <1>16, <3>3, <3>4, <3>5
  <2> QED
    BY <2>1, <2>2, <2>3
<1>21. group \subseteq Addresses /\ Len(p) >= 1
  BY <1>6, <1>16, <1>17
<1>22. /\ group # {} /\ group \subseteq Addresses
       /\ p \in Places /\ Len(p) >= 1 /\ size + Len(p) <= L /\ p[1] = b
       /\ \A c \in group : Matches(p, c, size)
       /\ \A r \in Met(x, b) : Matches(p, r.address, 0)
       /\ size + Len(p) < L =>
                \/ \E c, d \in group : c[size + Len(p) + 1] # d[size + Len(p) + 1]
                \/ \E r \in Met(x, b) :
                     \/ Len(r.address) = Len(p)
                     \/ /\ Len(r.address) > Len(p)
                        /\ \E c \in group : r.address[Len(p) + 1] # c[size + Len(p) + 1]
  BY <1>6, <1>16, <1>17, <1>18, <1>19, <1>20, <1>21
<1> QED
  BY <1>1, <1>2, <1>15, <1>22

LEMMA OpenedFirst ==
    ASSUME NEW D, Closed(D), NEW x, Behaves(x, D), IsNode(x.met.value)
    PROVE  /\ x.met.at = x.prefix => Opened(x) = x.met.value.refs
           /\ Len(x.met.at) > Len(x.prefix) => \E r \in Opened(x) : r.address[1] = x.met.at[Len(x.prefix) + 1]
<1>1. x.met.at = x.prefix => Opened(x) = x.met.value.refs
  BY DEF Opened
<1>2. ASSUME Len(x.met.at) > Len(x.prefix)
      PROVE  \E r \in Opened(x) : r.address[1] = x.met.at[Len(x.prefix) + 1]
  <2>1. PICK q : q = SubSeq(x.met.at, Len(x.prefix) + 1, Len(x.met.at))
    OBVIOUS
  <2>2. PICK r : r = Ref(q, x.met.value)
    OBVIOUS
  <2>3. x.met.at \in Places /\ Len(x.met.at) \in Nat /\ Len(x.prefix) \in Nat
    BY PlacesAre DEF Behaves
  <2>4. x.met.at # x.prefix
    BY <1>2, <2>3
  <2>5. Opened(x) = {r} /\ r.address = q
    BY <2>1, <2>2, <2>4 DEF Opened, Ref
  <2>6. Len(x.prefix) \in 0 .. Len(x.met.at) /\ Len(x.met.at) \in Len(x.prefix) .. Len(x.met.at)
        /\ 1 \in 1 .. Len(x.met.at) - Len(x.prefix)
    BY <1>2, <2>3
  <2>7. q[1] = x.met.at[Len(x.prefix) + 1]
    BY <2>1, <2>3, <2>6, PartIs
  <2> QED
    BY <2>5, <2>7
<1> QED
  BY <1>1, <1>2

\* What the references and the changes start with has nothing in common: the node that
\* comes of it has two references.
Tight(x) ==
    x.prefix # <<>> /\ Len(x.prefix) < AddressLength =>
        \/ \E a, c \in Changed(x) : NextByte(x, a) # NextByte(x, c)
        \/ \E r, s \in Opened(x) : r # s
        \/ \E a \in Changed(x), r \in Opened(x) : NextByte(x, a) # r.address[1]

LEMMA SubArgsBehave ==
    ASSUME NEW D, Closed(D), NEW x, Behaves(x, D), Len(x.prefix) < AddressLength, NEW b \in Firsts(x)
    PROVE  LET y == SubArgs(x, b)
               p == Slice(x, b) IN
           /\ Behaves(y, D)
           /\ y.prefix = Join(x.prefix, p) /\ Len(y.prefix) = Len(x.prefix) + Len(p)
           /\ y = [met |-> y.met, changes |-> y.changes, prefix |-> y.prefix]
           /\ \A a \in Addresses : y.changes[a] = IF a \in Group(x, b) THEN WithAccount(x)[a] ELSE Absent
           /\ Known(y.changes) = Group(x, b)
           /\ Met(x, b) = {} => y.met = At(y.prefix, Absent)
           /\ \A r \in Met(x, b) : Met(x, b) = {r} /\ y.met = Behind(x.prefix, r) /\ y.met \in D
<1>1. PICK y : y = SubArgs(x, b)
  OBVIOUS
<1>2. PICK p : p = Slice(x, b)
  OBVIOUS
<1>3. PICK w : w = WithAccount(x)
  OBVIOUS
<1>4. PICK group : group = Group(x, b)
  OBVIOUS
<1>5. PICK q : q = Join(x.prefix, p)
  OBVIOUS
<1>6. PICK ref : ref = CHOOSE r \in Met(x, b) : TRUE
  OBVIOUS
<1>7. /\ y.met = (IF Met(x, b) = {} THEN At(q, Absent) ELSE Behind(x.prefix, ref))
      /\ y.changes = [a \in Addresses |-> IF a \in group THEN w[a] ELSE Absent]
      /\ y.prefix = q
  BY <1>1, <1>2, <1>3, <1>4, <1>5, <1>6 DEF SubArgs, Behind, Join
<1>21. y = [met |-> y.met, changes |-> y.changes, prefix |-> y.prefix]
  BY <1>1 DEF SubArgs
<1>8. /\ group # {} /\ group \subseteq Addresses
      /\ p \in Places /\ Len(p) >= 1 /\ Len(x.prefix) + Len(p) <= AddressLength
      /\ \A c \in group : Matches(p, c, Len(x.prefix))
      /\ \A r \in Met(x, b) : Matches(p, r.address, 0)
  BY <1>2, <1>4, SliceIs
<1>9. w \in Maps /\ Changed(x) = {a \in Addresses : w[a] # Absent} /\ \A a \in Changed(x) : Matches(x.prefix, a, 0)
  BY <1>3, WithAccountIs
<1>10. \A a \in group : a \in Addresses /\ a \in Places /\ w[a] # Absent /\ Matches(x.prefix, a, 0)
  BY <1>4, <1>8, <1>9, PlacesAre DEF Group
<1>11. x.prefix \in Places /\ Len(x.prefix) \in Nat
  BY PlacesAre DEF Behaves
<1>12. q \in Places /\ Len(q) = Len(x.prefix) + Len(p)
  BY <1>5, <1>8, <1>11, Joined
<1>13. y.changes \in Maps
  BY <1>7, <1>9 DEF Maps
<1>14. Known(y.changes) = group
  BY <1>7, <1>10 DEF Known
<1>15. \A a \in group : Matches(q, a, 0)
  BY <1>5, <1>8, <1>10, <1>11, MatchesJoined
<1>16. \A r \in Met(x, b) : Met(x, b) = {r} /\ r \in Opened(x) /\ r.address \in Places
                             /\ Behind(x.prefix, r) \in D
  <2>1. \A r \in Met(x, b) : r \in Opened(x) /\ r.address[1] = b
    BY DEF Met
  <2>2. /\ \A r, s \in Opened(x) : r.address[1] = s.address[1] => r = s
        /\ \A r \in Opened(x) : r.address \in Places /\ Behind(x.prefix, r) \in D
    BY OpenedIs
  <2> QED
    BY <2>1, <2>2
<1>17. \A r \in Met(x, b) : y.met = Behind(x.prefix, r)
  BY <1>6, <1>7, <1>16
<1>18. CASE Met(x, b) = {}
  <2>1. y.met = At(q, Absent) /\ y.met.at = q /\ y.met.value = Absent
    BY <1>7, <1>18, AtIs
  <2>2. Matches(q, q, 0)
    BY <1>12, PlacesAre DEF Matches
  <2>3. Behaves(y, D)
    BY <1>7, <1>8, <1>12, <1>13, <1>14, <1>15, <2>1, <2>2 DEF Behaves
  <2> QED
    BY <1>1, <1>2, <1>3, <1>4, <1>5, <1>7, <1>12, <1>14, <1>18, <1>21, <2>1, <2>3
<1>19. ASSUME NEW r \in Met(x, b)
       PROVE  Behaves(y, D)
  <2>1. y.met = Behind(x.prefix, r) /\ y.met \in D /\ r.address \in Places
    BY <1>16, <1>17
  <2>2. y.met.at \in Places /\ y.met.at = Join(x.prefix, r.address)
    BY <2>1, EntryIs, AtIs DEF Sound, Behind
  <2>3. Matches(p, r.address, 0)
    BY <1>8
  <2>4. Matches(x.prefix, y.met.at, 0) /\ Matches(r.address, y.met.at, Len(x.prefix))
    BY <1>11, <2>1, <2>2, MatchesJoined
  <2>5. Matches(p, y.met.at, Len(x.prefix))
    <3>1. Len(p) \in Nat /\ Len(r.address) \in Nat /\ Len(y.met.at) \in Nat
      BY <1>8, <2>1, <2>2, PlacesAre
    <3>2. Len(p) <= Len(r.address) /\ \A i \in 1 .. Len(p) : p[i] = r.address[i]
      BY <2>3, <3>1 DEF Matches
    <3>3. Len(r.address) <= Len(y.met.at) - Len(x.prefix)
          /\ \A i \in 1 .. Len(r.address) : r.address[i] = y.met.at[Len(x.prefix) + i]
      BY <2>4 DEF Matches
    <3>4. Len(p) <= Len(y.met.at) - Len(x.prefix)
      <4>1. Len(p) <= Len(r.address) /\ Len(r.address) <= Len(y.met.at) - Len(x.prefix)
        BY <3>2, <3>3
      <4>2. \A i, j, k, l \in Nat : i <= j /\ j <= k - l => i <= k - l
        OBVIOUS
      <4> QED
        BY <1>11, <3>1, <4>1, <4>2
    <3>5. \A i \in 1 .. Len(p) : p[i] = y.met.at[Len(x.prefix) + i]
      BY <3>1, <3>2, <3>3
    <3> QED
      BY <3>4, <3>5 DEF Matches
  <2>6. Matches(q, y.met.at, 0)
    BY <1>5, <1>8, <1>11, <2>2, <2>4, <2>5, MatchesJoined
  <2> QED
    BY <1>7, <1>8, <1>12, <1>13, <1>14, <1>15, <2>1, <2>2, <2>6 DEF Behaves
<1>20. CASE Met(x, b) # {}
  <2>1. Behaves(y, D)
    BY <1>19, <1>20
  <2> QED
    BY <1>1, <1>2, <1>3, <1>4, <1>5, <1>7, <1>12, <1>14, <1>16, <1>17, <1>20, <1>21, <2>1
<1> QED
  BY <1>18, <1>20

\* Where a group stops above the end of its addresses there are two ways to go on.
LEMMA SubArgsGoOn ==
    ASSUME NEW D, Closed(D), NEW x, Behaves(x, D), Len(x.prefix) < AddressLength, NEW b \in Firsts(x)
    PROVE  Arg(SubArgs(x, b), D) /\ Tight(SubArgs(x, b))
<1>1. PICK y : y = SubArgs(x, b)
  OBVIOUS
<1>2. PICK p : p = Slice(x, b)
  OBVIOUS
<1>3. PICK group : group = Group(x, b)
  OBVIOUS
<1>4. PICK m : m = Len(x.prefix) + Len(p)
  OBVIOUS
<1>5. /\ Behaves(y, D) /\ Len(y.prefix) = m
      /\ Known(y.changes) = group
      /\ \A r \in Met(x, b) : y.met = Behind(x.prefix, r) /\ y.met \in D
  BY <1>1, <1>2, <1>3, <1>4, SubArgsBehave
<1>6. SUFFICES ASSUME m < AddressLength
               PROVE  /\ IsNode(y.met.value) \/ ~Single(y)
                      /\ \/ \E a, c \in Changed(y) : NextByte(y, a) # NextByte(y, c)
                         \/ \E r, s \in Opened(y) : r # s
                         \/ \E a \in Changed(y), r \in Opened(y) : NextByte(y, a) # r.address[1]
  BY <1>1, <1>5 DEF Arg, Tight
<1>7. /\ p \in Places /\ Len(p) >= 1
      /\ \A r \in Met(x, b) : Matches(p, r.address, 0)
      /\ \/ \E c, d \in group : c[m + 1] # d[m + 1]
         \/ \E r \in Met(x, b) :
              \/ Len(r.address) = Len(p)
              \/ /\ Len(r.address) > Len(p)
                 /\ \E c \in group : r.address[Len(p) + 1] # c[m + 1]
  BY <1>2, <1>3, <1>4, <1>6, SliceIs
<1>8. group \subseteq Changed(y) /\ \A a : NextByte(y, a) = a[m + 1]
  BY <1>5, WithAccountIs DEF NextByte
<1>9. x.prefix \in Places /\ Len(x.prefix) \in Nat /\ Len(p) \in Nat /\ m \in Nat /\ y.prefix \in Places
      /\ AddressLength \in Nat
  BY <1>4, <1>5, <1>7, PlacesAre DEF Behaves
<1>10. ASSUME NEW c \in Changed(y), NEW d \in Changed(y), c[m + 1] # d[m + 1]
       PROVE  ~Single(y) /\ NextByte(y, c) # NextByte(y, d)
  <2>1. c # d
    BY <1>10
  <2> QED
    BY <1>8, <1>10, <2>1 DEF Single
<1>11. CASE \E c, d \in group : c[m + 1] # d[m + 1]
  BY <1>8, <1>10, <1>11
<1>12. ASSUME NEW r \in Met(x, b)
       PROVE  /\ y.met \in D /\ Sound(y.met) /\ r.address \in Places
              /\ Len(r.address) \in Nat
              /\ Len(y.met.at) = Len(x.prefix) + Len(r.address)
              /\ \A i \in 1 .. Len(r.address) : y.met.at[Len(x.prefix) + i] = r.address[i]
              /\ y.met.at \in Places /\ Matches(y.prefix, y.met.at, 0)
  <2>1. y.met = Behind(x.prefix, r) /\ y.met \in D
    BY <1>5
  <2>2. Sound(y.met) /\ y.met.at = Join(x.prefix, r.address)
    BY <2>1, EntryIs, AtIs DEF Behind
  <2>3. r.address \in Places
    BY OpenedIs DEF Met
  <2>4. PICK j : j = Join(x.prefix, r.address)
    OBVIOUS
  <2>5. /\ Len(j) = Len(x.prefix) + Len(r.address)
        /\ \A i \in 1 .. Len(r.address) : j[Len(x.prefix) + i] = r.address[i]
    BY <1>9, <2>3, <2>4, Joined
  <2>6. y.met.at \in Places /\ Matches(y.prefix, y.met.at, 0)
    BY <1>5 DEF Behaves
  <2>7. Len(r.address) \in Nat
    BY <2>3, PlacesAre
  <2> QED
    BY <2>1, <2>2, <2>3, <2>4, <2>5, <2>6, <2>7
<1>13. ASSUME NEW r \in Met(x, b), Len(r.address) = Len(p)
       PROVE  IsNode(y.met.value) /\ \E s, t \in Opened(y) : s # t
  <2>1. Len(y.met.at) = m
    BY <1>4, <1>12, <1>13
  <2>2. IsNode(y.met.value)
    BY <1>6, <1>12, <2>1, SoundIs
  <2>3. y.prefix = y.met.at
    <3>1. Len(y.prefix) >= Len(y.met.at)
      BY <1>5, <1>9, <2>1
    <3> QED
      BY <1>9, <1>12, <3>1, MatchesItself
  <2>4. Opened(y) = y.met.value.refs
    BY <1>5, <2>2, <2>3, OpenedFirst
  <2>5. m >= 1
    BY <1>4, <1>7, <1>9
  <2>6. y.met.at # <<>>
    <3>1. Len(<<>>) = 0
      OBVIOUS
    <3> QED
      BY <2>1, <2>5, <3>1
  <2>7. \E s, t \in y.met.value.refs : s # t
    <3>1. Sound(y.met) /\ Len(y.met.at) < AddressLength
      BY <1>6, <1>12, <2>1
    <3> QED
      BY <2>6, <3>1 DEF Sound
  <2> QED
    BY <2>2, <2>4, <2>7
<1>14. ASSUME NEW r \in Met(x, b), Len(r.address) > Len(p), NEW c \in group, r.address[Len(p) + 1] # c[m + 1]
       PROVE  /\ IsNode(y.met.value) \/ ~Single(y)
              /\ \/ \E a, d \in Changed(y) : NextByte(y, a) # NextByte(y, d)
                 \/ \E a \in Changed(y), s \in Opened(y) : NextByte(y, a) # s.address[1]
  <2>0. PICK lr, lp, lx : lr = Len(r.address) /\ lp = Len(p) /\ lx = Len(x.prefix)
    OBVIOUS
  <2>10. lr \in Nat /\ lp \in Nat /\ lx \in Nat /\ lr > lp /\ m = lx + lp
    BY <1>4, <1>9, <1>12, <1>14, <2>0
  <2>1. lp + 1 \in 1 .. lr /\ lx + (lp + 1) = m + 1 /\ lx + lr > m
    BY <2>10
  <2>2. y.met.at[lx + (lp + 1)] = r.address[lp + 1]
    BY <1>12, <2>0, <2>1
  <2>3. y.met.at[m + 1] # c[m + 1]
    BY <1>14, <2>0, <2>1, <2>2
  <2>4. CASE IsNode(y.met.value)
    <3>1. Len(y.met.at) > Len(y.prefix)
      <4>1. Len(y.met.at) = lx + lr /\ Len(y.prefix) = m
        BY <1>5, <1>12, <2>0
      <4> QED
        BY <2>1, <4>1
    <3>2. PICK s \in Opened(y) : s.address[1] = y.met.at[m + 1]
      BY <1>5, <2>4, <3>1, OpenedFirst
    <3>3. c \in Changed(y) /\ NextByte(y, c) = c[m + 1]
      BY <1>8
    <3> QED
      BY <2>3, <2>4, <3>2, <3>3
  <2>5. CASE ~IsNode(y.met.value)
    <3>1. y.met.value # Absent
      BY <1>12, SoundIs
    <3>2. y.met.at \in Changed(y) /\ c \in Changed(y)
      BY <1>5, <1>8, <2>5, <3>1, WithAccountIs
    <3>3. ~Single(y) /\ NextByte(y, y.met.at) # NextByte(y, c)
      BY <1>10, <2>3, <3>2
    <3> QED
      BY <3>2, <3>3
  <2> QED
    BY <2>4, <2>5
<1> QED
  BY <1>7, <1>11, <1>13, <1>14

-----------------------------------------------------------------------------
(***************************************************************************)
(* putAccount: that its recursion ends, what a call returns, and what the  *)
(* call for a root does.                                                   *)
(***************************************************************************)

\* What is stored of a tree, if there is one.
Old(root) == {e \in Reached(Root(root)) : e.value # Absent}

LEMMA OldIs ==
    ASSUME NEW root, root = Absent \/ Whole(root)
    PROVE  /\ Closed(Old(root))
           /\ root = Absent => Old(root) = {}
           /\ root # Absent => Old(root) = Reached(Root(root)) /\ Root(root) \in Old(root)
<1>1. CASE root = Absent
  <2>1. Root(root) = At(<<>>, Absent)
    BY <1>1 DEF Root
  <2>2. Root(root).value = Absent
    BY <2>1, AtIs
  <2>3. Reached(Root(root)) = {Root(root)}
    BY <2>2, ValuesAre, LeafReaches
  <2> QED
    BY <1>1, <2>2, <2>3 DEF Old, Closed, Complete
<1>2. CASE root # Absent
  <2>1. Closed(Reached(Root(root)))
    BY <1>2 DEF Whole
  <2>2. \A e \in Reached(Root(root)) : e.value # Absent
    BY <2>1, EntryIs, SoundIs
  <2>3. Old(root) = Reached(Root(root))
    BY <2>2 DEF Old
  <2> QED
    BY <1>2, <2>1, <2>3, ReachesItself
<1> QED
  BY <1>1, <1>2

LEMMA PutArgsAre ==
    ASSUME NEW root, root = Absent \/ Whole(root)
    PROVE  /\ \A x \in PutArgs(root) : Arg(x, Old(root))
           /\ \A x : Arg(x, Old(root)) /\ x = [met |-> x.met, changes |-> x.changes, prefix |-> x.prefix]
                     => x \in PutArgs(root)
<1> DEFINE Mets == Reached(Root(root)) \cup [at : Places, value : {Absent}]
           Guard(x) == /\ Known(x.changes) # {}
                       /\ \A a \in Known(x.changes) \cup {x.met.at} : Matches(x.prefix, a, 0)
                       /\ Len(x.prefix) < AddressLength => IsNode(x.met.value) \/ ~Single(x)
<1>1. PutArgs(root) = {x \in [met : Mets, changes : Maps, prefix : Places] : Guard(x)}
  BY DEF PutArgs
<1>2. \A e : e \in [at : Places, value : {Absent}] <=> e.at \in Places /\ e = At(e.at, Absent)
  BY DEF At
<1>3. <<>> \in Places
  <2>1. PICK p : p = <<>>
    OBVIOUS
  <2>2. p \in Seq(Bytes) /\ Len(p) <= AddressLength
    BY <2>1, AddressAssumption
  <2> QED
    BY <2>1, <2>2, PlacesAre
<1>4. \A e : e \in Mets <=> e \in Old(root) \/ (e.at \in Places /\ e = At(e.at, Absent))
  <2>1. CASE root = Absent
    <3>1. Root(root) = At(<<>>, Absent)
      BY <2>1 DEF Root
    <3>2. Root(root).value = Absent /\ Root(root).at = <<>>
      BY <3>1, AtIs
    <3>3. Reached(Root(root)) = {Root(root)}
      BY <3>2, ValuesAre, LeafReaches
    <3>4. Old(root) = {}
      BY <2>1, OldIs
    <3> QED
      BY <1>2, <1>3, <3>1, <3>2, <3>3, <3>4
  <2>2. CASE root # Absent
    <3>1. Old(root) = Reached(Root(root))
      BY <2>2, OldIs
    <3> QED
      BY <1>2, <3>1
  <2> QED
    BY <2>1, <2>2
<1> HIDE DEF Mets
<1>5. \A x : x \in [met : Mets, changes : Maps, prefix : Places] <=>
             /\ x.met \in Mets /\ x.changes \in Maps /\ x.prefix \in Places
             /\ x = [met |-> x.met, changes |-> x.changes, prefix |-> x.prefix]
  OBVIOUS
<1>6. Closed(Old(root))
  BY OldIs
<1>7. \A e \in Old(root) : e.at \in Places
  BY <1>6, EntryIs DEF Sound
<1>8. \A e : e.value = Absent /\ e = At(e.at, Absent) <=> e = At(e.at, Absent)
  BY AtIs
<1>9. \A e : e \in Mets <=> e.at \in Places /\ (e \in Old(root) \/ (e.value = Absent /\ e = At(e.at, Absent)))
  BY <1>4, <1>7, <1>8
<1>10. ASSUME NEW x
       PROVE  Guard(x) /\ x.met \in Mets /\ x.changes \in Maps /\ x.prefix \in Places <=> Arg(x, Old(root))
  <2>1. x.met \in Mets <=> x.met.at \in Places /\ (x.met \in Old(root) \/ (x.met.value = Absent /\ x.met = At(x.met.at, Absent)))
    BY <1>9
  <2> QED
    BY <2>1 DEF Arg, Behaves
<1> HIDE DEF Guard
<1> QED
  BY <1>1, <1>5, <1>10

\* At the end of an address putAccount puts the account, above it a node.
LEMMA LeafIs ==
    ASSUME NEW D, Closed(D), NEW x, Arg(x, D)
    PROVE  /\ x.prefix \in Places /\ Len(x.prefix) \in Nat /\ Len(x.prefix) <= AddressLength
           /\ Len(x.prefix) = AddressLength =>
                /\ ~IsNode(x.met.value) /\ Single(x)
                /\ Changed(x) = {x.prefix} /\ x.prefix \in Addresses
                /\ x.changes[x.prefix] # Absent /\ WithAccount(x)[x.prefix] = x.changes[x.prefix]
                /\ x.changes[x.prefix] \in AccountValues
           /\ Len(x.prefix) < AddressLength => ~(~IsNode(x.met.value) /\ Single(x))
<1>1. x.prefix \in Places /\ Len(x.prefix) \in Nat /\ Len(x.prefix) <= AddressLength /\ Behaves(x, D)
  BY PlacesAre DEF Arg, Behaves
<1>2. Len(x.prefix) < AddressLength => ~(~IsNode(x.met.value) /\ Single(x))
  BY DEF Arg
<1>3. ASSUME Len(x.prefix) = AddressLength
      PROVE  /\ ~IsNode(x.met.value) /\ Single(x)
             /\ Changed(x) = {x.prefix} /\ x.prefix \in Addresses
             /\ x.changes[x.prefix] # Absent /\ WithAccount(x)[x.prefix] = x.changes[x.prefix]
             /\ x.changes[x.prefix] \in AccountValues
  <2>1. \A a \in Places : Matches(x.prefix, a, 0) => x.prefix = a
    <3>1. TAKE a \in Places
    <3>2. Len(a) \in Nat /\ Len(a) <= AddressLength
      BY PlacesAre
    <3>3. Len(x.prefix) >= Len(a)
      BY <1>1, <1>3, <3>2
    <3> QED
      BY <1>1, <3>3, MatchesItself
  <2>2. Addresses \subseteq Places /\ x.prefix \in Addresses
    BY <1>1, <1>3, PlacesAre, AddressAssumption
  <2>3. PICK a \in Known(x.changes) : TRUE
    BY <1>1 DEF Behaves
  <2>4. a \in Addresses /\ x.changes[a] # Absent /\ Matches(x.prefix, a, 0)
    BY <1>1, <2>3 DEF Behaves, Known
  <2>5. a = x.prefix
    BY <2>1, <2>2, <2>4
  <2>6. /\ \A d \in Addresses : x.changes[d] # Absent => WithAccount(x)[d] = x.changes[d]
        /\ \A d \in Changed(x) : Matches(x.prefix, d, 0)
        /\ Known(x.changes) \subseteq Changed(x)
        /\ Changed(x) \subseteq Addresses
    BY <1>1, WithAccountIs
  <2>7. \A d \in Changed(x) : d = x.prefix
    BY <2>1, <2>2, <2>6
  <2>8. x.prefix \in Changed(x)
    BY <2>3, <2>5, <2>6
  <2>9. Changed(x) = {x.prefix}
    BY <2>7, <2>8
  <2>10. ~IsNode(x.met.value)
    <3>1. SUFFICES ASSUME IsNode(x.met.value) PROVE FALSE
      OBVIOUS
    <3>2. x.met \in D /\ x.met.at \in Places /\ Matches(x.prefix, x.met.at, 0)
      BY <1>1, <3>1, ValuesAre DEF Behaves
    <3>3. Sound(x.met) /\ x.met.at = x.prefix
      BY <2>1, <3>2, EntryIs
    <3>4. Len(x.met.at) < AddressLength
      BY <3>1, <3>3, SoundIs
    <3> QED
      BY <1>1, <1>3, <3>3, <3>4
  <2>11. x.changes[x.prefix] \in AccountValues
    <3>1. x.changes[a] \in AccountValues \cup {Absent}
      BY <1>1, <2>4 DEF Behaves, Maps
    <3> QED
      BY <2>4, <2>5, <3>1
  <2> QED
    BY <2>2, <2>4, <2>5, <2>6, <2>8, <2>9, <2>10, <2>11 DEF Single
<1> QED
  BY <1>1, <1>2, <1>3

Leaf(x) == ~IsNode(x.met.value) /\ Single(x)
SubPut(f, x, b) == f[SubArgs(x, b)]
PutNode(f, x) == Node(Kept(x) \cup {Ref(Slice(x, b), SubPut(f, x, b).hash) : b \in Firsts(x)})
Batches(f, x) == UNION {SubPut(f, x, b).batch : b \in Firsts(x)}

LEMMA PutStepIs ==
    ASSUME NEW f, NEW x
    PROVE  /\ Leaf(x) => PutStep(f, x) =
                 [hash  |-> WithAccount(x)[CHOOSE a \in Changed(x) : TRUE],
                  batch |-> {At(x.prefix, WithAccount(x)[CHOOSE a \in Changed(x) : TRUE])}]
           /\ ~Leaf(x) => PutStep(f, x) =
                 [hash |-> PutNode(f, x), batch |-> {At(x.prefix, PutNode(f, x))} \cup Batches(f, x)]
<1> DEFINE subs == {[address |-> Slice(x, b), put |-> f[SubArgs(x, b)]] : b \in Firsts(x)}
           refs == Kept(x) \cup {Ref(sub.address, sub.put.hash) : sub \in subs}
<1>0. /\ \A b \in Firsts(x) : \E sub \in subs : sub.address = Slice(x, b) /\ sub.put = SubPut(f, x, b)
      /\ \A sub \in subs : \E b \in Firsts(x) : sub.address = Slice(x, b) /\ sub.put = SubPut(f, x, b)
  <2> DEFINE Sub(b) == [address |-> Slice(x, b), put |-> SubPut(f, x, b)]
  <2>1. subs = {Sub(b) : b \in Firsts(x)}
    BY DEF SubPut
  <2>2. \A b : Sub(b).address = Slice(x, b) /\ Sub(b).put = SubPut(f, x, b)
    OBVIOUS
  <2> HIDE DEF Sub, subs
  <2> QED
    BY <2>1, <2>2
<1> HIDE DEF subs
<1>1. {Ref(sub.address, sub.put.hash) : sub \in subs} = {Ref(Slice(x, b), SubPut(f, x, b).hash) : b \in Firsts(x)}
  BY <1>0
<1>2. UNION {sub.put.batch : sub \in subs} = Batches(f, x)
  BY <1>0 DEF Batches
<1> USE DEF subs
<1>3. Node(refs) = PutNode(f, x)
  BY <1>1 DEF PutNode
<1>4. ~Leaf(x) => PutStep(f, x) =
        [hash |-> Node(refs), batch |-> {At(x.prefix, Node(refs))} \cup UNION {sub.put.batch : sub \in subs}]
  BY DEF PutStep, Leaf
<1>5. Leaf(x) => PutStep(f, x) =
                 [hash  |-> WithAccount(x)[CHOOSE a \in Changed(x) : TRUE],
                  batch |-> {At(x.prefix, WithAccount(x)[CHOOSE a \in Changed(x) : TRUE])}]
  BY DEF PutStep, Leaf
<1> HIDE DEF refs, subs
<1> QED
  BY <1>2, <1>3, <1>4, <1>5

\* A node is put with what is put for its groups.
LEMMA PutStepSame ==
    ASSUME NEW D, Closed(D), NEW x, Arg(x, D), NEW f, NEW g,
           Len(x.prefix) < AddressLength => \A b \in Firsts(x) : SubPut(f, x, b) = SubPut(g, x, b)
    PROVE  PutStep(f, x) = PutStep(g, x)
<1>1. CASE Leaf(x)
  BY <1>1, PutStepIs
<1>2. CASE ~Leaf(x)
  <2>1. Len(x.prefix) < AddressLength
    BY <1>2, LeafIs, AddressAssumption DEF Leaf
  <2>2. \A b \in Firsts(x) : SubPut(f, x, b) = SubPut(g, x, b)
    BY <2>1
  <2>3. PutNode(f, x) = PutNode(g, x)
    BY <2>2 DEF PutNode
  <2>4. Batches(f, x) = Batches(g, x)
    BY <2>2 DEF Batches
  <2> QED
    BY <1>2, <2>3, <2>4, PutStepIs
<1> QED
  BY <1>1, <1>2

\* The groups of a call are calls, and nearer to the ends of the addresses.
LEMMA SubArgsAre ==
    ASSUME NEW root, root = Absent \/ Whole(root), NEW x \in PutArgs(root),
           Len(x.prefix) < AddressLength, NEW b \in Firsts(x)
    PROVE  /\ SubArgs(x, b) \in PutArgs(root) /\ Tight(SubArgs(x, b))
           /\ Len(SubArgs(x, b).prefix) > Len(x.prefix)
<1>1. Closed(Old(root)) /\ Arg(x, Old(root))
  BY OldIs, PutArgsAre
<1>2. Behaves(x, Old(root)) /\ x.prefix \in Places /\ Len(x.prefix) \in Nat
  BY <1>1, PlacesAre DEF Arg, Behaves
<1>3. PICK y : y = SubArgs(x, b)
  OBVIOUS
<1>4. PICK p : p = Slice(x, b)
  OBVIOUS
<1>5. Arg(y, Old(root)) /\ Tight(y)
  BY <1>1, <1>2, <1>3, SubArgsGoOn
<1>6. Len(y.prefix) = Len(x.prefix) + Len(p)
  BY <1>1, <1>2, <1>3, <1>4, SubArgsBehave
<1>7. y = [met |-> y.met, changes |-> y.changes, prefix |-> y.prefix]
  BY <1>1, <1>2, <1>3, SubArgsBehave
<1>8. p \in Places /\ Len(p) >= 1 /\ Len(p) \in Nat
  BY <1>1, <1>2, <1>4, SliceIs, PlacesAre
<1>9. Len(y.prefix) > Len(x.prefix)
  BY <1>2, <1>6, <1>8
<1>10. y \in PutArgs(root)
  BY <1>5, <1>7, PutArgsAre
<1> QED
  BY <1>3, <1>5, <1>9, <1>10

LEMMA PutExists ==
    ASSUME NEW root, root = Absent \/ Whole(root)
    PROVE  \E f : \A x \in PutArgs(root) : f[x] = PutStep(f, x)
<1>1. Closed(Old(root)) /\ AddressLength \in Nat
  BY OldIs, AddressAssumption
<1>2. \A x \in PutArgs(root) : Arg(x, Old(root)) /\ Len(x.prefix) \in Nat /\ Len(x.prefix) <= AddressLength
  BY <1>1, PutArgsAre, LeafIs
<1> DEFINE From(k) == {x \in PutArgs(root) : Len(x.prefix) >= AddressLength - k}
           S == {k \in 0 .. AddressLength : \E f : \A x \in From(k) : f[x] = PutStep(f, x)}
<1>3. 0 \in S
  <2>1. PICK z : TRUE
    OBVIOUS
  <2>2. PICK g : g = [x \in PutArgs(root) |-> PutStep(z, x)]
    OBVIOUS
  <2>3. ASSUME NEW x \in From(0) PROVE g[x] = PutStep(g, x)
    <3>1. ~ (Len(x.prefix) < AddressLength) /\ x \in PutArgs(root)
      BY <1>1, <1>2, <2>3
    <3>2. PutStep(z, x) = PutStep(g, x)
      BY <1>1, <1>2, <3>1, PutStepSame
    <3> QED
      BY <2>2, <3>1, <3>2
  <2> QED
    BY <1>1, <2>3
<1>4. ASSUME NEW k \in 0 .. AddressLength - 1, k \in S
      PROVE  k + 1 \in S
  <2>1. PICK f : \A x \in From(k) : f[x] = PutStep(f, x)
    BY <1>4
  <2>2. PICK g : g = [x \in PutArgs(root) |-> IF x \in From(k) THEN f[x] ELSE PutStep(f, x)]
    OBVIOUS
  <2>3. \A x \in From(k) : g[x] = f[x]
    BY <2>2
  <2>4. ASSUME NEW x \in From(k + 1) PROVE g[x] = PutStep(g, x)
    <3>1. x \in PutArgs(root) /\ Len(x.prefix) >= AddressLength - (k + 1)
      OBVIOUS
    <3>2. ASSUME Len(x.prefix) < AddressLength, NEW b \in Firsts(x)
          PROVE  SubPut(f, x, b) = SubPut(g, x, b)
      <4>1. SubArgs(x, b) \in PutArgs(root) /\ Len(SubArgs(x, b).prefix) > Len(x.prefix)
        BY <3>1, <3>2, SubArgsAre
      <4>2. Len(SubArgs(x, b).prefix) >= AddressLength - k
        BY <1>1, <1>2, <3>1, <4>1
      <4> QED
        BY <2>3, <4>1, <4>2 DEF SubPut
    <3>3. PutStep(f, x) = PutStep(g, x)
      BY <1>1, <1>2, <3>1, <3>2, PutStepSame
    <3> QED
      BY <2>1, <2>2, <3>1, <3>3
  <2>5. k + 1 \in 0 .. AddressLength
    BY <1>1
  <2> QED
    BY <2>4, <2>5
<1>5. 0 .. AddressLength \subseteq S
  <2> HIDE DEF S
  <2> QED
    BY <1>1, <1>3, <1>4, CountingUp
<1>6. AddressLength \in S
  <2> HIDE DEF S
  <2> QED
    BY <1>1, <1>5
<1>7. \A x \in PutArgs(root) : x \in From(AddressLength)
  BY <1>1, <1>2
<1> QED
  BY <1>6, <1>7

Call(root, changes) == [met |-> Root(root), changes |-> changes, prefix |-> <<>>]

LEMMA PutIs ==
    ASSUME NEW root, root = Absent \/ Whole(root)
    PROVE  \E put : /\ \A x \in PutArgs(root) : put[x] = PutStep(put, x)
                    /\ \A changes : PutAccount(root, changes) = put[Call(root, changes)]
<1> DEFINE Body(f) == [x \in PutArgs(root) |-> PutStep(f, x)]
           put == CHOOSE f : f = Body(f)
<1>1. Closed(Old(root)) /\ AddressLength \in Nat
  BY OldIs, AddressAssumption
<1>2. PICK f : \A x \in PutArgs(root) : f[x] = PutStep(f, x)
  BY PutExists
<1>3. PICK g : g = [x \in PutArgs(root) |-> f[x]]
  OBVIOUS
<1>4. ASSUME NEW x \in PutArgs(root)
      PROVE  f[x] = PutStep(g, x)
  <2>1. ASSUME Len(x.prefix) < AddressLength, NEW b \in Firsts(x)
        PROVE  SubPut(f, x, b) = SubPut(g, x, b)
    BY <1>3, <2>1, SubArgsAre DEF SubPut
  <2>2. PutStep(f, x) = PutStep(g, x)
    BY <1>1, <2>1, PutArgsAre, PutStepSame
  <2> QED
    BY <1>2, <2>2
<1>5. g = Body(g)
  BY <1>3, <1>4
<1>6. put = Body(put)
  BY <1>5
<1>7. \A changes : PutAccount(root, changes) = put[Call(root, changes)]
  BY DEF PutAccount, Call
<1> HIDE DEF put
<1>8. \A x \in PutArgs(root) : put[x] = PutStep(put, x)
  BY <1>6
<1> QED
  BY <1>7, <1>8

\* What putAccount returns for a call is what it was called for.
Result(x, res, D) ==
    /\ At(x.prefix, res.hash) \in res.batch
    /\ \A e \in res.batch : Sound(e)
    /\ Complete(res.batch \cup D)
    /\ \A a \in Addresses, c \in AccountValues :
          At(a, c) \in Reached(At(x.prefix, res.hash)) <=> Says(x, a, c)

LEMMA LeafResult ==
    ASSUME NEW D, Closed(D), NEW x, Arg(x, D), Len(x.prefix) = AddressLength, NEW f
    PROVE  Result(x, PutStep(f, x), D)
<1>1. PICK c : c = x.changes[x.prefix]
  OBVIOUS
<1>2. PICK e : e = At(x.prefix, c)
  OBVIOUS
<1>3. /\ Leaf(x) /\ Changed(x) = {x.prefix} /\ x.prefix \in Addresses
      /\ c # Absent /\ WithAccount(x)[x.prefix] = c
      /\ c \in AccountValues
  BY <1>1, LeafIs DEF Leaf
<1>4. PutStep(f, x) = [hash |-> c, batch |-> {e}]
  <2>1. (CHOOSE a \in Changed(x) : TRUE) = x.prefix
    BY <1>3
  <2> QED
    BY <1>2, <1>3, <2>1, PutStepIs
<1>5. e.at = x.prefix /\ e.value = c /\ ~IsNode(e.value)
  BY <1>2, <1>3, AtIs, ValuesAre
<1>6. Sound(e)
  <2>1. x.prefix \in Places /\ Len(e.at) = AddressLength /\ ~(Len(e.at) < AddressLength)
    BY <1>3, <1>5, PlacesAre, AddressAssumption
  <2> QED
    BY <1>2, <1>3, <1>5, <2>1 DEF Sound
<1>7. Complete({e} \cup D)
  BY <1>5 DEF Complete, Closed
<1>8. ASSUME NEW a \in Addresses, NEW d \in AccountValues
      PROVE  At(a, d) \in Reached(e) <=> Says(x, a, d)
  <2>1. Reached(e) = {e}
    BY <1>5, LeafReaches
  <2>2. At(a, d) \in Reached(e) <=> a = x.prefix /\ d = c
    BY <1>2, <2>1, AtIs
  <2>3. CASE a = x.prefix
    BY <1>1, <1>3, <2>2, <2>3 DEF Says
  <2>4. CASE a # x.prefix
    <3>1. x.changes[a] = Absent
      <4>1. Behaves(x, D) /\ a \in Places /\ x.prefix \in Places
        BY PlacesAre, AddressAssumption DEF Arg, Behaves
      <4>2. Known(x.changes) \subseteq Changed(x)
        BY <4>1, WithAccountIs
      <4> QED
        BY <1>3, <2>4, <4>2 DEF Known
    <3>2. At(a, d) \notin Reached(x.met)
      <4>1. Behaves(x, D) /\ ~IsNode(x.met.value) /\ a \in Places /\ x.prefix \in Places
        BY <1>3, PlacesAre, AddressAssumption DEF Leaf, Arg, Behaves
      <4>2. Reached(x.met) = {x.met}
        BY <4>1, LeafReaches
      <4>3. SUFFICES ASSUME At(a, d) = x.met PROVE FALSE
        BY <4>2
      <4>4. Matches(x.prefix, a, 0)
        BY <4>1, <4>3, AtIs DEF Behaves
      <4>5. Len(x.prefix) >= Len(a)
        BY PlacesAre, AddressAssumption
      <4> QED
        BY <2>4, <4>1, <4>4, <4>5, MatchesItself
    <3> QED
      BY <2>2, <2>4, <3>1, <3>2 DEF Says
  <2> QED
    BY <2>3, <2>4
<1> QED
  BY <1>2, <1>4, <1>6, <1>7, <1>8 DEF Result

\* The reference that a group is put behind.
Sub(f, x, b) == Ref(Slice(x, b), SubPut(f, x, b).hash)

LEMMA NodeIs ==
    ASSUME NEW D, Closed(D), NEW x, Arg(x, D), Tight(x), Len(x.prefix) < AddressLength, NEW f
    PROVE  LET node == PutNode(f, x) IN
           /\ node = Node(node.refs) /\ IsNode(node)
           /\ \A r \in node.refs : r \in Kept(x) \/ \E b \in Firsts(x) : r = Sub(f, x, b)
           /\ Kept(x) \subseteq node.refs /\ \A b \in Firsts(x) : Sub(f, x, b) \in node.refs
           /\ Sound(At(x.prefix, node))
<1>1. PICK refs : refs = Kept(x) \cup {Sub(f, x, b) : b \in Firsts(x)}
  OBVIOUS
<1>2. PutNode(f, x) = Node(refs)
  BY <1>1 DEF PutNode, Sub
<1>3. PICK node : node = PutNode(f, x)
  OBVIOUS
<1>4. node = Node(refs) /\ node.refs = refs /\ IsNode(node) /\ node.refs = refs
  BY <1>2, <1>3, ValuesAre
<1>5. x.prefix \in Places /\ Len(x.prefix) \in Nat /\ Behaves(x, D) /\ AddressLength \in Nat
  BY PlacesAre DEF Arg, Behaves
<1> DEFINE Fits(r) == /\ \E p, c : r = Ref(p, c)
                      /\ r.address \in Places /\ Len(r.address) >= 1
                      /\ Len(x.prefix) + Len(r.address) <= AddressLength
<1>6. \A r \in Kept(x) : r \in Opened(x) /\ r.address[1] \notin Firsts(x) /\ Fits(r)
  BY <1>5, OpenedIs DEF Kept
<1>7. \A b \in Firsts(x) : Sub(f, x, b).address[1] = b /\ Fits(Sub(f, x, b))
  <2> TAKE b \in Firsts(x)
  <2>1. PICK p : p = Slice(x, b)
    OBVIOUS
  <2>2. p \in Places /\ Len(p) >= 1 /\ Len(x.prefix) + Len(p) <= AddressLength /\ p[1] = b
    BY <1>5, <2>1, SliceIs
  <2>3. Sub(f, x, b).address = p /\ \E q, c : Sub(f, x, b) = Ref(q, c)
    BY <2>1 DEF Sub, Ref
  <2> QED
    BY <2>2, <2>3
<1> HIDE DEF Fits
<1>8. \A r \in refs : Fits(r)
  BY <1>1, <1>6, <1>7
<1>9. \A r, s \in refs : r.address[1] = s.address[1] => r = s
  <2>1. SUFFICES ASSUME NEW r \in refs, NEW s \in refs, r.address[1] = s.address[1] PROVE r = s
    OBVIOUS
  <2>2. CASE r \in Kept(x) /\ s \in Kept(x)
    BY <1>5, <1>6, <2>1, <2>2, OpenedIs
  <2>3. CASE r \notin Kept(x) \/ s \notin Kept(x)
    BY <1>1, <1>6, <1>7, <2>1, <2>3
  <2> QED
    BY <2>2, <2>3
<1>10. \A r \in Opened(x) : \E t \in refs : t.address[1] = r.address[1]
  <2> TAKE r \in Opened(x)
  <2>1. CASE r.address[1] \in Firsts(x)
    BY <1>1, <1>7, <2>1
  <2>2. CASE r.address[1] \notin Firsts(x)
    BY <1>1, <2>2 DEF Kept
  <2> QED
    BY <2>1, <2>2
<1>11. \A a \in Changed(x) : \E t \in refs : t.address[1] = NextByte(x, a)
  <2>1. \A a \in Changed(x) : NextByte(x, a) \in Firsts(x)
    BY DEF Firsts
  <2> QED
    BY <1>1, <1>7, <2>1
<1>12. x.prefix # <<>> => \E r, s \in refs : r # s
  <2>1. SUFFICES ASSUME x.prefix # <<>> PROVE \E r, s \in refs : r # s
    OBVIOUS
  <2>2. CASE \E a, c \in Changed(x) : NextByte(x, a) # NextByte(x, c)
    BY <1>11, <2>2
  <2>3. CASE \E r, s \in Opened(x) : r # s
    <3>1. PICK r \in Opened(x), s \in Opened(x) : r # s
      BY <2>3
    <3>2. r.address[1] # s.address[1]
      BY <1>5, <3>1, OpenedIs
    <3> QED
      BY <1>10, <3>2
  <2>4. CASE \E a \in Changed(x), r \in Opened(x) : NextByte(x, a) # r.address[1]
    BY <1>10, <1>11, <2>4
  <2> QED
    BY <2>1, <2>2, <2>3, <2>4 DEF Tight
<1>13. Sound(At(x.prefix, node))
  <2>1. PICK e : e = At(x.prefix, node)
    OBVIOUS
  <2>2. e.at = x.prefix /\ e.value = node
    BY <2>1, AtIs
  <2>3. ~(Len(e.at) = AddressLength) /\ Len(e.at) = Len(x.prefix)
    BY <1>5, <2>2
  <2>4. e.at \in Places /\ \E p, v : e = At(p, v)
    BY <1>5, <2>1, <2>2
  <2>5. /\ \E rs : e.value = Node(rs)
        /\ \A r \in e.value.refs :
              /\ \E p, c : r = Ref(p, c)
              /\ r.address \in Places /\ Len(r.address) >= 1
              /\ Len(e.at) + Len(r.address) <= AddressLength
    BY <1>4, <1>8, <2>2 DEF Fits
  <2>6. \A r, s \in e.value.refs : r.address[1] = s.address[1] => r = s
    BY <1>4, <1>9, <2>2
  <2>7. e.at # <<>> => \E r, s \in e.value.refs : r # s
    BY <1>4, <1>12, <2>2
  <2> QED
    BY <2>1, <2>3, <2>4, <2>5, <2>6, <2>7 DEF Sound
<1> QED
  BY <1>1, <1>3, <1>4, <1>13

LEMMA NodeResult ==
    ASSUME NEW D, Closed(D), NEW x, Arg(x, D), Tight(x), Len(x.prefix) < AddressLength, NEW f,
           \A b \in Firsts(x) : Result(SubArgs(x, b), SubPut(f, x, b), D)
    PROVE  Result(x, PutStep(f, x), D)
<1>1. PICK node : node = PutNode(f, x)
  OBVIOUS
<1>2. PICK e : e = At(x.prefix, node)
  OBVIOUS
<1>3. PICK batch : batch = {e} \cup Batches(f, x)
  OBVIOUS
<1>4. PutStep(f, x) = [hash |-> node, batch |-> batch]
  <2>1. ~Leaf(x)
    BY LeafIs DEF Leaf
  <2> QED
    BY <1>1, <1>2, <1>3, <2>1, PutStepIs
<1>5. /\ IsNode(node)
      /\ \A r \in node.refs : r \in Kept(x) \/ \E b \in Firsts(x) : r = Sub(f, x, b)
      /\ Kept(x) \subseteq node.refs /\ \A b \in Firsts(x) : Sub(f, x, b) \in node.refs
      /\ Sound(e)
  BY <1>1, <1>2, NodeIs
<1>6. e.at = x.prefix /\ e.value = node
  BY <1>2, AtIs
<1>7. x.prefix \in Places /\ Len(x.prefix) \in Nat /\ Behaves(x, D) /\ AddressLength \in Nat
  BY PlacesAre DEF Arg, Behaves
<1>8. \A r \in Kept(x) : r \in Opened(x) /\ r.address[1] \notin Firsts(x) /\ Child(e, r) = Behind(x.prefix, r)
  BY <1>6 DEF Kept, Child
<1>9. ASSUME NEW b \in Firsts(x)
      PROVE  /\ Child(e, Sub(f, x, b)) = At(SubArgs(x, b).prefix, SubPut(f, x, b).hash)
             /\ Sub(f, x, b).address = Slice(x, b)
  <2>1. SubArgs(x, b).prefix = Join(x.prefix, Slice(x, b))
    BY <1>7, SubArgsBehave
  <2>2. Sub(f, x, b).address = Slice(x, b) /\ Sub(f, x, b).child = SubPut(f, x, b).hash
    BY DEF Sub, Ref
  <2> QED
    BY <1>6, <2>1, <2>2 DEF Child, Behind
<1>10. \A d \in batch : Sound(d)
  BY <1>3, <1>5 DEF Batches, Result
<1>11. Complete(batch \cup D)
  <2>1. SUFFICES ASSUME NEW d \in batch \cup D, IsNode(d.value), NEW r \in d.value.refs
                 PROVE  Child(d, r) \in batch \cup D
    BY DEF Complete
  <2>2. CASE d = e
    <3>1. CASE r \in Kept(x)
      <4>1. Behind(x.prefix, r) \in D
        BY <1>7, <1>8, <3>1, OpenedIs
      <4> QED
        BY <1>8, <2>2, <3>1, <4>1
    <3>2. ASSUME NEW b \in Firsts(x), r = Sub(f, x, b)
          PROVE  Child(d, r) \in batch
      <4>1. Child(d, r) \in SubPut(f, x, b).batch
        BY <1>9, <2>2, <3>2 DEF Result
      <4> QED
        BY <1>3, <4>1 DEF Batches
    <3> QED
      BY <1>5, <1>6, <2>1, <2>2, <3>1, <3>2
  <2>3. ASSUME NEW b \in Firsts(x), d \in SubPut(f, x, b).batch \cup D
        PROVE  Child(d, r) \in batch \cup D
    <3>1. Complete(SubPut(f, x, b).batch \cup D)
      BY DEF Result
    <3>2. Child(d, r) \in SubPut(f, x, b).batch \cup D
      BY <2>1, <2>3, <3>1 DEF Complete
    <3> QED
      BY <1>3, <3>2 DEF Batches
  <2>4. CASE d \in D
    BY <2>1, <2>4 DEF Closed, Complete
  <2> QED
    BY <1>3, <2>1, <2>2, <2>3, <2>4 DEF Batches
<1>12. Closed(batch \cup D) /\ e \in batch \cup D
  BY <1>3, <1>10, <1>11 DEF Closed
<1>13. ASSUME NEW a \in Addresses, NEW c \in AccountValues
       PROVE  At(a, c) \in Reached(e) <=> Says(x, a, c)
  <2>1. PICK w : w = WithAccount(x)
    OBVIOUS
  <2>2. Changed(x) = {d \in Addresses : w[d] # Absent}
    BY <1>7, <2>1, WithAccountIs
  <2>3. Says(x, a, c) <=> IF w[a] # Absent THEN c = w[a]
                          ELSE \E r \in Opened(x) : At(a, c) \in Reached(Behind(x.prefix, r))
    BY <1>7, <2>1, SaysIs
  <2>4. At(a, c) \in Reached(e) <=> \E r \in node.refs : At(a, c) \in Reached(Child(e, r))
    <3>1. At(a, c) # e
      BY <1>6, <1>7, AtIs, PlacesAre
    <3> QED
      BY <1>5, <1>6, <1>12, <3>1, ReachedUnfolds
  <2>5. ASSUME NEW b \in Firsts(x)
        PROVE  At(a, c) \in Reached(Child(e, Sub(f, x, b))) <=>
                 IF a \in Group(x, b) THEN c = w[a]
                 ELSE \E r \in Met(x, b) : At(a, c) \in Reached(Behind(x.prefix, r))
    <3>1. PICK y : y = SubArgs(x, b)
      OBVIOUS
    <3>2. /\ y.changes[a] = IF a \in Group(x, b) THEN w[a] ELSE Absent
          /\ Met(x, b) = {} => y.met = At(y.prefix, Absent)
          /\ \A r \in Met(x, b) : Met(x, b) = {r} /\ y.met = Behind(x.prefix, r)
      BY <1>7, <2>1, <3>1, SubArgsBehave
    <3>3. At(a, c) \in Reached(Child(e, Sub(f, x, b))) <=> Says(y, a, c)
      BY <1>9, <3>1 DEF Result
    <3>4. a \in Group(x, b) => w[a] # Absent
      BY <2>2 DEF Group
    <3>5. At(a, c) \in Reached(y.met) <=> \E r \in Met(x, b) : At(a, c) \in Reached(Behind(x.prefix, r))
      <4>1. CASE Met(x, b) = {}
        <5>1. y.met = At(y.prefix, Absent) /\ y.met.value = Absent
          BY <3>2, <4>1, AtIs
        <5>2. Reached(y.met) = {y.met} /\ At(a, c) # y.met
          BY <5>1, LeafReaches, ValuesAre, AtIs
        <5> QED
          BY <4>1, <5>2
      <4>2. CASE Met(x, b) # {}
        BY <3>2, <4>2
      <4> QED
        BY <4>1, <4>2
    <3> QED
      BY <3>2, <3>3, <3>4, <3>5 DEF Says
  <2>6. \A d \in Changed(x) : NextByte(x, d) \in Firsts(x) /\ d \in Group(x, NextByte(x, d))
    BY DEF Firsts, Group
  <2>7. \A r \in node.refs : At(a, c) \in Reached(Child(e, r)) => r.address[1] = NextByte(x, a)
    <3>1. SUFFICES ASSUME NEW r \in node.refs, At(a, c) \in Reached(Child(e, r)) PROVE r.address[1] = NextByte(x, a)
      OBVIOUS
    <3>2. Matches(r.address, a, Len(x.prefix))
      BY <1>5, <1>6, <1>12, <3>1, OneWay
    <3>3. Len(r.address) >= 1 /\ r.address \in Places /\ Len(r.address) \in Nat
      BY <1>5, <1>6, <3>1, SoundIs, PlacesAre
    <3>4. 1 \in 1 .. Len(r.address)
      BY <3>3
    <3> QED
      BY <3>2, <3>4 DEF Matches, NextByte
  <2>8. ASSUME Says(x, a, c) PROVE \E r \in node.refs : At(a, c) \in Reached(Child(e, r))
    <3>1. CASE w[a] # Absent
      <4>1. PICK b : b = NextByte(x, a)
        OBVIOUS
      <4>2. b \in Firsts(x) /\ a \in Group(x, b)
        BY <2>2, <2>6, <3>1, <4>1
      <4>3. At(a, c) \in Reached(Child(e, Sub(f, x, b)))
        BY <2>3, <2>5, <2>8, <3>1, <4>2
      <4> QED
        BY <1>5, <4>2, <4>3
    <3>2. CASE w[a] = Absent
      <4>1. PICK r \in Opened(x) : At(a, c) \in Reached(Behind(x.prefix, r))
        BY <2>3, <2>8, <3>2
      <4>2. CASE r.address[1] \notin Firsts(x)
        <5>1. r \in Kept(x)
          BY <4>2 DEF Kept
        <5> QED
          BY <1>5, <1>8, <4>1, <5>1
      <4>3. CASE r.address[1] \in Firsts(x)
        <5>1. PICK b : b = r.address[1]
          OBVIOUS
        <5>2. b \in Firsts(x) /\ r \in Met(x, b) /\ a \notin Group(x, b)
          BY <2>2, <3>2, <4>3, <5>1 DEF Met, Group
        <5>3. At(a, c) \in Reached(Child(e, Sub(f, x, b)))
          BY <2>5, <4>1, <5>2
        <5> QED
          BY <1>5, <5>2, <5>3
      <4> QED
        BY <4>2, <4>3
    <3> QED
      BY <3>1, <3>2
  <2>9. ASSUME NEW r \in node.refs, At(a, c) \in Reached(Child(e, r)) PROVE Says(x, a, c)
    <3>1. r.address[1] = NextByte(x, a)
      BY <2>7, <2>9
    <3>2. CASE r \in Kept(x)
      <4>1. w[a] = Absent
        BY <1>8, <2>2, <2>6, <3>1, <3>2
      <4> QED
        BY <1>8, <2>3, <2>9, <3>2, <4>1
    <3>3. ASSUME NEW b \in Firsts(x), r = Sub(f, x, b)
          PROVE  Says(x, a, c)
      <4>1. b = NextByte(x, a)
        <5>1. Slice(x, b)[1] = b
          BY <1>7, SliceIs
        <5> QED
          BY <1>9, <3>1, <3>3, <5>1
      <4>2. CASE a \in Group(x, b)
        <5>1. w[a] # Absent
          BY <2>2, <4>2 DEF Group
        <5> QED
          BY <2>3, <2>5, <2>9, <3>3, <4>2, <5>1
      <4>3. CASE a \notin Group(x, b)
        <5>1. w[a] = Absent
          BY <2>2, <2>6, <4>1, <4>3
        <5>2. PICK s \in Met(x, b) : At(a, c) \in Reached(Behind(x.prefix, s))
          BY <2>5, <2>9, <3>3, <4>3
        <5>3. s \in Opened(x)
          BY DEF Met
        <5> QED
          BY <2>3, <5>1, <5>2, <5>3
      <4> QED
        BY <4>2, <4>3
    <3> QED
      BY <1>5, <3>2, <3>3
  <2> QED
    BY <2>4, <2>8, <2>9
<1> QED
  BY <1>2, <1>3, <1>4, <1>10, <1>11, <1>13 DEF Result

LEMMA PutResult ==
    ASSUME NEW root, root = Absent \/ Whole(root),
           NEW put, \A x \in PutArgs(root) : put[x] = PutStep(put, x),
           NEW x \in PutArgs(root), Tight(x)
    PROVE  Result(x, put[x], Old(root))
<1>1. Closed(Old(root)) /\ AddressLength \in Nat
  BY OldIs, AddressAssumption
<1>2. \A y \in PutArgs(root) : Arg(y, Old(root)) /\ Len(y.prefix) \in Nat /\ Len(y.prefix) <= AddressLength
  BY <1>1, PutArgsAre, LeafIs
<1> DEFINE From(k) == {y \in PutArgs(root) : Len(y.prefix) >= AddressLength - k}
           S == {k \in 0 .. AddressLength : \A y \in From(k) : Tight(y) => Result(y, put[y], Old(root))}
<1>3. 0 \in S
  <2>1. ASSUME NEW y \in From(0) PROVE Result(y, put[y], Old(root))
    <3>1. Len(y.prefix) = AddressLength /\ y \in PutArgs(root)
      BY <1>1, <1>2
    <3>2. Result(y, PutStep(put, y), Old(root))
      BY <1>1, <1>2, <3>1, LeafResult
    <3> QED
      BY <3>1, <3>2
  <2> QED
    BY <1>1, <2>1
<1>4. ASSUME NEW k \in 0 .. AddressLength - 1, k \in S
      PROVE  k + 1 \in S
  <2>1. ASSUME NEW y \in From(k + 1), Tight(y) PROVE Result(y, put[y], Old(root))
    <3>1. y \in PutArgs(root) /\ Len(y.prefix) >= AddressLength - (k + 1)
      OBVIOUS
    <3>2. CASE Len(y.prefix) < AddressLength
      <4>1. ASSUME NEW b \in Firsts(y)
            PROVE  Result(SubArgs(y, b), SubPut(put, y, b), Old(root))
        <5>1. /\ SubArgs(y, b) \in PutArgs(root) /\ Tight(SubArgs(y, b))
              /\ Len(SubArgs(y, b).prefix) > Len(y.prefix)
          BY <3>1, <3>2, SubArgsAre
        <5>2. Len(SubArgs(y, b).prefix) >= AddressLength - k
          BY <1>1, <1>2, <3>1, <5>1
        <5> QED
          BY <1>4, <5>1, <5>2 DEF SubPut
      <4>2. Result(y, PutStep(put, y), Old(root))
        BY <1>1, <1>2, <2>1, <3>1, <3>2, <4>1, NodeResult
      <4> QED
        BY <3>1, <4>2
    <3>3. CASE Len(y.prefix) = AddressLength
      <4>1. Result(y, PutStep(put, y), Old(root))
        BY <1>1, <1>2, <3>1, <3>3, LeafResult
      <4> QED
        BY <3>1, <4>1
    <3> QED
      BY <1>1, <1>2, <3>1, <3>2, <3>3
  <2>2. k + 1 \in 0 .. AddressLength
    BY <1>1
  <2> QED
    BY <2>1, <2>2
<1>5. 0 .. AddressLength \subseteq S
  <2> HIDE DEF S
  <2> QED
    BY <1>1, <1>3, <1>4, CountingUp
<1>6. AddressLength \in S
  <2> HIDE DEF S
  <2> QED
    BY <1>1, <1>5
<1>7. x \in From(AddressLength)
  BY <1>1, <1>2
<1> QED
  BY <1>6, <1>7

LEMMA EmptyPlace ==
    /\ <<>> \in Places /\ Len(<<>>) = 0 /\ Len(<<>>) < AddressLength
    /\ \A p \in Places : Matches(<<>>, p, 0)
<1>1. PICK p : p = <<>>
  OBVIOUS
<1>2. p \in Seq(Bytes) /\ Len(p) = 0 /\ AddressLength \in Nat /\ AddressLength >= 1
  BY <1>1, AddressAssumption
<1>3. p \in Places
  <2>1. Len(p) <= AddressLength
    BY <1>2
  <2> QED
    BY <1>2, <2>1, PlacesAre
<1>4. \A q \in Places : Matches(p, q, 0)
  BY <1>2, PlacesAre DEF Matches
<1> QED
  BY <1>1, <1>2, <1>3, <1>4

LEMMA NothingThere ==
    ASSUME NEW a
    PROVE  GetAccount(Absent, a) = Absent
<1>1. PICK f : /\ Descent(f, AddressLength, Absent, a)
               /\ GetAccount(Absent, a) = f[AddressLength].value
  BY GetAccountIs
<1> DEFINE S == {k \in 0 .. AddressLength : f[k].value = Absent}
<1>2. 0 \in S
  BY <1>1, AddressAssumption DEF Descent
<1>3. ASSUME NEW k \in 0 .. AddressLength - 1, k \in S
      PROVE  k + 1 \in S
  <2>1. k + 1 \in 1 .. AddressLength /\ (k + 1) - 1 = k /\ k + 1 \in 0 .. AddressLength
    BY AddressAssumption
  <2>2. f[k + 1] = Descend(a, f[k])
    BY <1>1, <2>1 DEF Descent
  <2>3. f[k].value = Absent
    BY <1>3
  <2>4. Descend(a, f[k]) = f[k]
    BY <2>3, ValuesAre DEF Descend
  <2> QED
    BY <2>1, <2>2, <2>3, <2>4
<1>4. 0 .. AddressLength \subseteq S
  <2> HIDE DEF S
  <2> QED
    BY <1>2, <1>3, CountingUp, AddressAssumption
<1> QED
  BY <1>1, <1>4, AddressAssumption

LEMMA AccountsAre ==
    ASSUME NEW root, root = Absent \/ Whole(root)
    PROVE  Accounts(root) \in Maps
<1>1. \A a \in Addresses : GetAccount(root, a) \in AccountValues \cup {Absent}
  BY AccountFound, NothingThere
<1> QED
  BY <1>1 DEF Accounts, Maps

\* What putAccount returns is a whole tree: what is in it was put or was there before, and
\* it says of each account what the changes say, and of the others what was said before.
LEMMA PutAccountIs ==
    ASSUME NEW root, root = Absent \/ Whole(root),
           NEW changes \in Maps, Known(changes) # {},
           root = Absent => \E a, c \in Known(changes) : a # c
    PROVE  LET put == PutAccount(root, changes) IN
           /\ Whole(put.hash) /\ put.hash # Absent
           /\ Below(put.hash) \subseteq {p.value : p \in put.batch} \cup (Below(root) \ {Absent})
           /\ \A e \in put.batch : IsNode(e.value) =>
                 Children(e.value) \subseteq {p.value : p \in put.batch} \cup (Below(root) \ {Absent})
           /\ Accounts(put.hash) = [a \in Addresses |-> IF changes[a] # Absent THEN changes[a]
                                                        ELSE Accounts(root)[a]]
<1>1. PICK put : /\ \A x \in PutArgs(root) : put[x] = PutStep(put, x)
                 /\ \A cs : PutAccount(root, cs) = put[Call(root, cs)]
  BY PutIs
<1>2. PICK x : x = Call(root, changes)
  OBVIOUS
<1>3. PICK D : D = Old(root)
  OBVIOUS
<1>4. x.met = Root(root) /\ x.changes = changes /\ x.prefix = <<>> /\ Root(root).at = <<>> /\ Root(root).value = root
      /\ Root(root) = At(<<>>, root)
  BY <1>2, AtIs DEF Call, Root
<1>5. x = [met |-> x.met, changes |-> x.changes, prefix |-> x.prefix]
  BY <1>2 DEF Call
<1>6. Closed(D) /\ (root # Absent => Root(root) \in D /\ D = Reached(Root(root))) /\ (root = Absent => D = {})
  BY <1>3, OldIs
<1>7. Behaves(x, D)
  <2>1. \A a \in Known(changes) : a \in Places
    BY PlacesAre, AddressAssumption DEF Known
  <2>2. x.met \in D \/ (x.met.value = Absent /\ x.met = At(x.met.at, Absent))
    BY <1>4, <1>6
  <2> QED
    BY <1>4, <2>1, <2>2, EmptyPlace DEF Behaves
<1>8. IsNode(x.met.value) \/ ~Single(x)
  <2>1. CASE root = Absent
    <3>1. Changed(x) = Known(changes)
      BY <1>4, <2>1 DEF Changed, WithAccount
    <3> QED
      BY <2>1, <3>1 DEF Single
  <2>2. CASE root # Absent
    <3>1. Sound(Root(root))
      BY <1>6, <2>2, EntryIs
    <3> QED
      BY <1>4, <3>1, SoundIs, EmptyPlace
  <2> QED
    BY <2>1, <2>2
<1>9. Arg(x, D) /\ Tight(x)
  BY <1>4, <1>7, <1>8 DEF Arg, Tight
<1>10. x \in PutArgs(root)
  BY <1>3, <1>5, <1>9, PutArgsAre
<1>11. PICK res : res = PutAccount(root, changes)
  OBVIOUS
<1>12. Result(x, res, D)
  BY <1>1, <1>2, <1>3, <1>9, <1>10, <1>11, PutResult
<1>13. Root(res.hash) \in res.batch /\ Root(res.hash) = At(<<>>, res.hash)
  BY <1>4, <1>12 DEF Result, Root
<1>14. Closed(res.batch \cup D)
  BY <1>6, <1>12 DEF Result, Closed
<1>15. Reached(Root(res.hash)) \subseteq res.batch \cup D /\ Whole(res.hash)
  BY <1>13, <1>14, ReachesAll DEF Whole
<1>16. res.hash # Absent
  <2>1. Sound(Root(res.hash)) /\ Root(res.hash).value = res.hash
    BY <1>13, <1>14, EntryIs, AtIs
  <2> QED
    BY <2>1, SoundIs
<1>17. \A e \in D : e.value \in Below(root) \ {Absent}
  BY <1>3 DEF Below, Old
<1>18. Below(res.hash) \subseteq {p.value : p \in res.batch} \cup (Below(root) \ {Absent})
  BY <1>15, <1>17 DEF Below
<1>19. ASSUME NEW e \in res.batch, IsNode(e.value), NEW v \in Children(e.value)
       PROVE  v \in {p.value : p \in res.batch} \cup (Below(root) \ {Absent})
  <2>1. PICK r \in e.value.refs : v = r.child
    BY <1>19 DEF Children
  <2>2. Child(e, r) \in res.batch \cup D
    BY <1>14, <1>19 DEF Closed, Complete
  <2>3. Child(e, r).value = v
    BY <2>1, AtIs DEF Child, Behind
  <2> QED
    BY <1>17, <2>2, <2>3
<1>20. ASSUME NEW a \in Addresses
       PROVE  GetAccount(res.hash, a) = IF changes[a] # Absent THEN changes[a] ELSE GetAccount(root, a)
  <2>1. GetAccount(res.hash, a) \in AccountValues \cup {Absent}
        /\ \A c \in AccountValues : At(a, c) \in Reached(Root(res.hash)) <=> GetAccount(res.hash, a) = c
    BY <1>15, AccountFound
  <2>2. \A c \in AccountValues : At(a, c) \in Reached(Root(res.hash)) <=> Says(x, a, c)
    BY <1>4, <1>12, <1>13 DEF Result
  <2>3. changes[a] \in AccountValues \cup {Absent} /\ GetAccount(root, a) \in AccountValues \cup {Absent}
    BY AccountFound, NothingThere DEF Maps
  <2>4. Absent \notin AccountValues
    BY ValuesAre
  <2>5. CASE changes[a] # Absent
    <3>1. Says(x, a, changes[a])
      BY <1>4, <2>5 DEF Says
    <3> QED
      BY <2>1, <2>2, <2>3, <2>5, <3>1
  <2>6. CASE changes[a] = Absent
    <3>1. \A c \in AccountValues : Says(x, a, c) <=> At(a, c) \in Reached(Root(root))
      BY <1>4, <2>6 DEF Says
    <3>2. \A c \in AccountValues : At(a, c) \in Reached(Root(root)) <=> GetAccount(root, a) = c
      <4>1. CASE root = Absent
        <5>1. GetAccount(root, a) = Absent
          BY <4>1, NothingThere
        <5>2. Reached(Root(root)) = {Root(root)}
          BY <1>4, <4>1, LeafReaches, ValuesAre
        <5>3. \A c : At(a, c) # Root(root)
          <6>1. <<>> \notin Addresses
            BY EmptyPlace, PlacesAre
          <6> QED
            BY <1>4, <6>1, AtIs
        <5> QED
          BY <2>4, <5>1, <5>2, <5>3
      <4>2. CASE root # Absent
        BY <4>2, AccountFound
      <4> QED
        BY <4>1, <4>2
    <3> QED
      BY <2>1, <2>2, <2>3, <2>4, <2>6, <3>1, <3>2
  <2> QED
    BY <2>5, <2>6
<1>21. Accounts(res.hash) = [a \in Addresses |-> IF changes[a] # Absent THEN changes[a]
                                                 ELSE Accounts(root)[a]]
  BY <1>20 DEF Accounts
<1> QED
  BY <1>11, <1>15, <1>16, <1>18, <1>19, <1>21

\* A whole tree is the one tree for its accounts.
LEMMA WholeIsCanonical ==
    ASSUME NEW root, Whole(root)
    PROVE  Canonical(root)
<1>1. SUFFICES ASSUME NEW v \in Below(root), IsNode(v)
               PROVE  /\ \A r, s \in v.refs : r.address[1] = s.address[1] => r = s
                      /\ \A c \in Children(v) : IsNode(c) => \E r, s \in c.refs : r # s
  BY DEF Canonical
<1>2. PICK e \in Reached(Root(root)) : e.value = v
  BY <1>1 DEF Below
<1>3. Sound(e) /\ Closed(Reached(Root(root)))
  BY EntryIs DEF Whole
<1>4. Len(e.at) < AddressLength
  BY <1>1, <1>2, <1>3, SoundIs
<1>5. \A r, s \in v.refs : r.address[1] = s.address[1] => r = s
  BY <1>2, <1>3, <1>4 DEF Sound
<1>6. ASSUME NEW c \in Children(v), IsNode(c)
      PROVE  \E r, s \in c.refs : r # s
  <2>1. PICK r \in v.refs : c = r.child
    BY <1>1 DEF Children
  <2>2. PICK d : d = Child(e, r)
    OBVIOUS
  <2>3. d \in Reached(Root(root)) /\ Sound(d)
    BY <1>1, <1>2, <1>3, <2>1, <2>2, EntryIs DEF Closed, Complete
  <2>4. d.value = c
    BY <2>1, <2>2, AtIs DEF Child, Behind
  <2>5. Len(d.at) = Len(e.at) + Len(r.address) /\ Len(r.address) >= 1 /\ Len(r.address) \in Nat /\ Len(e.at) \in Nat
    BY <1>1, <1>2, <1>3, <2>1, <2>2, SoundIs, PlacesAre
  <2>6. d.at # <<>>
    <3>1. Len(d.at) >= 1
      <4>1. PICK i, j, k : i = Len(e.at) /\ j = Len(r.address) /\ k = Len(d.at)
        OBVIOUS
      <4>2. i \in Nat /\ j \in Nat /\ j >= 1 /\ k = i + j
        BY <2>5, <4>1
      <4>3. k >= 1
        BY <4>2
      <4> QED
        BY <4>1, <4>3
    <3> QED
      BY <3>1, EmptyPlace
  <2>7. Len(d.at) < AddressLength
    BY <1>6, <2>3, <2>4, SoundIs
  <2> QED
    BY <2>3, <2>4, <2>6, <2>7 DEF Sound
<1> QED
  BY <1>5, <1>6

-----------------------------------------------------------------------------
(***************************************************************************)
(* There is one tree for given accounts: a reference leads as far as the   *)
(* accounts behind it have in common, and there is one for each next byte. *)
(***************************************************************************)

SameAccounts(e, f) ==
    \A a \in Addresses, c \in AccountValues : At(a, c) \in Reached(e) <=> At(a, c) \in Reached(f)

LEMMA ChildIs ==
    ASSUME NEW D, Closed(D), NEW e \in D, IsNode(e.value), NEW r \in e.value.refs
    PROVE  /\ Child(e, r) \in D /\ Child(e, r).at # <<>>
           /\ Len(Child(e, r).at) \in Nat /\ Len(e.at) \in Nat /\ Len(Child(e, r).at) > Len(e.at)
           /\ \A a \in Addresses : \A c : At(a, c) \in Reached(Child(e, r)) =>
                 At(a, c) \in Reached(e) /\ r.address[1] = a[Len(e.at) + 1]
           /\ \A s \in e.value.refs : r.address[1] = s.address[1] => r = s
<1>1. Sound(e) /\ Len(e.at) \in Nat
  BY EntryIs, SoundIs
<1>2. Child(e, r) \in D
  BY DEF Closed, Complete
<1>3. /\ r.address \in Places /\ Len(r.address) >= 1 /\ Len(r.address) \in Nat
      /\ Child(e, r).at \in Places /\ Len(Child(e, r).at) = Len(e.at) + Len(r.address)
  BY <1>1, SoundIs, PlacesAre
<1>4. Len(Child(e, r).at) \in Nat /\ Len(Child(e, r).at) > Len(e.at)
  <2>1. PICK i, j, k : i = Len(e.at) /\ j = Len(r.address) /\ k = Len(Child(e, r).at)
    OBVIOUS
  <2>2. i \in Nat /\ j \in Nat /\ j >= 1 /\ k = i + j
    BY <1>1, <1>3, <2>1
  <2>3. k \in Nat /\ k > i
    BY <2>2
  <2> QED
    BY <2>1, <2>3
<1>5. Child(e, r).at # <<>>
  BY <1>1, <1>4, EmptyPlace
<1>6. ASSUME NEW a \in Addresses, NEW c, At(a, c) \in Reached(Child(e, r))
      PROVE  At(a, c) \in Reached(e) /\ r.address[1] = a[Len(e.at) + 1]
  <2>1. At(a, c) \in Reached(e)
    BY <1>6, ReachedUnfolds
  <2>2. Matches(r.address, a, Len(e.at))
    BY <1>6, OneWay
  <2>3. 1 \in 1 .. Len(r.address)
    BY <1>3
  <2> QED
    BY <2>1, <2>2, <2>3 DEF Matches
<1>7. \A s \in e.value.refs : r.address[1] = s.address[1] => r = s
  <2>1. Len(e.at) < AddressLength
    BY <1>1, SoundIs
  <2> QED
    BY <1>1, <2>1 DEF Sound
<1> QED
  BY <1>1, <1>2, <1>4, <1>5, <1>6, <1>7

\* There is an account behind every reference.
LEMMA Inhabited ==
    ASSUME NEW D, Closed(D), NEW e \in D, e.at # <<>>
    PROVE  \E a \in Addresses, c \in AccountValues : At(a, c) \in Reached(e)
<1> DEFINE Some(d) == \E a \in Addresses, c \in AccountValues : At(a, c) \in Reached(d)
           S == {k \in 0 .. AddressLength :
                    \A d \in D : d.at # <<>> /\ Len(d.at) + k >= AddressLength => Some(d)}
<1>1. AddressLength \in Nat
  BY AddressAssumption
<1>2. \A d \in D : Sound(d) /\ d = At(d.at, d.value) /\ Len(d.at) \in Nat /\ Len(d.at) <= AddressLength
  BY EntryIs, SoundIs
<1>3. ASSUME NEW d \in D, ~IsNode(d.value) PROVE Some(d)
  <2>1. d.at \in Addresses /\ d.value \in AccountValues /\ At(d.at, d.value) \in Reached(d)
    BY <1>2, <1>3, SoundIs, ReachesItself
  <2> QED
    BY <2>1
<1>4. 0 \in S
  <2>1. ASSUME NEW d \in D, Len(d.at) + 0 >= AddressLength PROVE Some(d)
    <3>1. \A i \in Nat : i + 0 >= AddressLength => ~ (i < AddressLength)
      BY <1>1
    <3>2. ~ (Len(d.at) < AddressLength)
      BY <1>2, <2>1, <3>1
    <3>3. ~IsNode(d.value)
      BY <1>2, <3>2, SoundIs
    <3> HIDE DEF Some
    <3> QED
      BY <1>3, <3>3
  <2> HIDE DEF Some
  <2> QED
    BY <1>1, <2>1
<1>5. ASSUME NEW k \in 0 .. AddressLength - 1, k \in S
      PROVE  k + 1 \in S
  <2>1. ASSUME NEW d \in D, d.at # <<>>, Len(d.at) + (k + 1) >= AddressLength, IsNode(d.value)
        PROVE  Some(d)
    <3>1. Len(d.at) < AddressLength
      BY <1>2, <2>1, SoundIs
    <3>2. PICK r \in d.value.refs : TRUE
      BY <1>2, <2>1, <3>1 DEF Sound
    <3>3. PICK g : g = Child(d, r)
      OBVIOUS
    <3>4. /\ g \in D /\ g.at # <<>> /\ Len(g.at) \in Nat /\ Len(g.at) > Len(d.at)
          /\ \A a \in Addresses : \A c : At(a, c) \in Reached(g) => At(a, c) \in Reached(d)
      BY <2>1, <3>3, ChildIs
    <3>5. Len(g.at) + k >= AddressLength
      <4>1. \A i, j \in Nat : j > i /\ i + (k + 1) >= AddressLength => j + k >= AddressLength
        BY <1>1
      <4> QED
        BY <1>2, <2>1, <3>4, <4>1
    <3>6. Some(g)
      BY <1>5, <3>4, <3>5
    <3> QED
      BY <3>4, <3>6
  <2> HIDE DEF Some
  <2>2. k + 1 \in 0 .. AddressLength
    BY <1>1
  <2> QED
    BY <1>3, <2>1, <2>2
<1>6. AddressLength \in S
  <2> HIDE DEF S
  <2>1. 0 .. AddressLength \subseteq S
    BY <1>1, <1>4, <1>5, CountingUp
  <2> QED
    BY <1>1, <2>1
<1>7. Len(e.at) + AddressLength >= AddressLength
  BY <1>1, <1>2
<1> QED
  BY <1>6, <1>7

LEMMA NotLonger ==
    ASSUME NEW D, Closed(D), NEW e \in D, e.at # <<>>,
           NEW E, Closed(E), NEW f \in E, SameAccounts(e, f)
    PROVE  ~ (Len(e.at) < Len(f.at))
<1>1. SUFFICES ASSUME Len(e.at) < Len(f.at) PROVE FALSE
  OBVIOUS
<1>2. Sound(e) /\ Sound(f) /\ Len(e.at) \in Nat /\ Len(f.at) \in Nat /\ Len(f.at) <= AddressLength
  BY EntryIs, SoundIs
<1>3. Len(e.at) < AddressLength /\ AddressLength \in Nat
  BY <1>1, <1>2, AddressAssumption
<1>4. IsNode(e.value)
  BY <1>2, <1>3, SoundIs
<1>5. PICK r \in e.value.refs, s \in e.value.refs : r # s
  BY <1>2, <1>3 DEF Sound
<1>6. r.address[1] # s.address[1]
  BY <1>4, <1>5, ChildIs
<1>7. ASSUME NEW t \in e.value.refs
      PROVE  t.address[1] = f.at[Len(e.at) + 1]
  <2>1. PICK g : g = Child(e, t)
    OBVIOUS
  <2>2. g \in D /\ g.at # <<>>
    BY <1>4, <2>1, ChildIs
  <2>3. PICK a \in Addresses, c \in AccountValues : At(a, c) \in Reached(g)
    BY <2>2, Inhabited
  <2>4. At(a, c) \in Reached(e) /\ t.address[1] = a[Len(e.at) + 1]
    BY <1>4, <2>1, <2>3, ChildIs
  <2>5. At(a, c) \in Reached(f)
    BY <2>4 DEF SameAccounts
  <2>6. Matches(f.at, a, 0)
    BY <2>5, ReachesAll, AtIs
  <2>7. Len(e.at) + 1 \in 1 .. Len(f.at)
    BY <1>1, <1>2
  <2>8. f.at[Len(e.at) + 1] = a[0 + (Len(e.at) + 1)] /\ 0 + (Len(e.at) + 1) = Len(e.at) + 1
    BY <1>2, <2>6, <2>7 DEF Matches
  <2> QED
    BY <2>4, <2>8
<1> QED
  BY <1>5, <1>6, <1>7

\* A reference leads as far as the accounts behind it have in common.
LEMMA SamePlaceBehind ==
    ASSUME NEW D, Closed(D), NEW e \in D, e.at # <<>>,
           NEW E, Closed(E), NEW f \in E, f.at # <<>>, SameAccounts(e, f)
    PROVE  e.at = f.at
<1>1. SameAccounts(f, e)
  BY DEF SameAccounts
<1>2. Len(e.at) \in Nat /\ Len(f.at) \in Nat /\ e.at \in Places /\ f.at \in Places
  BY EntryIs, SoundIs DEF Sound
<1>3. Len(e.at) = Len(f.at)
  <2>1. ~ (Len(e.at) < Len(f.at)) /\ ~ (Len(f.at) < Len(e.at))
    BY <1>1, NotLonger
  <2> QED
    BY <1>2, <2>1
<1>4. PICK a \in Addresses, c \in AccountValues : At(a, c) \in Reached(e)
  BY Inhabited
<1>5. At(a, c) \in Reached(f)
  BY <1>4 DEF SameAccounts
<1>6. Matches(e.at, a, 0) /\ Matches(f.at, a, 0)
  BY <1>4, <1>5, ReachesAll, AtIs
<1>7. \A i \in 1 .. Len(e.at) : e.at[i] = f.at[i]
  BY <1>2, <1>3, <1>6 DEF Matches
<1>8. e.at \in Seq(Bytes) /\ f.at \in Seq(Bytes)
  BY <1>2, PlacesAre
<1> QED
  BY <1>3, <1>7, <1>8, SamePlace

LEMMA SameRefs ==
    ASSUME NEW D, Closed(D), NEW e \in D, IsNode(e.value),
           NEW E, Closed(E), NEW f \in E, IsNode(f.value), e.at = f.at, SameAccounts(e, f),
           \A d \in D, g \in E : Len(d.at) > Len(e.at) /\ d.at = g.at /\ SameAccounts(d, g) => d = g,
           NEW r \in e.value.refs
    PROVE  r \in f.value.refs
<1>1. PICK d : d = Child(e, r)
  OBVIOUS
<1>2. /\ d \in D /\ d.at # <<>> /\ Len(d.at) > Len(e.at)
      /\ \A a \in Addresses : \A c : At(a, c) \in Reached(d) =>
            At(a, c) \in Reached(e) /\ r.address[1] = a[Len(e.at) + 1]
  BY <1>1, ChildIs
<1>3. PICK a \in Addresses, c \in AccountValues : At(a, c) \in Reached(d)
  BY <1>2, Inhabited
<1>4. At(a, c) \in Reached(f)
  BY <1>2, <1>3 DEF SameAccounts
<1>5. PICK s \in f.value.refs : At(a, c) \in Reached(Child(f, s))
  BY <1>4, OneWay
<1>6. PICK g : g = Child(f, s)
  OBVIOUS
<1>7. /\ g \in E /\ g.at # <<>>
      /\ \A b \in Addresses : \A v : At(b, v) \in Reached(g) =>
            At(b, v) \in Reached(f) /\ s.address[1] = b[Len(e.at) + 1]
  BY <1>6, ChildIs
<1>8. r.address[1] = s.address[1]
  BY <1>2, <1>3, <1>5, <1>6, <1>7
<1>9. SameAccounts(d, g)
  <2>1. ASSUME NEW b \in Addresses, NEW v \in AccountValues, At(b, v) \in Reached(d)
        PROVE  At(b, v) \in Reached(g)
    <3>1. At(b, v) \in Reached(f) /\ r.address[1] = b[Len(e.at) + 1]
      BY <1>2, <2>1 DEF SameAccounts
    <3>2. PICK t \in f.value.refs : At(b, v) \in Reached(Child(f, t))
      BY <3>1, OneWay
    <3>3. t.address[1] = b[Len(e.at) + 1]
      BY <3>2, ChildIs
    <3>4. s = t
      BY <1>8, <3>1, <3>3, ChildIs
    <3> QED
      BY <1>6, <3>2, <3>4
  <2>2. ASSUME NEW b \in Addresses, NEW v \in AccountValues, At(b, v) \in Reached(g)
        PROVE  At(b, v) \in Reached(d)
    <3>1. At(b, v) \in Reached(e) /\ s.address[1] = b[Len(e.at) + 1]
      BY <1>7, <2>2 DEF SameAccounts
    <3>2. PICK t \in e.value.refs : At(b, v) \in Reached(Child(e, t))
      BY <3>1, OneWay
    <3>3. t.address[1] = b[Len(e.at) + 1]
      BY <3>2, ChildIs
    <3>4. r = t
      BY <1>8, <3>1, <3>3, ChildIs
    <3> QED
      BY <1>1, <3>2, <3>4
  <2> QED
    BY <2>1, <2>2 DEF SameAccounts
<1>10. d.at = g.at
  BY <1>2, <1>7, <1>9, SamePlaceBehind
<1>11. d = g
  BY <1>2, <1>7, <1>9, <1>10
<1>12. /\ r.address \in Places /\ s.address \in Places /\ e.at \in Places
       /\ d.at = Join(e.at, r.address) /\ g.at = Join(e.at, s.address)
       /\ d.value = r.child /\ g.value = s.child
  <2>1. Sound(e) /\ Sound(f)
    BY EntryIs
  <2>2. r.address \in Places /\ d.at = Join(e.at, r.address) /\ d.value = r.child
    BY <1>1, <2>1, SoundIs
  <2>3. s.address \in Places /\ g.at = Join(f.at, s.address) /\ g.value = s.child
    BY <1>6, <2>1, SoundIs
  <2>4. e.at \in Places
    BY <2>1 DEF Sound
  <2> QED
    BY <2>2, <2>3, <2>4
<1>13. r.address = s.address
  <2>1. PICK p \in Places, q \in Places, m \in Places : p = r.address /\ q = s.address /\ m = e.at
    BY <1>12
  <2>2. p \in Seq(Bytes) /\ q \in Seq(Bytes) /\ Len(m) \in Nat /\ Len(p) \in Nat /\ Len(q) \in Nat
    BY <1>12, <2>1, PlacesAre
  <2>3. Join(m, p) = Join(m, q)
    BY <1>10, <1>12, <2>1
  <2>4. PICK j : j = Join(m, p)
    OBVIOUS
  <2>5. Len(j) = Len(m) + Len(p) /\ \A i \in 1 .. Len(p) : j[Len(m) + i] = p[i]
    BY <2>4, Joined
  <2>6. Len(j) = Len(m) + Len(q) /\ \A i \in 1 .. Len(q) : j[Len(m) + i] = q[i]
    BY <2>3, <2>4, Joined
  <2>7. Len(p) = Len(q)
    BY <2>2, <2>5, <2>6
  <2>8. \A i \in 1 .. Len(p) : p[i] = q[i]
    BY <2>5, <2>6, <2>7
  <2> QED
    BY <2>1, <2>2, <2>7, <2>8, SamePlace
<1>14. (\E p, c1 : r = Ref(p, c1)) /\ (\E p, c1 : s = Ref(p, c1))
  <2>1. Sound(e) /\ Sound(f) /\ Len(e.at) < AddressLength /\ Len(f.at) < AddressLength
    BY EntryIs, SoundIs
  <2> QED
    BY <2>1 DEF Sound
<1>15. r = s
  BY <1>11, <1>12, <1>13, <1>14 DEF Ref
<1> QED
  BY <1>15

LEMMA SameEntry ==
    ASSUME NEW D, Closed(D), NEW E, Closed(E)
    PROVE  \A e \in D, f \in E : e.at = f.at /\ SameAccounts(e, f) => e = f
<1> DEFINE Equal(e, f) == e.at = f.at /\ SameAccounts(e, f) => e = f
           S == {k \in 0 .. AddressLength :
                    \A e \in D, f \in E : Len(e.at) + k >= AddressLength => Equal(e, f)}
<1>1. AddressLength \in Nat
  BY AddressAssumption
<1>2. \A e : e \in D \/ e \in E =>
          Sound(e) /\ e = At(e.at, e.value) /\ Len(e.at) \in Nat /\ Len(e.at) <= AddressLength
  BY EntryIs, SoundIs
<1>3. ASSUME NEW e \in D, NEW f \in E, ~IsNode(e.value), e.at = f.at, SameAccounts(e, f) PROVE e = f
  <2>1. ~IsNode(f.value)
    BY <1>2, <1>3, SoundIs
  <2>2. e.at \in Addresses /\ e.value \in AccountValues /\ Reached(e) = {e} /\ Reached(f) = {f}
    BY <1>2, <1>3, <2>1, SoundIs, LeafReaches
  <2>3. At(e.at, e.value) \in Reached(f)
    BY <1>2, <1>3, <2>2 DEF SameAccounts
  <2> QED
    BY <1>2, <2>2, <2>3
<1>4. 0 \in S
  <2>1. ASSUME NEW e \in D, NEW f \in E, Len(e.at) + 0 >= AddressLength PROVE Equal(e, f)
    <3>1. \A i \in Nat : i + 0 >= AddressLength => ~ (i < AddressLength)
      BY <1>1
    <3>2. ~ (Len(e.at) < AddressLength)
      BY <1>2, <2>1, <3>1
    <3>3. ~IsNode(e.value)
      BY <1>2, <3>2, SoundIs
    <3> QED
      BY <1>3, <3>3
  <2> HIDE DEF Equal
  <2> QED
    BY <1>1, <2>1
<1>5. ASSUME NEW k \in 0 .. AddressLength - 1, k \in S
      PROVE  k + 1 \in S
  <2>1. ASSUME NEW e \in D, NEW f \in E, Len(e.at) + (k + 1) >= AddressLength, IsNode(e.value),
               e.at = f.at, SameAccounts(e, f)
        PROVE  e = f
    <3>1. IsNode(f.value)
      BY <1>2, <2>1, SoundIs
    <3>2. \A d \in D, g \in E : Len(d.at) > Len(e.at) /\ d.at = g.at /\ SameAccounts(d, g) => d = g
      <4>1. ASSUME NEW d \in D, NEW g \in E, Len(d.at) > Len(e.at) PROVE Equal(d, g)
        <5>1. Len(d.at) + k >= AddressLength
          <6>1. \A i, j \in Nat : j > i /\ i + (k + 1) >= AddressLength => j + k >= AddressLength
            BY <1>1
          <6> QED
            BY <1>2, <2>1, <4>1, <6>1
        <5> HIDE DEF Equal
        <5> QED
          BY <1>5, <5>1
      <4> QED
        BY <4>1
    <3>3. \A r \in e.value.refs : r \in f.value.refs
      BY <2>1, <3>1, <3>2, SameRefs
    <3>4. /\ SameAccounts(f, e)
          /\ \A g \in E, d \in D : Len(g.at) > Len(f.at) /\ g.at = d.at /\ SameAccounts(g, d) => g = d
      BY <2>1, <3>2 DEF SameAccounts
    <3>5. \A r \in f.value.refs : r \in e.value.refs
      BY <2>1, <3>1, <3>4, SameRefs
    <3>6. (\E refs : e.value = Node(refs)) /\ (\E refs : f.value = Node(refs))
      <4>1. Sound(e) /\ Sound(f) /\ Len(e.at) < AddressLength /\ Len(f.at) < AddressLength
        BY <1>2, <2>1, <3>1, SoundIs
      <4> QED
        BY <4>1 DEF Sound
    <3>7. e.value = Node(e.value.refs) /\ f.value = Node(f.value.refs)
      BY <3>6, ValuesAre
    <3>8. e.value.refs = f.value.refs
      BY <3>3, <3>5
    <3> QED
      BY <1>2, <2>1, <3>7, <3>8
  <2>2. k + 1 \in 0 .. AddressLength
    BY <1>1
  <2> QED
    BY <1>3, <2>1, <2>2
<1>6. AddressLength \in S
  <2> HIDE DEF S
  <2>1. 0 .. AddressLength \subseteq S
    BY <1>1, <1>4, <1>5, CountingUp
  <2> QED
    BY <1>1, <2>1
<1>7. \A e \in D : Len(e.at) + AddressLength >= AddressLength
  BY <1>1, <1>2
<1> QED
  BY <1>6, <1>7

LEMMA OneTree ==
    ASSUME NEW root, Whole(root), NEW other, Whole(other), Accounts(root) = Accounts(other)
    PROVE  root = other
<1>1. \A a \in Addresses : GetAccount(root, a) = GetAccount(other, a)
  BY DEF Accounts
<1>2. SameAccounts(Root(root), Root(other))
  BY <1>1, AccountFound DEF SameAccounts
<1>3. Root(root).at = Root(other).at /\ Root(root).value = root /\ Root(other).value = other
  BY AtIs DEF Root
<1>4. Root(root) \in Reached(Root(root)) /\ Root(other) \in Reached(Root(other))
  BY ReachesItself
<1> QED
  BY <1>2, <1>3, <1>4, SameEntry DEF Whole

-----------------------------------------------------------------------------
(***************************************************************************)
(* Sums.                                                                   *)
(***************************************************************************)

First(s) == CHOOSE x \in s : TRUE
SumStep(f, g, s) == IF s = {} THEN 0 ELSE f[First(s)] + g[s \ {First(s)}]
Summing(f, S) == CHOOSE g : g = [s \in SUBSET S |-> SumStep(f, g, s)]
SumOver(f, S) == SumFunction([x \in S |-> f[x]])

LEMMA SumIs ==
    ASSUME NEW f
    PROVE  SumFunction(f) = Summing(f, DOMAIN f)[DOMAIN f]
BY DEF SumFunction, SumFunctionOnSet, FoldFunctionOnSet, MapThenFoldSet, Summing, SumStep, First

\* The sums of the parts of a finite set.
LEMMA SumsExist ==
    ASSUME NEW f, NEW S, IsFiniteSet(S)
    PROVE  \A s \in SUBSET S : Summing(f, S)[s] = SumStep(f, Summing(f, S), s)
<1>1. PICK size : size = Cardinality(S)
  OBVIOUS
<1>2. size \in Nat
  BY <1>1, FS_CardinalityType
<1>3. \A s \in SUBSET S : IsFiniteSet(s) /\ Cardinality(s) \in Nat /\ Cardinality(s) <= size
  BY <1>1, FS_Subset, FS_CardinalityType
<1>4. \A s \in SUBSET S : s # {} => s \ {First(s)} \in SUBSET S /\ Cardinality(s \ {First(s)}) = Cardinality(s) - 1
                                    /\ First(s) \in s
  <2> TAKE s \in SUBSET S
  <2> HAVE s # {}
  <2>1. First(s) \in s
    BY DEF First
  <2> QED
    BY <1>3, <2>1, FS_RemoveElement
<1> DEFINE Upto(k) == {s \in SUBSET S : Cardinality(s) <= k}
           K == {k \in 0 .. size : \E g : \A s \in Upto(k) : g[s] = SumStep(f, g, s)}
<1>5. 0 \in K
  <2>1. \A s \in Upto(0) : s = {}
    BY <1>3, FS_EmptySet
  <2>2. PICK g : g = [s \in SUBSET S |-> 0]
    OBVIOUS
  <2>3. \A s \in Upto(0) : g[s] = SumStep(f, g, s)
    BY <2>1, <2>2 DEF SumStep
  <2> QED
    BY <1>2, <2>3
<1>6. ASSUME NEW k \in 0 .. size - 1, k \in K
      PROVE  k + 1 \in K
  <2>1. PICK g : \A s \in Upto(k) : g[s] = SumStep(f, g, s)
    BY <1>6
  <2>2. PICK h : h = [s \in SUBSET S |-> IF s \in Upto(k) THEN g[s] ELSE SumStep(f, g, s)]
    OBVIOUS
  <2>3. \A s \in Upto(k) : h[s] = g[s]
    BY <2>2
  <2>4. ASSUME NEW s \in Upto(k + 1)
        PROVE  h[s] = SumStep(f, h, s)
    <3>1. SumStep(f, h, s) = SumStep(f, g, s)
      <4>1. CASE s = {}
        BY <4>1 DEF SumStep
      <4>2. CASE s # {}
        <5>1. s \ {First(s)} \in Upto(k)
          BY <1>2, <1>3, <1>4, <4>2
        <5> QED
          BY <2>3, <4>2, <5>1 DEF SumStep
      <4> QED
        BY <4>1, <4>2
    <3> QED
      BY <2>1, <2>2, <3>1
  <2> QED
    BY <1>2, <2>4
<1>7. 0 .. size \subseteq K
  <2> HIDE DEF K
  <2> QED
    BY <1>2, <1>5, <1>6, CountingUp
<1>8. size \in K
  <2> HIDE DEF K
  <2> QED
    BY <1>2, <1>7
<1>9. PICK g : \A s \in SUBSET S : g[s] = SumStep(f, g, s)
  BY <1>3, <1>8
<1>10. PICK h : h = [s \in SUBSET S |-> g[s]]
  OBVIOUS
<1>11. \A s \in SUBSET S : g[s] = SumStep(f, h, s)
  BY <1>4, <1>9, <1>10 DEF SumStep
<1>12. h = [s \in SUBSET S |-> SumStep(f, h, s)]
  BY <1>10, <1>11
<1>13. Summing(f, S) = [s \in SUBSET S |-> SumStep(f, Summing(f, S), s)]
  BY <1>12 DEF Summing
<1> QED
  BY <1>13

\* A sum does not depend on the set it is a part of, nor on the values elsewhere.
LEMMA SumsAgree ==
    ASSUME NEW f, NEW g, NEW S, IsFiniteSet(S), NEW T \in SUBSET S, \A x \in T : f[x] = g[x]
    PROVE  Summing(f, S)[T] = Summing(g, T)[T]
<1>1. IsFiniteSet(T)
  BY FS_Subset
<1>2. PICK size : size = Cardinality(T)
  OBVIOUS
<1>3. size \in Nat
  BY <1>1, <1>2, FS_CardinalityType
<1>4. \A s \in SUBSET T : IsFiniteSet(s) /\ Cardinality(s) \in Nat /\ Cardinality(s) <= size
  BY <1>1, <1>2, FS_Subset, FS_CardinalityType
<1>5. PICK p, q : p = Summing(f, S) /\ q = Summing(g, T)
  OBVIOUS
<1>6. \A s \in SUBSET T : p[s] = SumStep(f, p, s) /\ q[s] = SumStep(g, q, s)
  BY <1>1, <1>5, SumsExist
<1> DEFINE K == {k \in 0 .. size : \A s \in SUBSET T : Cardinality(s) <= k => p[s] = q[s]}
<1>7. 0 \in K
  <2>1. \A s \in SUBSET T : Cardinality(s) <= 0 => s = {}
    BY <1>4, FS_EmptySet
  <2> QED
    BY <1>3, <1>6, <2>1 DEF SumStep
<1>8. ASSUME NEW k \in 0 .. size - 1, k \in K
      PROVE  k + 1 \in K
  <2>1. ASSUME NEW s \in SUBSET T, Cardinality(s) <= k + 1
        PROVE  p[s] = q[s]
    <3>1. CASE s = {}
      BY <1>6, <3>1 DEF SumStep
    <3>2. CASE s # {}
      <4>1. First(s) \in s
        BY <3>2 DEF First
      <4>2. s \ {First(s)} \in SUBSET T /\ Cardinality(s \ {First(s)}) = Cardinality(s) - 1
        BY <1>4, <4>1, FS_RemoveElement
      <4>3. Cardinality(s \ {First(s)}) <= k
        BY <1>3, <1>4, <2>1, <4>2
      <4>4. p[s \ {First(s)}] = q[s \ {First(s)}] /\ f[First(s)] = g[First(s)]
        BY <1>8, <4>1, <4>2, <4>3
      <4> QED
        BY <1>6, <3>2, <4>4 DEF SumStep
    <3> QED
      BY <3>1, <3>2
  <2> QED
    BY <1>3, <2>1
<1>9. 0 .. size \subseteq K
  <2> HIDE DEF K
  <2> QED
    BY <1>3, <1>7, <1>8, CountingUp
<1>10. size \in K
  <2> HIDE DEF K
  <2> QED
    BY <1>3, <1>9
<1>11. p[T] = q[T]
  BY <1>2, <1>3, <1>10
<1> QED
  BY <1>5, <1>11

LEMMA SumOverIs ==
    ASSUME NEW f, NEW S, IsFiniteSet(S)
    PROVE  /\ S = {} => SumOver(f, S) = 0
           /\ S # {} => First(S) \in S /\ SumOver(f, S) = f[First(S)] + SumOver(f, S \ {First(S)})
<1> DEFINE At0(T) == [x \in T |-> f[x]]
<1>1. \A T : SumOver(f, T) = Summing(At0(T), T)[T]
  BY SumIs DEF SumOver
<1>2. S = {} => SumOver(f, S) = 0
  BY <1>1, SumsExist DEF SumStep
<1>3. ASSUME S # {}
      PROVE  First(S) \in S /\ SumOver(f, S) = f[First(S)] + SumOver(f, S \ {First(S)})
  <2>1. First(S) \in S
    BY <1>3 DEF First
  <2>2. PICK x : x = First(S)
    OBVIOUS
  <2>3. PICK T : T = S \ {x}
    OBVIOUS
  <2>4. Summing(At0(S), S)[S] = SumStep(At0(S), Summing(At0(S), S), S)
    BY SumsExist
  <2>5. SumStep(At0(S), Summing(At0(S), S), S) = f[x] + Summing(At0(S), S)[T]
    BY <1>3, <2>1, <2>2, <2>3 DEF SumStep
  <2>6. Summing(At0(S), S)[T] = Summing(At0(T), T)[T]
    <3>1. T \in SUBSET S /\ \A y \in T : At0(S)[y] = At0(T)[y]
      BY <2>3
    <3> HIDE DEF At0
    <3> QED
      BY <3>1, SumsAgree
  <2> QED
    BY <1>1, <2>1, <2>2, <2>3, <2>4, <2>5, <2>6
<1> QED
  BY <1>2, <1>3

LEMMA SumOfNothing == ASSUME NEW f PROVE SumOver(f, {}) = 0
<1>1. IsFiniteSet({})
  BY FS_EmptySet
<1> QED
  BY <1>1, SumOverIs

\* Any element may be taken out of a sum.
LEMMA SumTakes ==
    ASSUME NEW S, IsFiniteSet(S), NEW f, \A x \in S : f[x] \in Int
    PROVE  /\ SumOver(f, S) \in Int
           /\ \A y \in S : SumOver(f, S) = f[y] + SumOver(f, S \ {y})
<1>2. PICK size : size = Cardinality(S)
  OBVIOUS
<1>3. size \in Nat
  BY <1>2, FS_CardinalityType
<1>4. \A s \in SUBSET S : IsFiniteSet(s) /\ Cardinality(s) \in Nat /\ Cardinality(s) <= size
  BY <1>2, FS_Subset, FS_CardinalityType
<1> DEFINE Fine(s) == /\ SumOver(f, s) \in Int
                      /\ \A y \in s : SumOver(f, s) = f[y] + SumOver(f, s \ {y})
           K == {k \in 0 .. size : \A s \in SUBSET S : Cardinality(s) <= k => Fine(s)}
<1>5. 0 \in K
  <2>1. \A s \in SUBSET S : Cardinality(s) <= 0 => s = {}
    BY <1>4, FS_EmptySet
  <2>2. Fine({})
    <3>1. SumOver(f, {}) = 0
      BY SumOfNothing
    <3> QED
      BY <3>1
  <2> QED
    BY <1>3, <2>1, <2>2
<1>6. ASSUME NEW k \in 0 .. size - 1, k \in K
      PROVE  k + 1 \in K
  <2>1. ASSUME NEW s \in SUBSET S, Cardinality(s) <= k + 1
        PROVE  Fine(s)
    <3>1. CASE s = {}
      <4>1. SumOver(f, {}) = 0
        BY SumOfNothing
      <4> QED
        BY <3>1, <4>1
    <3>2. CASE s # {}
      <4>1. PICK x : x = First(s)
        OBVIOUS
      <4>2. x \in s /\ SumOver(f, s) = f[x] + SumOver(f, s \ {x})
        BY <1>4, <3>2, <4>1, SumOverIs
      <4>3. \A y \in s : s \ {y} \in SUBSET S /\ Cardinality(s \ {y}) = Cardinality(s) - 1
        BY <1>4, FS_RemoveElement
      <4>4. \A y \in s : Fine(s \ {y})
        BY <1>3, <1>4, <1>6, <2>1, <4>3
      <4>5. SumOver(f, s) \in Int
        BY <4>2, <4>4
      <4>6. ASSUME NEW y \in s, y # x
            PROVE  SumOver(f, s) = f[y] + SumOver(f, s \ {y})
        <5>1. y \in s \ {x} /\ x \in s \ {y} /\ (s \ {x}) \ {y} = (s \ {y}) \ {x}
          BY <4>2, <4>6
        <5>2. SumOver(f, s \ {x}) = f[y] + SumOver(f, (s \ {x}) \ {y})
          BY <4>2, <4>4, <5>1
        <5>3. SumOver(f, s \ {y}) = f[x] + SumOver(f, (s \ {y}) \ {x})
          BY <4>4, <5>1
        <5>4. f[x] \in Int /\ f[y] \in Int
          BY <4>2
        <5>5. PICK r : r = SumOver(f, (s \ {y}) \ {x})
          OBVIOUS
        <5>6. r \in Int
          <6>1. (s \ {y}) \ {x} \in SUBSET S /\ Cardinality((s \ {y}) \ {x}) <= k
            <7>1. IsFiniteSet(s \ {y}) /\ x \in s \ {y}
              BY <1>4, <4>3, <5>1
            <7>2. Cardinality((s \ {y}) \ {x}) = Cardinality(s \ {y}) - 1
              BY <7>1, FS_RemoveElement
            <7> QED
              BY <1>3, <1>4, <2>1, <4>3, <7>2
          <6> QED
            BY <1>6, <5>5, <6>1
        <5>7. PICK u, v, w, z : u = SumOver(f, s) /\ v = SumOver(f, s \ {y}) /\ w = SumOver(f, s \ {x}) /\ z = f[x]
          OBVIOUS
        <5>8. u = z + w /\ w = f[y] + r /\ v = z + r
          BY <4>2, <5>1, <5>2, <5>3, <5>5, <5>7
        <5>9. z \in Int /\ f[y] \in Int /\ r \in Int
          BY <5>4, <5>6, <5>7
        <5>10. \A i, j, l \in Int : i + (j + l) = j + (i + l)
          OBVIOUS
        <5>11. u = f[y] + v
          BY <5>8, <5>9, <5>10
        <5> QED
          BY <5>7, <5>11
      <4> QED
        BY <4>2, <4>5, <4>6
    <3> QED
      BY <3>1, <3>2
  <2> QED
    BY <1>3, <2>1
<1>7. 0 .. size \subseteq K
  <2> HIDE DEF K
  <2> QED
    BY <1>3, <1>5, <1>6, CountingUp
<1>8. size \in K
  <2> HIDE DEF K
  <2> QED
    BY <1>3, <1>7
<1> QED
  BY <1>2, <1>3, <1>8

LEMMA SumSame ==
    ASSUME NEW S, NEW f, NEW g, \A x \in S : f[x] = g[x]
    PROVE  SumOver(f, S) = SumOver(g, S)
<1>1. [x \in S |-> f[x]] = [x \in S |-> g[x]]
  OBVIOUS
<1> QED
  BY <1>1 DEF SumOver

\* A sum of which one value changes.
LEMMA SumChanges ==
    ASSUME NEW S, IsFiniteSet(S), NEW f, NEW g, NEW y \in S, g[y] \in Int,
           \A x \in S : f[x] \in Int, \A x \in S \ {y} : g[x] = f[x]
    PROVE  SumOver(g, S) = SumOver(f, S) + g[y] - f[y] /\ SumOver(g, S) \in Int /\ SumOver(f, S) \in Int
<1>1. \A x \in S : g[x] \in Int
  OBVIOUS
<1>2. SumOver(f, S) = f[y] + SumOver(f, S \ {y}) /\ SumOver(g, S) = g[y] + SumOver(g, S \ {y})
      /\ SumOver(g, S) \in Int /\ SumOver(f, S) \in Int
  BY <1>1, SumTakes
<1>3. SumOver(f, S \ {y}) = SumOver(g, S \ {y})
  BY SumSame
<1>4. SumOver(f, S \ {y}) \in Int
  <2>1. IsFiniteSet(S \ {y})
    BY FS_Subset
  <2> QED
    BY <2>1, SumTakes
<1> QED
  BY <1>2, <1>3, <1>4

\* The sum over the first k.
LEMMA SumGrows ==
    ASSUME NEW k \in Nat, NEW f, \A i \in 1 .. k + 1 : f[i] \in Int
    PROVE  /\ SumOver(f, 1 .. 0) = 0
           /\ SumOver(f, 1 .. k) \in Int
           /\ SumOver(f, 1 .. k + 1) = SumOver(f, 1 .. k) + f[k + 1]
<1>1. IsFiniteSet(1 .. k + 1) /\ IsFiniteSet(1 .. k)
  BY FS_Interval
<1>2. (1 .. k + 1) \ {k + 1} = 1 .. k /\ k + 1 \in 1 .. k + 1
  OBVIOUS
<1>3. SumOver(f, 1 .. k + 1) = f[k + 1] + SumOver(f, (1 .. k + 1) \ {k + 1})
  BY <1>1, <1>2, SumTakes
<1>4. SumOver(f, 1 .. k) \in Int /\ f[k + 1] \in Int
  BY <1>1, <1>2, SumTakes
<1>5. 1 .. 0 = {}
  OBVIOUS
<1>6. SumOver(f, 1 .. 0) = 0
  BY <1>5, SumOfNothing
<1>7. PICK u, v, w : u = SumOver(f, 1 .. k + 1) /\ v = SumOver(f, 1 .. k) /\ w = f[k + 1]
  OBVIOUS
<1>8. u = w + v /\ v \in Int /\ w \in Int
  BY <1>2, <1>3, <1>4, <1>7
<1>9. u = v + w
  BY <1>8
<1> QED
  BY <1>4, <1>6, <1>7, <1>9

-----------------------------------------------------------------------------
(***************************************************************************)
(* processTx, one transaction after the other, and that a candidate passes. *)
(***************************************************************************)

Unprocessed == [changes |-> NoChanges, fees |-> MinerReward, valid |-> <<>>, invalid |-> <<>>]

\* f is the loop of next over the first m transactions.
Processing(f, m, root, txs) ==
    /\ f[0] = Unprocessed
    /\ \A k \in 1 .. m : f[k] = ProcessTx(root, f[k - 1], txs[k])

LEMMA ProcessingExists ==
    ASSUME NEW root, NEW txs, NEW count \in Nat
    PROVE  \E f : Processing(f, count, root, txs)
<1> DEFINE S == {m \in 0 .. count : \E f : Processing(f, m, root, txs)}
<1>1. 0 \in S
  <2>1. PICK f : f = [k \in 0 .. 0 |-> Unprocessed]
    OBVIOUS
  <2>2. Processing(f, 0, root, txs)
    BY <2>1 DEF Processing
  <2> QED
    BY <2>2
<1>2. ASSUME NEW m \in 0 .. count - 1, m \in S
      PROVE  m + 1 \in S
  <2>1. PICK f : Processing(f, m, root, txs)
    BY <1>2
  <2>6. PICK g : g = [k \in 0 .. m + 1 |-> IF k = m + 1 THEN ProcessTx(root, f[m], txs[m + 1]) ELSE f[k]]
    OBVIOUS
  <2>2. /\ g[m + 1] = ProcessTx(root, f[m], txs[m + 1])
        /\ \A k \in 0 .. m : g[k] = f[k]
    BY <2>6
  <2>3. g[0] = Unprocessed
    BY <2>1, <2>2 DEF Processing
  <2>4. ASSUME NEW k \in 1 .. m + 1
        PROVE  g[k] = ProcessTx(root, g[k - 1], txs[k])
    <3>1. CASE k = m + 1
      <4>1. g[k - 1] = f[m]
        BY <2>2, <3>1
      <4> QED
        BY <2>2, <3>1, <4>1
    <3>2. CASE k \in 1 .. m
      <4>1. g[k] = f[k] /\ g[k - 1] = f[k - 1]
        BY <2>2, <3>2
      <4> QED
        BY <2>1, <3>2, <4>1 DEF Processing
    <3> QED
      BY <3>1, <3>2
  <2>5. Processing(g, m + 1, root, txs)
    BY <2>2, <2>3, <2>4 DEF Processing
  <2> QED
    BY <2>5
<1>3. 0 .. count \subseteq S
  <2> HIDE DEF S
  <2> QED
    BY <1>1, <1>2, CountingUp
<1> QED
  BY <1>3

LEMMA ProcessedIs ==
    ASSUME NEW root, NEW txs, Len(txs) \in Nat
    PROVE  \E f : Processing(f, Len(txs), root, txs) /\ Processed(root, txs) = f[Len(txs)]
<1> DEFINE count == Len(txs)
           Body(f) == [k \in 0 .. count |-> IF k = 0 THEN Unprocessed ELSE ProcessTx(root, f[k - 1], txs[k])]
           after == CHOOSE f : f = Body(f)
<1>1. PICK f : Processing(f, count, root, txs)
  BY ProcessingExists
<1>2. PICK g : g = [k \in 0 .. count |-> f[k]]
  OBVIOUS
<1>3. \A k \in 0 .. count : f[k] = IF k = 0 THEN Unprocessed ELSE ProcessTx(root, g[k - 1], txs[k])
  BY <1>1, <1>2 DEF Processing
<1>4. g = Body(g)
  BY <1>2, <1>3
<1>5. after = Body(after)
  BY <1>4
<1>6. Processed(root, txs) = after[count]
  BY DEF Processed, Unprocessed
<1> HIDE DEF after
<1>7. \A k \in 0 .. count : after[k] = IF k = 0 THEN Unprocessed ELSE ProcessTx(root, after[k - 1], txs[k])
  BY <1>5
<1>8. Processing(after, count, root, txs)
  BY <1>7 DEF Processing
<1> QED
  BY <1>6, <1>8

LEMMA ProcessingIsUnique ==
    ASSUME NEW root, NEW txs, NEW others, NEW count \in Nat, NEW m \in Nat, NEW f, NEW g,
           Processing(f, count, root, txs), Processing(g, m, root, others), count <= m,
           \A k \in 1 .. count : others[k] = txs[k]
    PROVE  f[count] = g[count]
<1> DEFINE S == {k \in 0 .. count : f[k] = g[k]}
<1>1. 0 \in S
  BY DEF Processing
<1>2. ASSUME NEW k \in 0 .. count - 1, k \in S
      PROVE  k + 1 \in S
  <2>1. f[k + 1] = ProcessTx(root, f[k], txs[k + 1]) /\ g[k + 1] = ProcessTx(root, g[k], others[k + 1])
    BY DEF Processing
  <2> QED
    BY <1>2, <2>1
<1>3. 0 .. count \subseteq S
  <2> HIDE DEF S
  <2> QED
    BY <1>1, <1>2, CountingUp
<1> QED
  BY <1>3

LEMMA ProcessedStep ==
    ASSUME NEW root
    PROVE  /\ Processed(root, <<>>) = Unprocessed
           /\ \A txs \in Seq(Txs), tx \in Txs :
                 Processed(root, Append(txs, tx)) = ProcessTx(root, Processed(root, txs), tx)
<1>1. Processed(root, <<>>) = Unprocessed
  <2>1. PICK f : Processing(f, Len(<<>>), root, <<>>) /\ Processed(root, <<>>) = f[Len(<<>>)]
    BY ProcessedIs
  <2> QED
    BY <2>1 DEF Processing
<1>2. ASSUME NEW txs \in Seq(Txs), NEW tx \in Txs
      PROVE  Processed(root, Append(txs, tx)) = ProcessTx(root, Processed(root, txs), tx)
  <2>1. PICK longer : longer = Append(txs, tx)
    OBVIOUS
  <2>2. /\ longer \in Seq(Txs) /\ Len(longer) = Len(txs) + 1 /\ Len(txs) \in Nat
        /\ longer[Len(txs) + 1] = tx /\ \A k \in 1 .. Len(txs) : longer[k] = txs[k]
    BY <2>1
  <2>3. PICK f : Processing(f, Len(txs), root, txs) /\ Processed(root, txs) = f[Len(txs)]
    BY <2>2, ProcessedIs
  <2>4. Len(longer) \in Nat
    BY <2>2
  <2>5. PICK g : Processing(g, Len(longer), root, longer) /\ Processed(root, longer) = g[Len(longer)]
    BY <2>4, ProcessedIs
  <2>6. f[Len(txs)] = g[Len(txs)]
    <3>1. Len(txs) <= Len(longer)
      BY <2>2
    <3> QED
      BY <2>2, <2>3, <2>4, <2>5, <3>1, ProcessingIsUnique
  <2>7. g[Len(longer)] = ProcessTx(root, g[Len(txs)], tx)
    <3>1. Len(longer) \in 1 .. Len(longer) /\ Len(longer) - 1 = Len(txs)
      BY <2>2
    <3>2. g[Len(longer)] = ProcessTx(root, g[Len(longer) - 1], longer[Len(longer)])
      BY <2>5, <3>1 DEF Processing
    <3> QED
      BY <2>2, <3>1, <3>2
  <2> QED
    BY <2>1, <2>3, <2>5, <2>6, <2>7
<1> QED
  BY <1>1, <1>2

\* What next has of the transactions so far.
Sorted(changes, fees, valid, invalid) ==
    [changes |-> changes, fees |-> fees, valid |-> valid, invalid |-> invalid]

LEMMA ProcessTxIs ==
    ASSUME NEW root, NEW tx, NEW c, NEW f, NEW v, NEW i
    PROVE  ProcessTx(root, Sorted(c, f, v, i), tx) =
             CASE Validity(root, c, tx) = "Valid" ->
                    Sorted(Received(root, Spent(root, c, tx), tx), f + tx.fee, Append(v, tx), i)
               [] Validity(root, c, tx) = "Invalid" -> Sorted(c, f, v, Append(i, tx))
               [] OTHER -> Sorted(c, f, v, i)
<1>1. PICK s : s = Sorted(c, f, v, i)
  OBVIOUS
<1>2. s.changes = c /\ s.fees = f /\ s.valid = v /\ s.invalid = i
  BY <1>1 DEF Sorted
<1>7. ASSUME NEW d, NEW e, NEW w
      PROVE  [s EXCEPT !.changes = d, !.fees = e, !.valid = w] = Sorted(d, e, w, i)
  <2>1. PICK r : r = [s EXCEPT !.changes = d]
    OBVIOUS
  <2>2. r = Sorted(d, f, v, i)
    BY <1>1, <2>1 DEF Sorted
  <2>3. PICK q : q = [r EXCEPT !.fees = e]
    OBVIOUS
  <2>4. q = Sorted(d, e, v, i)
    BY <2>2, <2>3 DEF Sorted
  <2>5. [q EXCEPT !.valid = w] = Sorted(d, e, w, i)
    BY <2>4 DEF Sorted
  <2>6. [s EXCEPT !.changes = d, !.fees = e, !.valid = w] = [q EXCEPT !.valid = w]
    BY <2>1, <2>3
  <2> QED
    BY <2>5, <2>6
<1>8. ASSUME NEW w
      PROVE  [s EXCEPT !.invalid = w] = Sorted(c, f, v, w)
  BY <1>1 DEF Sorted
<1>3. PICK validity : validity = Validity(root, c, tx)
  OBVIOUS
<1>4. CASE validity = "Valid"
  <2>1. PICK d : d = Received(root, Spent(root, c, tx), tx)
    OBVIOUS
  <2>2. ProcessTx(root, s, tx) = [s EXCEPT !.changes = d, !.fees = f + tx.fee, !.valid = Append(v, tx)]
    BY <1>2, <1>3, <1>4, <2>1 DEF ProcessTx
  <2> QED
    BY <1>1, <1>3, <1>4, <1>7, <2>1, <2>2
<1>5. CASE validity = "Invalid"
  <2>1. ProcessTx(root, s, tx) = [s EXCEPT !.invalid = Append(@, tx)]
    BY <1>2, <1>3, <1>5 DEF ProcessTx
  <2> QED
    BY <1>1, <1>2, <1>3, <1>5, <1>8, <2>1
<1>6. CASE validity # "Valid" /\ validity # "Invalid"
  <2>1. ProcessTx(root, s, tx) = s
    BY <1>2, <1>3, <1>6 DEF ProcessTx
  <2> QED
    BY <1>1, <1>3, <1>6, <2>1
<1> QED
  BY <1>4, <1>5, <1>6

LEMMA WhatPassesPassesAgain ==
    ASSUME NEW root, NEW txs \in Seq(Txs)
    PROVE  \E c, f, i : \E v \in Seq(Txs) :
              Processed(root, txs) = Sorted(c, f, v, i) /\ Processed(root, v) = Sorted(c, f, v, <<>>)
<1>1. PICK g : Processing(g, Len(txs), root, txs) /\ Processed(root, txs) = g[Len(txs)]
  BY ProcessedIs
<1> DEFINE Again(k) == \E c, f, i : \E v \in Seq(Txs) :
                          g[k] = Sorted(c, f, v, i) /\ Processed(root, v) = Sorted(c, f, v, <<>>)
           S == {k \in 0 .. Len(txs) : Again(k)}
<1>2. 0 \in S
  <2>1. <<>> \in Seq(Txs) /\ g[0] = Sorted(NoChanges, MinerReward, <<>>, <<>>)
    BY <1>1 DEF Processing, Unprocessed, Sorted
  <2>2. Processed(root, <<>>) = Sorted(NoChanges, MinerReward, <<>>, <<>>)
    BY ProcessedStep DEF Unprocessed, Sorted
  <2>3. Again(0)
    BY <2>1, <2>2
  <2> QED
    BY <2>3
<1>3. ASSUME NEW k \in 0 .. Len(txs) - 1, k \in S
      PROVE  k + 1 \in S
  <2>1. PICK c, f, i : \E v \in Seq(Txs) :
             g[k] = Sorted(c, f, v, i) /\ Processed(root, v) = Sorted(c, f, v, <<>>)
    BY <1>3
  <2>2. PICK v \in Seq(Txs) : g[k] = Sorted(c, f, v, i) /\ Processed(root, v) = Sorted(c, f, v, <<>>)
    BY <2>1
  <2>3. PICK tx \in Txs : tx = txs[k + 1]
    OBVIOUS
  <2>4. g[k + 1] = ProcessTx(root, Sorted(c, f, v, i), tx)
    BY <1>1, <2>2, <2>3 DEF Processing
  <2>5. CASE Validity(root, c, tx) = "Valid"
    <3>1. PICK d : d = Received(root, Spent(root, c, tx), tx)
      OBVIOUS
    <3>2. g[k + 1] = Sorted(d, f + tx.fee, Append(v, tx), i)
      BY <2>4, <2>5, <3>1, ProcessTxIs
    <3>3. Processed(root, Append(v, tx)) = ProcessTx(root, Sorted(c, f, v, <<>>), tx)
      BY <2>2, ProcessedStep
    <3>4. Processed(root, Append(v, tx)) = Sorted(d, f + tx.fee, Append(v, tx), <<>>)
      BY <2>5, <3>1, <3>3, ProcessTxIs
    <3>5. Append(v, tx) \in Seq(Txs)
      OBVIOUS
    <3>6. Again(k + 1)
      BY <3>2, <3>4, <3>5
    <3> QED
      BY <3>6
  <2>6. CASE Validity(root, c, tx) = "Invalid"
    <3>1. g[k + 1] = Sorted(c, f, v, Append(i, tx))
      BY <2>4, <2>6, ProcessTxIs
    <3> QED
      BY <2>2, <3>1
  <2>7. CASE Validity(root, c, tx) # "Valid" /\ Validity(root, c, tx) # "Invalid"
    <3>1. g[k + 1] = Sorted(c, f, v, i)
      BY <2>4, <2>7, ProcessTxIs
    <3> QED
      BY <2>2, <3>1
  <2> QED
    BY <2>5, <2>6, <2>7
<1>4. 0 .. Len(txs) \subseteq S
  <2> HIDE DEF S
  <2> QED
    BY <1>2, <1>3, CountingUp
<1>5. Again(Len(txs))
  BY <1>4
<1> QED
  BY <1>1, <1>5

\* A candidate made of what next kept is what next makes of it again.
LEMMA CandidatePasses ==
    ASSUME NEW root, NEW miner, NEW txs \in Seq(Txs), NEW uncles
    PROVE  LET next == NextState(root, miner, txs, uncles)
               again == NextState(root, miner, next.valid, uncles)
           IN  again.root = next.root /\ again.valid = next.valid /\ again.invalid = <<>>
<1>1. PICK c, f, i : \E v \in Seq(Txs) :
         Processed(root, txs) = Sorted(c, f, v, i) /\ Processed(root, v) = Sorted(c, f, v, <<>>)
  BY WhatPassesPassesAgain
<1>2. PICK v \in Seq(Txs) :
         Processed(root, txs) = Sorted(c, f, v, i) /\ Processed(root, v) = Sorted(c, f, v, <<>>)
  BY <1>1
<1>3. PICK put : put = PutAccount(root, Paid(root, Rewarded(root, c, uncles), miner, f))
  OBVIOUS
<1>4. NextState(root, miner, txs, uncles) =
        [root |-> put.hash, batch |-> put.batch, valid |-> v, invalid |-> i]
  BY <1>2, <1>3 DEF NextState, AllRewarded, Outcome, Sorted
<1>5. NextState(root, miner, v, uncles) =
        [root |-> put.hash, batch |-> put.batch, valid |-> v, invalid |-> <<>>]
  BY <1>2, <1>3 DEF NextState, AllRewarded, Outcome, Sorted
<1> QED
  BY <1>4, <1>5

IsList(s) == \E S : s \in Seq(S)

CandidateInv ==
    /\ IsList(blocks)
    /\ candidate # None => candidate.parent \in DOMAIN blocks
    /\ OwnBlocksPass

LEMMA BlocksAppended ==
    ASSUME IsList(blocks), NEW b, blocks' = Append(blocks, b)
    PROVE  /\ IsList(blocks)'
           /\ DOMAIN blocks' = 1 .. Len(blocks) + 1 /\ DOMAIN blocks = 1 .. Len(blocks) /\ Len(blocks) \in Nat
           /\ blocks'[Len(blocks) + 1] = b
           /\ \A i \in DOMAIN blocks : blocks'[i] = blocks[i]
<1>1. PICK S : blocks \in Seq(S)
  BY DEF IsList
<1>2. PICK T : T = S \cup {b}
  OBVIOUS
<1>3. blocks \in Seq(T) /\ b \in T
  BY <1>1, <1>2
<1>4. blocks' \in Seq(T) /\ Len(blocks') = Len(blocks) + 1
  BY <1>3
<1> QED
  BY <1>3, <1>4 DEF IsList

LEMMA CandidateInitially == Init => CandidateInv
<1> SUFFICES ASSUME Init PROVE CandidateInv
  OBVIOUS
<1>1. blocks \in Seq({}) /\ candidate = None
  BY DEF Init
<1> QED
  BY <1>1 DEF CandidateInv, IsList, OwnBlocksPass

LEMMA CandidateStep == CandidateInv /\ [Next]_vars => CandidateInv'
<1> SUFFICES ASSUME CandidateInv, [Next]_vars PROVE CandidateInv'
  OBVIOUS
<1>1. IsList(blocks) /\ (candidate # None => candidate.parent \in DOMAIN blocks) /\ OwnBlocksPass
  BY DEF CandidateInv
<1>2. CASE UNCHANGED <<blocks, candidate>>
  BY <1>1, <1>2 DEF CandidateInv, IsList, OwnBlocksPass
<1>3. CASE UNCHANGED blocks /\ candidate' = None
  BY <1>1, <1>3 DEF CandidateInv, IsList, OwnBlocksPass
<1>4. CASE CreateCandidate
  <2>1. PICK parent \in DOMAIN blocks, txs \in Pools, uncles \in UncleLists :
           LET next == NextState(blocks[parent].root, Self, txs, uncles)
           IN  candidate' = [step |-> "mined", parent |-> parent, miner |-> Self, txs |-> next.valid,
                             uncles |-> uncles, root |-> next.root]
    BY <1>4 DEF CreateCandidate
  <2>2. blocks' = blocks
    BY <1>4 DEF CreateCandidate
  <2>3. txs \in Seq(Txs)
    BY BlocksAssumption
  <2>4. PICK next : next = NextState(blocks[parent].root, Self, txs, uncles)
    OBVIOUS
  <2>5. PICK again : again = NextState(blocks[parent].root, Self, next.valid, uncles)
    OBVIOUS
  <2>6. again.root = next.root /\ again.valid = next.valid /\ again.invalid = <<>>
    BY <2>3, <2>4, <2>5, CandidatePasses
  <2>7. /\ candidate'.parent = parent /\ candidate'.miner = Self /\ candidate'.txs = next.valid
        /\ candidate'.uncles = uncles /\ candidate'.root = next.root
    BY <2>1, <2>4
  <2>8. OwnBlocksPass'
    BY <2>2, <2>5, <2>6, <2>7 DEF OwnBlocksPass
  <2> QED
    BY <1>1, <2>2, <2>7, <2>8 DEF CandidateInv, IsList
<1>5. CASE RecordBlock
  <2>1. blocks' = Append(blocks, job.block) /\ candidate' = candidate
    BY <1>5 DEF RecordBlock
  <2>2. IsList(blocks)' /\ \A i \in DOMAIN blocks : i \in DOMAIN blocks' /\ blocks'[i] = blocks[i]
    <3>1. PICK b : b = job.block
      OBVIOUS
    <3> QED
      BY <1>1, <2>1, <3>1, BlocksAppended
  <2>3. OwnBlocksPass'
    BY <1>1, <2>1, <2>2 DEF OwnBlocksPass
  <2> QED
    BY <1>1, <2>1, <2>2, <2>3 DEF CandidateInv
<1> QED
  BY <1>2, <1>3, <1>4, <1>5 DEF Next, vars, Initialize, PutBlock, PutCandidate, WriteAccounts, Crash

\* A candidate passes the node's own processBlock, for any pool, uncles and amounts: next
\* over the transactions that it found valid finds all of them valid again, skips none,
\* and comes to the same changes and so to the same root (WorldState.next, processTx,
\* Consensus.createCandidate and processBlock).
THEOREM WorldOwnBlocksPass == Spec => []OwnBlocksPass
<1>1. CandidateInv => OwnBlocksPass
  BY DEF CandidateInv
<1> QED
  BY <1>1, CandidateInitially, CandidateStep, PTL DEF Spec

-----------------------------------------------------------------------------
(***************************************************************************)
(* What next does to the accounts, without the tree.                       *)
(***************************************************************************)

Standing(root) == root = Absent \/ Whole(root)

\* The accounts with the changes so far.
Now(root, c) == [a \in Addresses |-> IF c[a] # Absent THEN c[a] ELSE Accounts(root)[a]]

Pay(m, a, v) == [m EXCEPT ![a] = Account(OrNew(m[a]).balance + v, OrNew(m[a]).nonce)]
Spend(m, a, v) == [m EXCEPT ![a] = Account(OrNew(m[a]).balance - v, OrNew(m[a]).nonce + 1)]
Moved(m, tx) ==
    IF tx.to = Nobody THEN Spend(m, tx.from, tx.amount + tx.fee)
    ELSE Pay(Spend(m, tx.from, tx.amount + tx.fee), tx.to, tx.amount)

LEMMA AccountIs ==
    /\ \A b, k : Account(b, k).balance = b /\ Account(b, k).nonce = k
    /\ \A b, k \in Nat : Account(b, k) \in AccountValues
    /\ \A v \in AccountValues : v = Account(v.balance, v.nonce) /\ v.balance \in Nat /\ v.nonce \in Nat /\ OrNew(v) = v
    /\ OrNew(Absent) = Account(0, 0)
    /\ \A v \in AccountValues \cup {Absent} :
          OrNew(v) \in AccountValues /\ OrNew(v).balance \in Nat /\ OrNew(v).nonce \in Nat
    /\ Absent \notin AccountValues
<1>1. \A b, k : Account(b, k).balance = b /\ Account(b, k).nonce = k
  BY DEF Account
<1>2. \A b, k \in Nat : Account(b, k) \in AccountValues
  BY DEF Account, AccountValues
<1>3. \A v \in AccountValues : v = Account(v.balance, v.nonce) /\ v.balance \in Nat /\ v.nonce \in Nat
  BY DEF Account, AccountValues
<1>4. \A v \in AccountValues : OrNew(v) = v
  BY ValuesAre DEF OrNew
<1>5. OrNew(Absent) = Account(0, 0)
  BY DEF OrNew
<1>6. Account(0, 0) \in AccountValues /\ Account(0, 0).balance = 0 /\ Account(0, 0).nonce = 0
  BY <1>1, <1>2
<1>7. \A v \in AccountValues \cup {Absent} :
          OrNew(v) \in AccountValues /\ OrNew(v).balance \in Nat /\ OrNew(v).nonce \in Nat
  BY <1>3, <1>4, <1>5, <1>6
<1> QED
  BY <1>1, <1>2, <1>3, <1>4, <1>5, <1>7, ValuesAre

LEMMA ModifiedIs ==
    ASSUME NEW root, Standing(root), NEW c \in Maps
    PROVE  /\ Now(root, c) \in Maps
           /\ \A a \in Addresses : /\ Modified(root, c, a) = OrNew(Now(root, c)[a])
                                   /\ Modified(root, c, a) \in AccountValues
<1>1. Accounts(root) \in Maps
  BY AccountsAre DEF Standing
<1>2. Now(root, c) \in Maps
  BY <1>1 DEF Now, Maps
<1>3. ASSUME NEW a \in Addresses
      PROVE  /\ Modified(root, c, a) = OrNew(Now(root, c)[a])
             /\ Modified(root, c, a) \in AccountValues
  <2>1. c[a] \in AccountValues \cup {Absent} /\ Accounts(root)[a] \in AccountValues \cup {Absent}
        /\ Accounts(root)[a] = GetAccount(root, a)
    BY <1>1 DEF Maps, Accounts
  <2>2. Now(root, c)[a] = IF c[a] # Absent THEN c[a] ELSE GetAccount(root, a)
    BY <2>1 DEF Now
  <2>3. CASE c[a] # Absent
    BY <2>1, <2>2, <2>3, AccountIs DEF Modified
  <2>4. CASE c[a] = Absent
    BY <2>1, <2>2, <2>4, AccountIs DEF Modified
  <2> QED
    BY <2>3, <2>4
<1> QED
  BY <1>2, <1>3

LEMMA MapsAre ==
    ASSUME NEW m \in Maps, NEW a \in Addresses
    PROVE  /\ m[a] \in AccountValues \cup {Absent}
           /\ OrNew(m[a]) \in AccountValues /\ OrNew(m[a]).balance \in Nat /\ OrNew(m[a]).nonce \in Nat
<1>1. m[a] \in AccountValues \cup {Absent}
  BY DEF Maps
<1> QED
  BY <1>1, AccountIs

LEMMA MapsEqual ==
    ASSUME NEW m \in Maps, NEW q \in Maps, \A a \in Addresses : m[a] = q[a]
    PROVE  m = q
BY DEF Maps

With(m, a, v) == [m EXCEPT ![a] = v]

\* A change to one account is that change to what there is now.
LEMMA NowChanges ==
    ASSUME NEW root, Standing(root), NEW c \in Maps, NEW a \in Addresses, NEW v \in AccountValues,
           NEW d, d = With(c, a, v)
    PROVE  /\ d \in Maps
           /\ Now(root, d) = With(Now(root, c), a, v)
           /\ Known(d) = Known(c) \cup {a}
<1>2. d \in Maps /\ d[a] = v /\ \A b \in Addresses \ {a} : d[b] = c[b]
  BY DEF Maps, With
<1>3. v # Absent
  BY AccountIs
<1>4. PICK m, q : m = Now(root, c) /\ q = Now(root, d)
  OBVIOUS
<1>5. m \in Maps /\ q \in Maps
  BY <1>2, <1>4, ModifiedIs
<1>6. q[a] = v
  BY <1>2, <1>3, <1>4 DEF Now
<1>7. \A b \in Addresses \ {a} : q[b] = m[b]
  BY <1>2, <1>4 DEF Now
<1>8. PICK r : r = With(m, a, v)
  OBVIOUS
<1>9. r \in Maps /\ r[a] = v /\ \A b \in Addresses \ {a} : r[b] = m[b]
  BY <1>5, <1>8 DEF Maps, With
<1>10. \A b \in Addresses : q[b] = r[b]
  BY <1>6, <1>7, <1>9
<1>11. q = r
  BY <1>5, <1>9, <1>10, MapsEqual
<1>12. Known(d) = Known(c) \cup {a}
  BY <1>2, <1>3 DEF Known
<1> QED
  BY <1>2, <1>4, <1>8, <1>11, <1>12

LEMMA PaidIs ==
    ASSUME NEW root, Standing(root), NEW c \in Maps, NEW a \in Addresses, NEW v \in Nat
    PROVE  /\ Paid(root, c, a, v) \in Maps
           /\ Now(root, Paid(root, c, a, v)) = Pay(Now(root, c), a, v)
           /\ Known(Paid(root, c, a, v)) = Known(c) \cup {a}
<1>1. PICK old : old = Modified(root, c, a)
  OBVIOUS
<1>2. old \in AccountValues /\ old = OrNew(Now(root, c)[a])
  BY <1>1, ModifiedIs
<1>3. PICK new : new = Account(old.balance + v, old.nonce)
  OBVIOUS
<1>4. [old EXCEPT !.balance = @ + v] = new
  BY <1>2, <1>3 DEF Account, AccountValues
<1>5. Paid(root, c, a, v) = [c EXCEPT ![a] = new]
  BY <1>1, <1>4 DEF Paid
<1>6. old.balance + v \in Nat /\ old.nonce \in Nat
  BY <1>2, AccountIs
<1>7. new \in AccountValues
  BY <1>3, <1>6, AccountIs
<1>8. Pay(Now(root, c), a, v) = [Now(root, c) EXCEPT ![a] = new]
  BY <1>2, <1>3 DEF Pay
<1>9. PICK d : d = Paid(root, c, a, v)
  OBVIOUS
<1>10. /\ d \in Maps
       /\ Now(root, d) = With(Now(root, c), a, new)
       /\ Known(d) = Known(c) \cup {a}
  <2>1. d = With(c, a, new)
    BY <1>5, <1>9 DEF With
  <2> QED
    BY <1>7, <2>1, NowChanges
<1> QED
  BY <1>8, <1>9, <1>10 DEF With

LEMMA MovedIs ==
    ASSUME NEW root, Standing(root), NEW c \in Maps, NEW tx \in Txs, Validity(root, c, tx) = "Valid"
    PROVE  LET d == Received(root, Spent(root, c, tx), tx) IN
           /\ d \in Maps
           /\ Now(root, d) = Moved(Now(root, c), tx)
           /\ OrNew(Now(root, c)[tx.from]).balance >= tx.amount + tx.fee
<1>1. tx.from \in Addresses /\ tx.to \in Addresses \cup {Nobody} /\ tx.amount \in Nat /\ tx.fee \in Nat /\ tx.nonce \in Nat
  BY DEF Txs
<1>2. PICK old : old = Modified(root, c, tx.from)
  OBVIOUS
<1>3. old \in AccountValues /\ old = OrNew(Now(root, c)[tx.from]) /\ old.balance \in Nat /\ old.nonce \in Nat
  BY <1>1, <1>2, ModifiedIs, AccountIs
<1>4. /\ ~(tx.from = tx.to \/ tx.nonce < old.nonce + 1) /\ ~(tx.nonce > old.nonce + 1)
      /\ ~(tx.amount + tx.fee > MaxAmount \/ old.balance < tx.amount + tx.fee)
  BY <1>2 DEF Validity
<1>5. tx.nonce = old.nonce + 1 /\ old.balance >= tx.amount + tx.fee
  BY <1>1, <1>3, <1>4
<1>6. PICK new : new = Account(old.balance - (tx.amount + tx.fee), old.nonce + 1)
  OBVIOUS
<1>7. old.balance - (tx.amount + tx.fee) \in Nat /\ old.nonce + 1 \in Nat
  BY <1>1, <1>3, <1>5
<1>8. new \in AccountValues
  BY <1>6, <1>7, AccountIs
<1>9. PICK d : d = Spent(root, c, tx)
  OBVIOUS
<1>10. d = [c EXCEPT ![tx.from] = new]
  BY <1>2, <1>5, <1>6, <1>9 DEF Spent
<1>11. d \in Maps /\ Now(root, d) = Spend(Now(root, c), tx.from, tx.amount + tx.fee)
  <2>1. Spend(Now(root, c), tx.from, tx.amount + tx.fee) = With(Now(root, c), tx.from, new)
    BY <1>3, <1>6 DEF Spend, With
  <2>2. d = With(c, tx.from, new)
    BY <1>10 DEF With
  <2> QED
    BY <1>1, <1>8, <2>1, <2>2, NowChanges
<1>12. CASE tx.to = Nobody
  BY <1>3, <1>5, <1>9, <1>11, <1>12 DEF Received, Moved
<1>13. CASE tx.to # Nobody
  <2>1. Received(root, d, tx) = Paid(root, d, tx.to, tx.amount)
    BY <1>13 DEF Received
  <2>2. tx.to \in Addresses
    BY <1>1, <1>13
  <2>3. Paid(root, d, tx.to, tx.amount) \in Maps
        /\ Now(root, Paid(root, d, tx.to, tx.amount)) = Pay(Now(root, d), tx.to, tx.amount)
    BY <1>1, <1>11, <2>2, PaidIs
  <2> QED
    BY <1>3, <1>5, <1>9, <1>11, <1>13, <2>1, <2>3 DEF Moved
<1> QED
  BY <1>12, <1>13

-----------------------------------------------------------------------------
(***************************************************************************)
(* An account as the sum of what it got, spent and sent.                   *)
(***************************************************************************)

Entry(old, touched, got, spent, sent) ==
    IF old = Absent /\ ~touched THEN Absent
    ELSE Account(OrNew(old).balance + got - spent, OrNew(old).nonce + sent)

Booked(m, old, a, touched, got, spent, sent) ==
    /\ m[a] = Entry(old[a], touched, got, spent, sent)
    /\ touched \in BOOLEAN /\ got \in Int /\ spent \in Int /\ sent \in Int
    /\ ~touched => got = 0 /\ spent = 0 /\ sent = 0

\* What is booked of an account is what it has, there or not.
LEMMA BookedIs ==
    ASSUME NEW m \in Maps, NEW old \in Maps, NEW a \in Addresses, NEW t, NEW g, NEW s, NEW k,
           Booked(m, old, a, t, g, s, k)
    PROVE  OrNew(m[a]).balance = OrNew(old[a]).balance + g - s /\ OrNew(m[a]).nonce = OrNew(old[a]).nonce + k
<1>1. g \in Int /\ s \in Int /\ k \in Int /\ OrNew(old[a]).balance \in Nat /\ OrNew(old[a]).nonce \in Nat
  BY MapsAre DEF Booked
<1>2. CASE old[a] = Absent /\ ~t
  <2>1. m[a] = Absent /\ g = 0 /\ s = 0 /\ k = 0
    BY <1>2 DEF Booked, Entry
  <2> QED
    BY <1>1, <1>2, <2>1
<1>3. CASE ~(old[a] = Absent /\ ~t)
  <2>1. m[a] = Account(OrNew(old[a]).balance + g - s, OrNew(old[a]).nonce + k)
    BY <1>3 DEF Booked, Entry
  <2>2. m[a] # Absent
    BY <2>1 DEF Account, Absent
  <2>3. OrNew(m[a]) = m[a]
    BY <2>2 DEF OrNew
  <2> QED
    BY <2>1, <2>3, AccountIs
<1> QED
  BY <1>2, <1>3

LEMMA BookedPay ==
    ASSUME NEW m \in Maps, NEW old \in Maps, NEW a \in Addresses, NEW t, NEW g, NEW s, NEW k,
           Booked(m, old, a, t, g, s, k), NEW b \in Addresses, NEW v \in Nat
    PROVE  /\ Pay(m, b, v) \in Maps
           /\ Booked(Pay(m, b, v), old, a, t \/ a = b, g + (IF a = b THEN v ELSE 0), s, k)
<1>1. PICK new : new = Account(OrNew(m[b]).balance + v, OrNew(m[b]).nonce)
  OBVIOUS
<1>2. OrNew(m[b]).balance \in Nat /\ OrNew(m[b]).nonce \in Nat /\ OrNew(m[b]).balance + v \in Nat
  BY MapsAre
<1>3. new \in AccountValues
  BY <1>1, <1>2, AccountIs
<1>4. PICK p : p = Pay(m, b, v)
  OBVIOUS
<1>5. p = [m EXCEPT ![b] = new]
  BY <1>1, <1>4 DEF Pay
<1>6. p \in Maps /\ p[b] = new /\ \A d \in Addresses \ {b} : p[d] = m[d]
  BY <1>3, <1>5 DEF Maps
<1>7. t \in BOOLEAN /\ g \in Int /\ s \in Int /\ k \in Int
  BY DEF Booked
<1>8. CASE a # b
  <2>1. p[a] = m[a] /\ g + 0 = g
    BY <1>6, <1>7, <1>8
  <2> QED
    BY <1>4, <1>6, <1>8, <2>1 DEF Booked
<1>9. CASE a = b
  <2>1. OrNew(m[a]).balance = OrNew(old[a]).balance + g - s /\ OrNew(m[a]).nonce = OrNew(old[a]).nonce + k
    BY BookedIs
  <2>2. OrNew(old[a]).balance \in Nat
    BY MapsAre
  <2>3. OrNew(m[b]).balance + v = OrNew(old[a]).balance + (g + v) - s
    BY <1>7, <1>9, <2>1, <2>2
  <2>4. p[a] = Account(OrNew(old[a]).balance + (g + v) - s, OrNew(old[a]).nonce + k)
    BY <1>1, <1>6, <1>9, <2>1, <2>3
  <2>5. p[a] = Entry(old[a], TRUE, g + v, s, k)
    BY <2>4 DEF Entry
  <2>6. g + v \in Int
    BY <1>7
  <2> QED
    BY <1>4, <1>6, <1>7, <1>9, <2>5, <2>6 DEF Booked
<1> QED
  BY <1>8, <1>9

LEMMA BookedSpend ==
    ASSUME NEW m \in Maps, NEW old \in Maps, NEW a \in Addresses, NEW t, NEW g, NEW s, NEW k,
           Booked(m, old, a, t, g, s, k), NEW b \in Addresses, NEW v \in Nat, OrNew(m[b]).balance >= v
    PROVE  /\ Spend(m, b, v) \in Maps
           /\ Booked(Spend(m, b, v), old, a, t \/ a = b, g, s + (IF a = b THEN v ELSE 0), k + (IF a = b THEN 1 ELSE 0))
<1>1. PICK new : new = Account(OrNew(m[b]).balance - v, OrNew(m[b]).nonce + 1)
  OBVIOUS
<1>2. OrNew(m[b]).balance \in Nat /\ OrNew(m[b]).nonce + 1 \in Nat /\ OrNew(m[b]).balance - v \in Nat
  BY MapsAre
<1>3. new \in AccountValues
  BY <1>1, <1>2, AccountIs
<1>4. PICK p : p = Spend(m, b, v)
  OBVIOUS
<1>5. p = [m EXCEPT ![b] = new]
  BY <1>1, <1>4 DEF Spend
<1>6. p \in Maps /\ p[b] = new /\ \A d \in Addresses \ {b} : p[d] = m[d]
  BY <1>3, <1>5 DEF Maps
<1>7. t \in BOOLEAN /\ g \in Int /\ s \in Int /\ k \in Int
  BY DEF Booked
<1>8. CASE a # b
  <2>1. p[a] = m[a] /\ s + 0 = s /\ k + 0 = k
    BY <1>6, <1>7, <1>8
  <2> QED
    BY <1>4, <1>6, <1>8, <2>1 DEF Booked
<1>9. CASE a = b
  <2>1. OrNew(m[a]).balance = OrNew(old[a]).balance + g - s /\ OrNew(m[a]).nonce = OrNew(old[a]).nonce + k
    BY BookedIs
  <2>2. OrNew(old[a]).balance \in Nat /\ OrNew(old[a]).nonce \in Nat
    BY MapsAre
  <2>3. OrNew(m[b]).balance - v = OrNew(old[a]).balance + g - (s + v)
        /\ OrNew(m[b]).nonce + 1 = OrNew(old[a]).nonce + (k + 1)
    BY <1>7, <1>9, <2>1, <2>2
  <2>4. p[a] = Account(OrNew(old[a]).balance + g - (s + v), OrNew(old[a]).nonce + (k + 1))
    BY <1>1, <1>6, <1>9, <2>3
  <2>5. p[a] = Entry(old[a], TRUE, g, s + v, k + 1)
    BY <2>4 DEF Entry
  <2>6. s + v \in Int /\ k + 1 \in Int
    BY <1>7
  <2> QED
    BY <1>4, <1>6, <1>7, <1>9, <2>5, <2>6 DEF Booked
<1> QED
  BY <1>8, <1>9

\* There are finitely many addresses.
LEMMA AddressesAreFinite == IsFiniteSet(Addresses)
<1> DEFINE I == 1 .. AddressLength
           T == SUBSET (I \X Bytes)
           graph == [a \in Addresses |-> {<<i, a[i]>> : i \in I}]
<1>1. IsFiniteSet(I) /\ IsFiniteSet(Bytes)
  BY AddressAssumption, FS_Interval
<1>2. IsFiniteSet(T)
  BY <1>1, FS_Product, FS_SUBSET
<1>0. Addresses = [I -> Bytes]
  BY DEF Addresses
<1> HIDE DEF I
<1>3. graph \in [Addresses -> T]
  <2>1. ASSUME NEW a \in Addresses PROVE {<<i, a[i]>> : i \in I} \in T
    <3>1. \A i \in I : <<i, a[i]>> \in I \X Bytes
      BY <1>0
    <3> QED
      BY <3>1
  <2> QED
    BY <2>1
<1>4. ASSUME NEW a \in Addresses, NEW c \in Addresses, graph[a] = graph[c]
      PROVE  a = c
  <2>1. graph[a] = {<<i, a[i]>> : i \in I} /\ graph[c] = {<<i, c[i]>> : i \in I}
    OBVIOUS
  <2>2. \A i \in I : a[i] = c[i]
    <3> TAKE i \in I
    <3>1. <<i, a[i]>> \in {<<j, c[j]>> : j \in I}
      BY <1>4, <2>1
    <3> QED
      BY <3>1
  <2> QED
    BY <1>0, <2>2
<1> HIDE DEF graph, T
<1>5. graph \in Injection(Addresses, T)
  BY <1>3, <1>4 DEF Injection, IsInjective
<1> QED
  BY <1>2, <1>5, FS_Injection

Balances(m) == [a \in Addresses |-> OrNew(m[a]).balance]

LEMMA SupplyChanges ==
    ASSUME NEW m \in Maps, NEW q \in Maps, NEW a \in Addresses, \A b \in Addresses \ {a} : q[b] = m[b]
    PROVE  /\ Supply(m) \in Int /\ Supply(q) \in Int
           /\ Supply(q) = Supply(m) + OrNew(q[a]).balance - OrNew(m[a]).balance
<1>1. PICK f, g : f = Balances(m) /\ g = Balances(q)
  OBVIOUS
<1>2. \A b \in Addresses : f[b] = OrNew(m[b]).balance /\ g[b] = OrNew(q[b]).balance
  BY <1>1 DEF Balances
<1>3. \A b \in Addresses : f[b] \in Int /\ g[b] \in Int
  BY <1>2, MapsAre
<1>4. \A b \in Addresses \ {a} : g[b] = f[b]
  BY <1>2
<1>5. /\ SumOver(g, Addresses) = SumOver(f, Addresses) + g[a] - f[a]
      /\ SumOver(g, Addresses) \in Int /\ SumOver(f, Addresses) \in Int
  <2>1. \A x \in Addresses : f[x] \in Int
    BY <1>3
  <2>2. g[a] \in Int
    BY <1>3
  <2>3. IsFiniteSet(Addresses)
    BY AddressesAreFinite
  <2> HIDE DEF Addresses
  <2> QED
    BY <1>4, <2>1, <2>2, <2>3, SumChanges
<1>6. Supply(m) = SumOver(f, Addresses) /\ Supply(q) = SumOver(g, Addresses)
  BY <1>1 DEF Supply, SumOver, Balances
<1> QED
  BY <1>2, <1>5, <1>6

LEMMA SupplyIs ==
    ASSUME NEW m \in Maps, NEW b \in Addresses, NEW v \in Nat
    PROVE  /\ Supply(m) \in Int
           /\ Pay(m, b, v) \in Maps /\ Supply(Pay(m, b, v)) = Supply(m) + v
           /\ OrNew(m[b]).balance >= v =>
                 Spend(m, b, v) \in Maps /\ Supply(Spend(m, b, v)) = Supply(m) - v
<1>1. OrNew(m[b]).balance \in Nat /\ OrNew(m[b]).nonce \in Nat
  BY MapsAre
<1>2. Pay(m, b, v) \in Maps /\ Supply(m) \in Int /\ Supply(Pay(m, b, v)) = Supply(m) + v
  <2>1. PICK new : new = Account(OrNew(m[b]).balance + v, OrNew(m[b]).nonce)
    OBVIOUS
  <2>2. OrNew(m[b]).balance + v \in Nat
    BY <1>1
  <2>3. new \in AccountValues /\ OrNew(new).balance = OrNew(m[b]).balance + v
    BY <1>1, <2>1, <2>2, AccountIs
  <2>4. PICK p : p = Pay(m, b, v)
    OBVIOUS
  <2>5. p = [m EXCEPT ![b] = new]
    BY <2>1, <2>4 DEF Pay
  <2>6. p \in Maps /\ p[b] = new /\ \A d \in Addresses \ {b} : p[d] = m[d]
    BY <2>3, <2>5 DEF Maps
  <2>7. Supply(p) = Supply(m) + OrNew(p[b]).balance - OrNew(m[b]).balance /\ Supply(m) \in Int
    BY <2>6, SupplyChanges
  <2>8. Supply(p) = Supply(m) + v
    BY <1>1, <2>3, <2>6, <2>7
  <2> QED
    BY <2>4, <2>6, <2>7, <2>8
<1>3. ASSUME OrNew(m[b]).balance >= v
      PROVE  Spend(m, b, v) \in Maps /\ Supply(Spend(m, b, v)) = Supply(m) - v
  <2>1. PICK new : new = Account(OrNew(m[b]).balance - v, OrNew(m[b]).nonce + 1)
    OBVIOUS
  <2>2. OrNew(m[b]).balance - v \in Nat /\ OrNew(m[b]).nonce + 1 \in Nat
    BY <1>1, <1>3
  <2>3. new \in AccountValues /\ OrNew(new).balance = OrNew(m[b]).balance - v
    BY <2>1, <2>2, AccountIs
  <2>4. PICK p : p = Spend(m, b, v)
    OBVIOUS
  <2>5. p = [m EXCEPT ![b] = new]
    BY <2>1, <2>4 DEF Spend
  <2>6. p \in Maps /\ p[b] = new /\ \A d \in Addresses \ {b} : p[d] = m[d]
    BY <2>3, <2>5 DEF Maps
  <2>7. Supply(p) = Supply(m) + OrNew(p[b]).balance - OrNew(m[b]).balance /\ Supply(m) \in Int
    BY <2>6, SupplyChanges
  <2>8. Supply(p) = Supply(m) - v
    BY <1>1, <2>3, <2>6, <2>7
  <2> QED
    BY <2>4, <2>6, <2>8
<1> QED
  BY <1>2, <1>3

Burns(tx) == IF tx.to = Nobody THEN tx.amount ELSE 0

LEMMA MovedBooks ==
    ASSUME NEW m \in Maps, NEW tx \in Txs, OrNew(m[tx.from]).balance >= tx.amount + tx.fee
    PROVE  /\ Moved(m, tx) \in Maps
           /\ Supply(Moved(m, tx)) = Supply(m) - tx.fee - Burns(tx)
           /\ Supply(m) \in Int
           /\ \A old \in Maps, a \in Addresses : \A t, g, s, k :
                 Booked(m, old, a, t, g, s, k) =>
                 Booked(Moved(m, tx), old, a, t \/ tx.to = a \/ tx.from = a,
                        g + (IF tx.to = a THEN tx.amount ELSE 0),
                        s + (IF tx.from = a THEN tx.amount + tx.fee ELSE 0),
                        k + (IF tx.from = a THEN 1 ELSE 0))
<1>1. /\ tx.from \in Addresses /\ tx.to \in Addresses \cup {Nobody} /\ tx.amount \in Nat /\ tx.fee \in Nat
      /\ tx.amount + tx.fee \in Nat
  BY DEF Txs
<1>2. PICK q : q = Spend(m, tx.from, tx.amount + tx.fee)
  OBVIOUS
<1>3. q \in Maps /\ Supply(q) = Supply(m) - (tx.amount + tx.fee) /\ Supply(m) \in Int
  BY <1>1, <1>2, SupplyIs
<1>4. ASSUME NEW old \in Maps, NEW a \in Addresses, NEW t, NEW g, NEW s, NEW k, Booked(m, old, a, t, g, s, k)
      PROVE  Booked(q, old, a, t \/ a = tx.from, g,
                    s + (IF a = tx.from THEN tx.amount + tx.fee ELSE 0), k + (IF a = tx.from THEN 1 ELSE 0))
  BY <1>1, <1>2, <1>4, BookedSpend
<1>5. CASE tx.to = Nobody
  <2>1. Moved(m, tx) = q /\ Burns(tx) = tx.amount /\ tx.to \notin Addresses
    BY <1>2, <1>5, BlocksAssumption DEF Moved, Burns
  <2>2. ASSUME NEW old \in Maps, NEW a \in Addresses, NEW t, NEW g, NEW s, NEW k, Booked(m, old, a, t, g, s, k)
        PROVE  Booked(q, old, a, t \/ tx.to = a \/ tx.from = a,
                        g + (IF tx.to = a THEN tx.amount ELSE 0),
                        s + (IF tx.from = a THEN tx.amount + tx.fee ELSE 0),
                        k + (IF tx.from = a THEN 1 ELSE 0))
    <3>1. tx.to # a /\ g + 0 = g
      BY <2>1, <2>2 DEF Booked
    <3>2. (t \/ a = tx.from) = (t \/ tx.to = a \/ tx.from = a)
      BY <3>1
    <3> QED
      BY <1>4, <2>2, <3>1, <3>2
  <2> QED
    BY <1>1, <1>3, <2>1, <2>2
<1>6. CASE tx.to # Nobody
  <2>1. Moved(m, tx) = Pay(q, tx.to, tx.amount) /\ Burns(tx) = 0 /\ tx.to \in Addresses
    BY <1>1, <1>2, <1>6 DEF Moved, Burns
  <2>2. PICK p : p = Pay(q, tx.to, tx.amount)
    OBVIOUS
  <2>3. p \in Maps /\ Supply(p) = Supply(q) + tx.amount
    BY <1>1, <1>3, <2>1, <2>2, SupplyIs
  <2>4. ASSUME NEW old \in Maps, NEW a \in Addresses, NEW t, NEW g, NEW s, NEW k, Booked(m, old, a, t, g, s, k)
        PROVE  Booked(p, old, a, t \/ tx.to = a \/ tx.from = a,
                        g + (IF tx.to = a THEN tx.amount ELSE 0),
                        s + (IF tx.from = a THEN tx.amount + tx.fee ELSE 0),
                        k + (IF tx.from = a THEN 1 ELSE 0))
    <3>1. PICK t1, s1, k1 : /\ t1 = (t \/ a = tx.from)
                            /\ s1 = s + (IF a = tx.from THEN tx.amount + tx.fee ELSE 0)
                            /\ k1 = k + (IF a = tx.from THEN 1 ELSE 0)
      OBVIOUS
    <3>2. Booked(q, old, a, t1, g, s1, k1)
      BY <1>4, <2>4, <3>1
    <3>3. Booked(p, old, a, t1 \/ a = tx.to, g + (IF a = tx.to THEN tx.amount ELSE 0), s1, k1)
      BY <1>1, <1>3, <2>1, <2>2, <3>2, BookedPay
    <3>4. (t1 \/ a = tx.to) = (t \/ tx.to = a \/ tx.from = a)
      BY <3>1
    <3> QED
      BY <3>1, <3>3, <3>4
  <2>5. Supply(p) = Supply(m) - tx.fee - Burns(tx)
    BY <1>1, <1>3, <2>1, <2>3
  <2> QED
    BY <1>3, <2>1, <2>2, <2>3, <2>4, <2>5
<1> QED
  BY <1>5, <1>6

-----------------------------------------------------------------------------
(***************************************************************************)
(* The transactions of a block, and its uncles, add up.                    *)
(***************************************************************************)

Gets(txs, a) == [i \in DOMAIN txs |-> IF txs[i].to = a THEN txs[i].amount ELSE 0]
Spends(txs, a) == [i \in DOMAIN txs |-> IF txs[i].from = a THEN txs[i].amount + txs[i].fee ELSE 0]
Sends(txs, a) == [i \in DOMAIN txs |-> IF txs[i].from = a THEN 1 ELSE 0]
FeesOf(txs) == [i \in DOMAIN txs |-> txs[i].fee]
BurnsOf(txs) == [i \in DOMAIN txs |-> Burns(txs[i])]
TouchedBy(txs, a, k) == \E i \in 1 .. k : txs[i].to = a \/ txs[i].from = a

LEMMA TxsAre ==
    ASSUME NEW txs \in Seq(Txs), NEW k \in 0 .. Len(txs) - 1
    PROVE  /\ k \in Nat /\ k + 1 \in 1 .. Len(txs) /\ txs[k + 1] \in Txs /\ DOMAIN txs = 1 .. Len(txs)
           /\ \A i \in 1 .. k + 1 : txs[i] \in Txs /\ txs[i].amount \in Nat /\ txs[i].fee \in Nat /\ i \in DOMAIN txs
<1>1. \A tx \in Txs : tx.amount \in Nat /\ tx.fee \in Nat
  BY DEF Txs
<1> QED
  BY <1>1

LEMMA SumsGrow ==
    ASSUME NEW txs \in Seq(Txs), NEW k \in 0 .. Len(txs) - 1, NEW a
    PROVE  LET tx == txs[k + 1] IN
           /\ SumOver(Gets(txs, a), 1 .. k + 1) =
                 SumOver(Gets(txs, a), 1 .. k) + (IF tx.to = a THEN tx.amount ELSE 0)
           /\ SumOver(Spends(txs, a), 1 .. k + 1) =
                 SumOver(Spends(txs, a), 1 .. k) + (IF tx.from = a THEN tx.amount + tx.fee ELSE 0)
           /\ SumOver(Sends(txs, a), 1 .. k + 1) = SumOver(Sends(txs, a), 1 .. k) + (IF tx.from = a THEN 1 ELSE 0)
           /\ SumOver(FeesOf(txs), 1 .. k + 1) = SumOver(FeesOf(txs), 1 .. k) + tx.fee
           /\ SumOver(FeesOf(txs), 1 .. k) \in Int
           /\ SumOver(BurnsOf(txs), 1 .. k + 1) = SumOver(BurnsOf(txs), 1 .. k) + Burns(tx)
           /\ SumOver(BurnsOf(txs), 1 .. k) \in Int
<1>1. PICK tx : tx = txs[k + 1]
  OBVIOUS
<1>2. k \in Nat /\ \A i \in 1 .. k + 1 : txs[i].amount \in Nat /\ txs[i].fee \in Nat /\ i \in DOMAIN txs
  BY TxsAre
<1>3. k + 1 \in 1 .. k + 1
  BY <1>2
<1>4. PICK f : f = Gets(txs, a)
  OBVIOUS
<1>5. PICK g : g = Spends(txs, a)
  OBVIOUS
<1>6. PICK h : h = Sends(txs, a)
  OBVIOUS
<1>7. PICK u : u = FeesOf(txs)
  OBVIOUS
<1>8. PICK v : v = BurnsOf(txs)
  OBVIOUS
<1>9. f[k + 1] = (IF tx.to = a THEN tx.amount ELSE 0) /\ \A i \in 1 .. k + 1 : f[i] \in Int
  BY <1>1, <1>2, <1>3, <1>4 DEF Gets
<1>10. g[k + 1] = (IF tx.from = a THEN tx.amount + tx.fee ELSE 0) /\ \A i \in 1 .. k + 1 : g[i] \in Int
  BY <1>1, <1>2, <1>3, <1>5 DEF Spends
<1>11. h[k + 1] = (IF tx.from = a THEN 1 ELSE 0) /\ \A i \in 1 .. k + 1 : h[i] \in Int
  BY <1>1, <1>2, <1>3, <1>6 DEF Sends
<1>12. u[k + 1] = tx.fee /\ \A i \in 1 .. k + 1 : u[i] \in Int
  BY <1>1, <1>2, <1>3, <1>7 DEF FeesOf
<1>13. v[k + 1] = Burns(tx) /\ \A i \in 1 .. k + 1 : v[i] \in Int
  BY <1>1, <1>2, <1>3, <1>8 DEF BurnsOf, Burns
<1>14. SumOver(f, 1 .. k + 1) = SumOver(f, 1 .. k) + f[k + 1]
  BY <1>2, <1>9, SumGrows
<1>15. SumOver(g, 1 .. k + 1) = SumOver(g, 1 .. k) + g[k + 1]
  BY <1>2, <1>10, SumGrows
<1>16. SumOver(h, 1 .. k + 1) = SumOver(h, 1 .. k) + h[k + 1]
  BY <1>2, <1>11, SumGrows
<1>17. SumOver(u, 1 .. k + 1) = SumOver(u, 1 .. k) + u[k + 1] /\ SumOver(u, 1 .. k) \in Int
  BY <1>2, <1>12, SumGrows
<1>18. SumOver(v, 1 .. k + 1) = SumOver(v, 1 .. k) + v[k + 1] /\ SumOver(v, 1 .. k) \in Int
  BY <1>2, <1>13, SumGrows
<1> QED
  BY <1>1, <1>4, <1>5, <1>6, <1>7, <1>8, <1>9, <1>10, <1>11, <1>12, <1>13, <1>14, <1>15, <1>16, <1>17, <1>18

\* A block none of whose transactions next drops: each is valid when its turn comes.
ValidAt(root, s, tx) == \E c, x, v, i : s = Sorted(c, x, v, i) /\ Validity(root, c, tx) = "Valid"

LEMMA AllValid ==
    ASSUME NEW root, NEW txs \in Seq(Txs), NEW f, Processing(f, Len(txs), root, txs),
           Len(f[Len(txs)].valid) = Len(txs)
    PROVE  \A k \in 0 .. Len(txs) - 1 : ValidAt(root, f[k], txs[k + 1])
<1>1. PICK len : len = Len(txs)
  OBVIOUS
<1>2. len \in Nat /\ \A k \in 0 .. len - 1 : txs[k + 1] \in Txs /\ k + 1 \in 1 .. len /\ k \in Nat
  BY <1>1, TxsAre
<1>3. f[0] = Sorted(NoChanges, MinerReward, <<>>, <<>>)
      /\ \A k \in 1 .. len : f[k] = ProcessTx(root, f[k - 1], txs[k])
  BY <1>1 DEF Processing, Unprocessed, Sorted
<1> DEFINE Kind(k, c, x, v, i) == f[k] = Sorted(c, x, v, i) /\ Len(v) <= k
           S == {k \in 0 .. len : \E c, x, i : \E v \in Seq(Txs) : Kind(k, c, x, v, i)}
<1>4. 0 \in S
  <2>1. <<>> \in Seq(Txs) /\ Len(<<>>) <= 0
    OBVIOUS
  <2>2. Kind(0, NoChanges, MinerReward, <<>>, <<>>)
    BY <1>3, <2>1
  <2>3. \E c, x, i : \E v \in Seq(Txs) : Kind(0, c, x, v, i)
    BY <2>1, <2>2
  <2> QED
    BY <1>2, <2>3
<1>5. ASSUME NEW k \in 0 .. len - 1, NEW c, NEW x, NEW i, NEW v \in Seq(Txs), f[k] = Sorted(c, x, v, i)
      PROVE  LET tx == txs[k + 1] IN
             \/ /\ Validity(root, c, tx) = "Valid"
                /\ f[k + 1] = Sorted(Received(root, Spent(root, c, tx), tx), x + tx.fee, Append(v, tx), i)
             \/ f[k + 1] = Sorted(c, x, v, Append(i, tx))
             \/ f[k + 1] = Sorted(c, x, v, i)
  <2>1. PICK tx : tx = txs[k + 1]
    OBVIOUS
  <2>2. f[k + 1] = ProcessTx(root, Sorted(c, x, v, i), tx)
    <3>1. k + 1 \in 1 .. len /\ (k + 1) - 1 = k
      BY <1>2
    <3> QED
      BY <1>3, <1>5, <2>1, <3>1
  <2>3. f[k + 1] = CASE Validity(root, c, tx) = "Valid" ->
                    Sorted(Received(root, Spent(root, c, tx), tx), x + tx.fee, Append(v, tx), i)
               [] Validity(root, c, tx) = "Invalid" -> Sorted(c, x, v, Append(i, tx))
               [] OTHER -> Sorted(c, x, v, i)
    BY <2>2, ProcessTxIs
  <2>4. CASE Validity(root, c, tx) = "Valid"
    BY <2>1, <2>3, <2>4
  <2>5. CASE Validity(root, c, tx) = "Invalid"
    BY <2>1, <2>3, <2>5
  <2>6. CASE Validity(root, c, tx) # "Valid" /\ Validity(root, c, tx) # "Invalid"
    BY <2>1, <2>3, <2>6
  <2> QED
    BY <2>4, <2>5, <2>6
<1>6. ASSUME NEW k \in 0 .. len - 1, k \in S
      PROVE  k + 1 \in S
  <2>1. PICK c, x, i : \E v \in Seq(Txs) : Kind(k, c, x, v, i)
    BY <1>6
  <2>2. PICK v \in Seq(Txs) : f[k] = Sorted(c, x, v, i) /\ Len(v) <= k
    BY <2>1
  <2>3. PICK tx \in Txs : tx = txs[k + 1]
    BY <1>2
  <2>4. PICK w : w = Append(v, tx)
    OBVIOUS
  <2>5. w \in Seq(Txs) /\ Len(w) <= k + 1 /\ Len(v) <= k + 1 /\ k + 1 \in 0 .. len
    BY <1>2, <2>2, <2>3, <2>4
  <2>6. PICK d, y : d = Received(root, Spent(root, c, tx), tx) /\ y = x + tx.fee
    OBVIOUS
  <2>7. f[k + 1] = Sorted(d, y, w, i) \/ f[k + 1] = Sorted(c, x, v, Append(i, tx)) \/ f[k + 1] = Sorted(c, x, v, i)
    BY <1>5, <2>2, <2>3, <2>4, <2>6
  <2> QED
    BY <2>5, <2>7
<1>7. 0 .. len \subseteq S
  <2> HIDE DEF S
  <2> QED
    BY <1>2, <1>4, <1>6, CountingUp
<1> DEFINE T == {j \in 0 .. len : Len(f[len - j].valid) = len - j}
           Good(k) == ValidAt(root, f[k], txs[k + 1])
<1>8. ASSUME NEW k \in 0 .. len - 1, Len(f[k + 1].valid) = k + 1
      PROVE  Good(k) /\ Len(f[k].valid) = k
  <2>1. k \in S
    <3> HIDE DEF S
    <3> QED
      BY <1>2, <1>7
  <2>2. PICK c, x, i : \E v \in Seq(Txs) : Kind(k, c, x, v, i)
    BY <2>1
  <2>3. PICK v \in Seq(Txs) : f[k] = Sorted(c, x, v, i) /\ Len(v) <= k
    BY <2>2
  <2>4. f[k].valid = v /\ Len(v) \in Nat
    BY <2>3 DEF Sorted
  <2>5. ASSUME f[k + 1].valid = v PROVE FALSE
    BY <1>2, <1>8, <2>3, <2>4, <2>5
  <2>6. PICK tx \in Txs : tx = txs[k + 1]
    BY <1>2
  <2>10. PICK d, y : d = Received(root, Spent(root, c, tx), tx) /\ y = x + tx.fee
    OBVIOUS
  <2>11. \/ Validity(root, c, tx) = "Valid" /\ f[k + 1] = Sorted(d, y, Append(v, tx), i)
         \/ f[k + 1] = Sorted(c, x, v, Append(i, tx))
         \/ f[k + 1] = Sorted(c, x, v, i)
    BY <1>5, <2>3, <2>6, <2>10
  <2>12. \A p, q, r, t : Sorted(p, q, r, t).valid = r
    BY DEF Sorted
  <2>7. /\ Validity(root, c, tx) = "Valid"
        /\ f[k + 1].valid = Append(v, tx)
    <3>1. \A p, q, t : f[k + 1] # Sorted(p, q, v, t)
      BY <2>5, <2>12
    <3>2. Validity(root, c, tx) = "Valid" /\ f[k + 1] = Sorted(d, y, Append(v, tx), i)
      BY <2>11, <3>1
    <3>3. PICK w : w = Append(v, tx)
      OBVIOUS
    <3>4. f[k + 1].valid = w
      <4>1. PICK z : z = Sorted(d, y, w, i)
        OBVIOUS
      <4>2. z.valid = w
        BY <4>1 DEF Sorted
      <4>3. f[k + 1] = z
        BY <3>2, <3>3, <4>1
      <4> QED
        BY <4>2, <4>3
    <3> QED
      BY <3>2, <3>3, <3>4
  <2>8. Len(v) + 1 = k + 1
    BY <1>8, <2>7
  <2>9. Len(v) = k
    BY <1>2, <2>4, <2>8
  <2> QED
    BY <2>3, <2>4, <2>6, <2>7, <2>9 DEF ValidAt
<1>9. 0 \in T
  BY <1>1, <1>2
<1>10. ASSUME NEW j \in 0 .. len - 1, j \in T
       PROVE  j + 1 \in T
  <2>1. PICK k : k = len - (j + 1)
    OBVIOUS
  <2>2. k \in 0 .. len - 1 /\ k + 1 = len - j /\ j + 1 \in 0 .. len
    BY <1>2, <2>1
  <2> QED
    BY <1>8, <1>10, <2>1, <2>2
<1>11. 0 .. len \subseteq T
  <2> HIDE DEF T
  <2> QED
    BY <1>2, <1>9, <1>10, CountingUp
<1>12. ASSUME NEW k \in 0 .. len - 1
       PROVE  Good(k)
  <2>1. len - (k + 1) \in 0 .. len /\ len - (len - (k + 1)) = k + 1
    BY <1>2
  <2>2. len - (k + 1) \in T
    BY <1>11, <2>1
  <2>3. Len(f[k + 1].valid) = k + 1
    BY <2>1, <2>2
  <2> QED
    BY <1>8, <2>3
<1> QED
  BY <1>1, <1>12

\* After the first k transactions of a block that next drops none of.
TxsBooked(root, txs, k, c, fees) ==
    LET m == Now(root, c)
        old == Accounts(root) IN
    /\ c \in Maps
    /\ fees = MinerReward + SumOver(FeesOf(txs), 1 .. k)
    /\ fees \in Nat
    /\ Supply(m) = Supply(old) - SumOver(FeesOf(txs), 1 .. k) - SumOver(BurnsOf(txs), 1 .. k)
    /\ \A a \in Addresses :
          Booked(m, old, a, TouchedBy(txs, a, k), SumOver(Gets(txs, a), 1 .. k),
                 SumOver(Spends(txs, a), 1 .. k), SumOver(Sends(txs, a), 1 .. k))

LEMMA NoTxsBooked ==
    ASSUME NEW root, Standing(root), NEW txs
    PROVE  TxsBooked(root, txs, 0, NoChanges, MinerReward)
<1>1. PICK m, old : m = Now(root, NoChanges) /\ old = Accounts(root)
  OBVIOUS
<1>2. NoChanges \in Maps /\ \A a \in Addresses : NoChanges[a] = Absent
  BY DEF NoChanges, Maps
<1>3. old \in Maps /\ m \in Maps
  BY <1>1, <1>2, AccountsAre, ModifiedIs DEF Standing
<1>4. m = old
  <2>1. \A a \in Addresses : m[a] = old[a]
    BY <1>1, <1>2 DEF Now
  <2> QED
    BY <1>3, <2>1, MapsEqual
<1>5. \A f : SumOver(f, 1 .. 0) = 0
  <2>1. 1 .. 0 = {}
    OBVIOUS
  <2> QED
    BY <2>1, SumOfNothing
<1>6. MinerReward \in Nat /\ MinerReward + 0 = MinerReward
  BY RewardAssumption
<1>7. Supply(old) \in Int
  <2>1. \A a \in Addresses : Supply(old) \in Int
    BY <1>3, SupplyChanges
  <2>2. PICK a \in Addresses : TRUE
    BY BlocksAssumption
  <2> QED
    BY <2>1, <2>2
<1>8. Supply(m) = Supply(old) - 0 - 0
  BY <1>4, <1>7
<1>9. ASSUME NEW a \in Addresses
      PROVE  Booked(m, old, a, TouchedBy(txs, a, 0), 0, 0, 0)
  <2>1. TouchedBy(txs, a, 0) = FALSE
    BY DEF TouchedBy
  <2>2. old[a] \in AccountValues \cup {Absent}
    BY <1>3, MapsAre
  <2>3. m[a] = Entry(old[a], FALSE, 0, 0, 0)
    <3>1. CASE old[a] = Absent
      BY <1>4, <3>1 DEF Entry
    <3>2. CASE old[a] # Absent
      <4>1. OrNew(old[a]) = old[a] /\ old[a] = Account(old[a].balance, old[a].nonce)
            /\ old[a].balance \in Nat /\ old[a].nonce \in Nat
        BY <2>2, <3>2, AccountIs
      <4>2. old[a].balance + 0 - 0 = old[a].balance /\ old[a].nonce + 0 = old[a].nonce
        BY <4>1
      <4> QED
        BY <1>4, <3>2, <4>1, <4>2 DEF Entry
    <3> QED
      BY <3>1, <3>2
  <2>4. Booked(m, old, a, FALSE, 0, 0, 0)
    BY <2>3 DEF Booked
  <2> QED
    BY <2>1, <2>4
<1> QED
  BY <1>1, <1>2, <1>5, <1>6, <1>8, <1>9 DEF TxsBooked

LEMMA MoreTxsBooked ==
    ASSUME NEW root, Standing(root), NEW txs \in Seq(Txs), NEW k \in 0 .. Len(txs) - 1, NEW c, NEW fees,
           TxsBooked(root, txs, k, c, fees), Validity(root, c, txs[k + 1]) = "Valid"
    PROVE  TxsBooked(root, txs, k + 1, Received(root, Spent(root, c, txs[k + 1]), txs[k + 1]),
                     fees + txs[k + 1].fee)
<1>1. PICK m, old : m = Now(root, c) /\ old = Accounts(root)
  OBVIOUS
<1>2. PICK tx : tx = txs[k + 1]
  OBVIOUS
<1>3. tx \in Txs /\ tx.fee \in Nat /\ tx.amount \in Nat /\ k \in Nat
  <2>1. tx \in Txs /\ k \in Nat
    BY <1>2, TxsAre
  <2> QED
    BY <2>1 DEF Txs
<1>4. PICK d : d = Received(root, Spent(root, c, tx), tx)
  OBVIOUS
<1>5. /\ c \in Maps
      /\ fees = MinerReward + SumOver(FeesOf(txs), 1 .. k) /\ fees \in Nat
      /\ Supply(m) = Supply(old) - SumOver(FeesOf(txs), 1 .. k) - SumOver(BurnsOf(txs), 1 .. k)
      /\ \A a \in Addresses :
          Booked(m, old, a, TouchedBy(txs, a, k), SumOver(Gets(txs, a), 1 .. k),
                 SumOver(Spends(txs, a), 1 .. k), SumOver(Sends(txs, a), 1 .. k))
  BY <1>1 DEF TxsBooked
<1>6. old \in Maps /\ m \in Maps
  BY <1>1, <1>5, AccountsAre, ModifiedIs DEF Standing
<1>7. d \in Maps /\ Now(root, d) = Moved(m, tx) /\ OrNew(m[tx.from]).balance >= tx.amount + tx.fee
  BY <1>1, <1>2, <1>3, <1>4, <1>5, MovedIs
<1>8. PICK q : q = Moved(m, tx)
  OBVIOUS
<1>9. Supply(q) = Supply(m) - tx.fee - Burns(tx) /\ Supply(m) \in Int
  BY <1>3, <1>6, <1>7, <1>8, MovedBooks
<1>10. /\ SumOver(FeesOf(txs), 1 .. k + 1) = SumOver(FeesOf(txs), 1 .. k) + tx.fee
       /\ SumOver(FeesOf(txs), 1 .. k) \in Int
       /\ SumOver(BurnsOf(txs), 1 .. k + 1) = SumOver(BurnsOf(txs), 1 .. k) + Burns(tx)
       /\ SumOver(BurnsOf(txs), 1 .. k) \in Int
  BY <1>2, SumsGrow
<1>11. Burns(tx) \in Int
  BY <1>3 DEF Burns
<1>12. Supply(old) \in Int
  BY <1>3, <1>6, SupplyIs DEF Txs
<1>13. Supply(q) = Supply(old) - SumOver(FeesOf(txs), 1 .. k + 1) - SumOver(BurnsOf(txs), 1 .. k + 1)
  <2>1. PICK u, v : u = SumOver(FeesOf(txs), 1 .. k) /\ v = SumOver(BurnsOf(txs), 1 .. k)
    OBVIOUS
  <2>2. PICK w : w = Burns(tx)
    OBVIOUS
  <2>3. u \in Int /\ v \in Int /\ w \in Int /\ tx.fee \in Int
    BY <1>3, <1>10, <1>11, <2>1, <2>2
  <2>4. Supply(q) = Supply(old) - u - v - tx.fee - w
    BY <1>5, <1>9, <2>1, <2>2
  <2>5. Supply(q) = Supply(old) - (u + tx.fee) - (v + w)
    BY <1>12, <2>3, <2>4
  <2> QED
    BY <1>10, <2>1, <2>2, <2>5
<1>14. fees + tx.fee = MinerReward + SumOver(FeesOf(txs), 1 .. k + 1) /\ fees + tx.fee \in Nat
  <2>1. PICK u : u = SumOver(FeesOf(txs), 1 .. k)
    OBVIOUS
  <2>2. fees = MinerReward + u /\ u \in Int /\ MinerReward \in Int /\ SumOver(FeesOf(txs), 1 .. k + 1) = u + tx.fee
    BY <1>5, <1>10, <2>1, RewardAssumption
  <2> QED
    BY <1>3, <1>5, <2>2
<1>15. ASSUME NEW a \in Addresses
       PROVE  Booked(q, old, a, TouchedBy(txs, a, k + 1), SumOver(Gets(txs, a), 1 .. k + 1),
                     SumOver(Spends(txs, a), 1 .. k + 1), SumOver(Sends(txs, a), 1 .. k + 1))
  <2>1. PICK g, s, t : /\ g = SumOver(Gets(txs, a), 1 .. k) /\ s = SumOver(Spends(txs, a), 1 .. k)
                       /\ t = SumOver(Sends(txs, a), 1 .. k)
    OBVIOUS
  <2>2. PICK u : u = TouchedBy(txs, a, k)
    OBVIOUS
  <2>3. Booked(m, old, a, u, g, s, t)
    BY <1>5, <2>1, <2>2
  <2>4. Booked(q, old, a, u \/ tx.to = a \/ tx.from = a,
                        g + (IF tx.to = a THEN tx.amount ELSE 0),
                        s + (IF tx.from = a THEN tx.amount + tx.fee ELSE 0),
                        t + (IF tx.from = a THEN 1 ELSE 0))
    BY <1>3, <1>6, <1>7, <1>8, <2>3, MovedBooks
  <2>5. /\ SumOver(Gets(txs, a), 1 .. k + 1) = g + (IF tx.to = a THEN tx.amount ELSE 0)
        /\ SumOver(Spends(txs, a), 1 .. k + 1) = s + (IF tx.from = a THEN tx.amount + tx.fee ELSE 0)
        /\ SumOver(Sends(txs, a), 1 .. k + 1) = t + (IF tx.from = a THEN 1 ELSE 0)
    BY <1>2, <2>1, SumsGrow
  <2>6. TouchedBy(txs, a, k + 1) = (u \/ tx.to = a \/ tx.from = a)
    <3>1. \A i : i \in 1 .. k + 1 <=> i \in 1 .. k \/ i = k + 1
      BY <1>3
    <3> QED
      BY <1>2, <2>2, <3>1 DEF TouchedBy
  <2> QED
    BY <2>4, <2>5, <2>6
<1> QED
  BY <1>1, <1>2, <1>4, <1>7, <1>8, <1>13, <1>14, <1>15 DEF TxsBooked

LEMMA ProcessedBooks ==
    ASSUME NEW root, Standing(root), NEW txs \in Seq(Txs),
           Len(Processed(root, txs).valid) = Len(txs)
    PROVE  TxsBooked(root, txs, Len(txs), Processed(root, txs).changes, Processed(root, txs).fees)
<1>1. PICK f : Processing(f, Len(txs), root, txs) /\ Processed(root, txs) = f[Len(txs)]
  BY ProcessedIs
<1>2. PICK len : len = Len(txs)
  OBVIOUS
<1>3. len \in Nat /\ \A k \in 0 .. len - 1 : k \in Nat /\ k + 1 \in 1 .. len /\ txs[k + 1] \in Txs
  BY <1>2, TxsAre
<1> DEFINE S == {k \in 0 .. len : TxsBooked(root, txs, k, f[k].changes, f[k].fees)}
<1>4. 0 \in S
  <2>1. f[0].changes = NoChanges /\ f[0].fees = MinerReward
    BY <1>1 DEF Processing, Unprocessed
  <2> QED
    BY <1>3, <2>1, NoTxsBooked
<1>5. ASSUME NEW k \in 0 .. len - 1, k \in S
      PROVE  k + 1 \in S
  <2>1. PICK c, x, v, i : f[k] = Sorted(c, x, v, i) /\ Validity(root, c, txs[k + 1]) = "Valid"
    <3>1. Len(f[Len(txs)].valid) = Len(txs)
      BY <1>1
    <3>2. \A j \in 0 .. Len(txs) - 1 : ValidAt(root, f[j], txs[j + 1])
      BY <1>1, <3>1, AllValid
    <3> QED
      BY <1>2, <3>2 DEF ValidAt
  <2>2. PICK tx : tx = txs[k + 1]
    OBVIOUS
  <2>3. PICK d, w : d = Received(root, Spent(root, c, tx), tx) /\ w = Append(v, tx)
    OBVIOUS
  <2>4. f[k + 1] = ProcessTx(root, Sorted(c, x, v, i), tx)
    <3>1. k + 1 \in 1 .. len /\ (k + 1) - 1 = k
      BY <1>3
    <3> QED
      BY <1>1, <1>2, <2>1, <2>2, <3>1 DEF Processing
  <2>5. f[k + 1] = Sorted(d, x + tx.fee, w, i)
    BY <2>1, <2>2, <2>3, <2>4, ProcessTxIs
  <2>6. f[k + 1].changes = d /\ f[k + 1].fees = x + tx.fee /\ f[k].changes = c /\ f[k].fees = x
    BY <2>1, <2>5 DEF Sorted
  <2>7. TxsBooked(root, txs, k, c, x)
    BY <1>5, <2>6
  <2>8. TxsBooked(root, txs, k + 1, d, x + tx.fee)
    BY <1>2, <2>1, <2>2, <2>3, <2>7, MoreTxsBooked
  <2> QED
    BY <1>3, <2>6, <2>8
<1>6. 0 .. len \subseteq S
  <2> HIDE DEF S
  <2> QED
    BY <1>3, <1>4, <1>5, CountingUp
<1>7. len \in S
  <2> HIDE DEF S
  <2> QED
    BY <1>3, <1>6
<1> QED
  BY <1>1, <1>2, <1>7

-----------------------------------------------------------------------------
(***************************************************************************)
(* The rewards of the uncles.                                              *)
(***************************************************************************)

RewardOf(uncle) == UncleReward[uncle.delta]
RewardOne(root, c, uncle) == Paid(root, c, uncle.miner, RewardOf(uncle))
RewardsOf(uncles) == [i \in DOMAIN uncles |-> RewardOf(uncles[i])]
RewardsTo(uncles, a) == [i \in DOMAIN uncles |-> IF uncles[i].miner = a THEN RewardOf(uncles[i]) ELSE 0]
MinedBy(uncles, a, k) == \E i \in 1 .. k : uncles[i].miner = a

\* f is the loop of next over the first m uncles.
Rewarding(f, m, root, c, uncles) ==
    /\ f[0] = c
    /\ \A k \in 1 .. m : f[k] = RewardOne(root, f[k - 1], uncles[k])

LEMMA RewardingExists ==
    ASSUME NEW root, NEW c, NEW uncles, NEW l \in Nat
    PROVE  \E f : Rewarding(f, l, root, c, uncles)
<1> DEFINE S == {m \in 0 .. l : \E f : Rewarding(f, m, root, c, uncles)}
<1>1. 0 \in S
  <2>1. PICK f : f = [k \in 0 .. 0 |-> c]
    OBVIOUS
  <2>2. Rewarding(f, 0, root, c, uncles)
    BY <2>1 DEF Rewarding
  <2> QED
    BY <2>2
<1>2. ASSUME NEW m \in 0 .. l - 1, m \in S
      PROVE  m + 1 \in S
  <2>1. PICK f : Rewarding(f, m, root, c, uncles)
    BY <1>2
  <2>6. PICK g : g = [k \in 0 .. m + 1 |-> IF k = m + 1 THEN RewardOne(root, f[m], uncles[m + 1]) ELSE f[k]]
    OBVIOUS
  <2>2. /\ g[m + 1] = RewardOne(root, f[m], uncles[m + 1])
        /\ \A k \in 0 .. m : g[k] = f[k]
    BY <2>6
  <2>3. g[0] = c
    BY <2>1, <2>2 DEF Rewarding
  <2>4. ASSUME NEW k \in 1 .. m + 1
        PROVE  g[k] = RewardOne(root, g[k - 1], uncles[k])
    <3>1. CASE k = m + 1
      <4>1. g[k - 1] = f[m]
        BY <2>2, <3>1
      <4> QED
        BY <2>2, <3>1, <4>1
    <3>2. CASE k \in 1 .. m
      <4>1. g[k] = f[k] /\ g[k - 1] = f[k - 1]
        BY <2>2, <3>2
      <4> QED
        BY <2>1, <3>2, <4>1 DEF Rewarding
    <3> QED
      BY <3>1, <3>2
  <2>5. Rewarding(g, m + 1, root, c, uncles)
    BY <2>2, <2>3, <2>4 DEF Rewarding
  <2> QED
    BY <2>5
<1>3. 0 .. l \subseteq S
  <2> HIDE DEF S
  <2> QED
    BY <1>1, <1>2, CountingUp
<1> QED
  BY <1>3

LEMMA RewardedIs ==
    ASSUME NEW root, NEW c, NEW uncles, Len(uncles) \in Nat
    PROVE  \E f : Rewarding(f, Len(uncles), root, c, uncles) /\ Rewarded(root, c, uncles) = f[Len(uncles)]
<1> DEFINE l == Len(uncles)
           Body(f) == [k \in 0 .. l |-> IF k = 0 THEN c ELSE RewardOne(root, f[k - 1], uncles[k])]
           after == CHOOSE f : f = Body(f)
<1>1. PICK f : Rewarding(f, l, root, c, uncles)
  BY RewardingExists
<1>2. PICK g : g = [k \in 0 .. l |-> f[k]]
  OBVIOUS
<1>3. \A k \in 0 .. l : f[k] = IF k = 0 THEN c ELSE RewardOne(root, g[k - 1], uncles[k])
  BY <1>1, <1>2 DEF Rewarding
<1>4. g = Body(g)
  BY <1>2, <1>3
<1>5. after = Body(after)
  BY <1>4
<1>6. Rewarded(root, c, uncles) = after[l]
  BY DEF Rewarded, RewardOne, RewardOf
<1> HIDE DEF after
<1>7. \A k \in 0 .. l : after[k] = IF k = 0 THEN c ELSE RewardOne(root, after[k - 1], uncles[k])
  BY <1>5
<1>8. Rewarding(after, l, root, c, uncles)
  BY <1>7 DEF Rewarding
<1> QED
  BY <1>6, <1>8

\* d is c with the rewards of the first k uncles.
UnclesBooked(root, c, uncles, k, d) ==
    LET m == Now(root, c)
        q == Now(root, d)
        old == Accounts(root) IN
    /\ d \in Maps
    /\ Supply(q) = Supply(m) + SumOver(RewardsOf(uncles), 1 .. k)
    /\ \A a \in Addresses : \A t, g, s, x :
          Booked(m, old, a, t, g, s, x) =>
          Booked(q, old, a, t \/ MinedBy(uncles, a, k), g + SumOver(RewardsTo(uncles, a), 1 .. k), s, x)

LEMMA UnclesAre ==
    ASSUME NEW uncles \in Seq(Uncles), NEW k \in 0 .. Len(uncles) - 1
    PROVE  /\ k \in Nat /\ k + 1 \in 1 .. Len(uncles) /\ DOMAIN uncles = 1 .. Len(uncles)
           /\ \A i \in 1 .. k + 1 : uncles[i].miner \in Addresses /\ RewardOf(uncles[i]) \in Nat /\ i \in DOMAIN uncles
<1>1. \A u \in Uncles : u.miner \in Addresses /\ RewardOf(u) \in Nat
  BY RewardAssumption DEF Uncles, RewardOf
<1>2. k \in Nat /\ k + 1 \in 1 .. Len(uncles) /\ DOMAIN uncles = 1 .. Len(uncles)
  OBVIOUS
<1>3. \A i \in 1 .. k + 1 : i \in DOMAIN uncles /\ uncles[i] \in Uncles
  OBVIOUS
<1> QED
  BY <1>1, <1>2, <1>3

LEMMA RewardsGrow ==
    ASSUME NEW uncles \in Seq(Uncles), NEW k \in 0 .. Len(uncles) - 1, NEW a
    PROVE  LET u == uncles[k + 1] IN
           /\ SumOver(RewardsTo(uncles, a), 1 .. k + 1) =
                 SumOver(RewardsTo(uncles, a), 1 .. k) + (IF u.miner = a THEN RewardOf(u) ELSE 0)
           /\ SumOver(RewardsTo(uncles, a), 1 .. k) \in Int
           /\ SumOver(RewardsOf(uncles), 1 .. k + 1) = SumOver(RewardsOf(uncles), 1 .. k) + RewardOf(u)
           /\ SumOver(RewardsOf(uncles), 1 .. k) \in Int
<1>1. PICK u : u = uncles[k + 1]
  OBVIOUS
<1>2. k \in Nat /\ \A i \in 1 .. k + 1 : RewardOf(uncles[i]) \in Nat /\ i \in DOMAIN uncles
  BY UnclesAre
<1>3. k + 1 \in 1 .. k + 1
  BY <1>2
<1>4. PICK f : f = RewardsTo(uncles, a)
  OBVIOUS
<1>5. PICK g : g = RewardsOf(uncles)
  OBVIOUS
<1>6. f[k + 1] = (IF u.miner = a THEN RewardOf(u) ELSE 0) /\ \A i \in 1 .. k + 1 : f[i] \in Int
  BY <1>1, <1>2, <1>3, <1>4 DEF RewardsTo
<1>7. g[k + 1] = RewardOf(u) /\ \A i \in 1 .. k + 1 : g[i] \in Int
  BY <1>1, <1>2, <1>3, <1>5 DEF RewardsOf
<1>8. SumOver(f, 1 .. k + 1) = SumOver(f, 1 .. k) + f[k + 1] /\ SumOver(f, 1 .. k) \in Int
  BY <1>2, <1>6, SumGrows
<1>9. SumOver(g, 1 .. k + 1) = SumOver(g, 1 .. k) + g[k + 1] /\ SumOver(g, 1 .. k) \in Int
  BY <1>2, <1>7, SumGrows
<1> QED
  BY <1>1, <1>4, <1>5, <1>6, <1>7, <1>8, <1>9

LEMMA MoreUnclesBooked ==
    ASSUME NEW root, Standing(root), NEW c \in Maps, NEW uncles \in Seq(Uncles), NEW k \in 0 .. Len(uncles) - 1,
           NEW d, UnclesBooked(root, c, uncles, k, d)
    PROVE  UnclesBooked(root, c, uncles, k + 1, RewardOne(root, d, uncles[k + 1]))
<1>1. PICK m, q, old : m = Now(root, c) /\ q = Now(root, d) /\ old = Accounts(root)
  OBVIOUS
<1>2. PICK u : u = uncles[k + 1]
  OBVIOUS
<1>3. PICK v, b : v = RewardOf(u) /\ b = u.miner
  OBVIOUS
<1>4. v \in Nat /\ b \in Addresses /\ k \in Nat
  <2>1. k + 1 \in 1 .. k + 1 /\ k \in Nat
    BY UnclesAre
  <2> QED
    BY <1>2, <1>3, <2>1, UnclesAre
<1>5. PICK e : e = RewardOne(root, d, u)
  OBVIOUS
<1>6. /\ d \in Maps
      /\ Supply(q) = Supply(m) + SumOver(RewardsOf(uncles), 1 .. k)
      /\ \A a \in Addresses : \A t, g, s, x :
          Booked(m, old, a, t, g, s, x) =>
          Booked(q, old, a, t \/ MinedBy(uncles, a, k), g + SumOver(RewardsTo(uncles, a), 1 .. k), s, x)
  BY <1>1 DEF UnclesBooked
<1>7. old \in Maps /\ m \in Maps /\ q \in Maps
  BY <1>1, <1>6, AccountsAre, ModifiedIs DEF Standing
<1>8. PICK r : r = Pay(q, b, v)
  OBVIOUS
<1>9. e \in Maps /\ Now(root, e) = r
  BY <1>1, <1>3, <1>4, <1>5, <1>6, <1>8, PaidIs DEF RewardOne
<1>10. Supply(m) \in Int /\ Supply(q) \in Int /\ Supply(r) = Supply(q) + v
  BY <1>4, <1>7, <1>8, SupplyIs
<1>11. Supply(r) = Supply(m) + SumOver(RewardsOf(uncles), 1 .. k + 1)
  <2>1. PICK y : y = SumOver(RewardsOf(uncles), 1 .. k)
    OBVIOUS
  <2>2. y \in Int /\ SumOver(RewardsOf(uncles), 1 .. k + 1) = y + v /\ Supply(q) = Supply(m) + y
    BY <1>2, <1>3, <1>6, <2>1, RewardsGrow
  <2> QED
    BY <1>4, <1>10, <2>2
<1>12. ASSUME NEW a \in Addresses, NEW t, NEW g, NEW s, NEW x, Booked(m, old, a, t, g, s, x)
       PROVE  Booked(r, old, a, t \/ MinedBy(uncles, a, k + 1), g + SumOver(RewardsTo(uncles, a), 1 .. k + 1), s, x)
  <2>1. PICK y : y = SumOver(RewardsTo(uncles, a), 1 .. k)
    OBVIOUS
  <2>2. PICK z : z = (t \/ MinedBy(uncles, a, k))
    OBVIOUS
  <2>3. PICK w : w = g + y
    OBVIOUS
  <2>4. Booked(q, old, a, z, w, s, x)
    BY <1>6, <1>12, <2>1, <2>2, <2>3
  <2>5. Booked(r, old, a, z \/ a = b, w + (IF a = b THEN v ELSE 0), s, x)
    BY <1>4, <1>7, <1>8, <2>4, BookedPay
  <2>6. g \in Int /\ w + (IF a = b THEN v ELSE 0) = g + SumOver(RewardsTo(uncles, a), 1 .. k + 1)
    <3>1. y \in Int /\ SumOver(RewardsTo(uncles, a), 1 .. k + 1) = y + (IF b = a THEN v ELSE 0)
      BY <1>2, <1>3, <2>1, RewardsGrow
    <3>2. g \in Int
      BY <1>12 DEF Booked
    <3> QED
      BY <1>4, <2>3, <3>1, <3>2
  <2>7. (z \/ a = b) = (t \/ MinedBy(uncles, a, k + 1))
    <3>1. \A i : i \in 1 .. k + 1 <=> i \in 1 .. k \/ i = k + 1
      BY <1>4
    <3>2. MinedBy(uncles, a, k + 1) = (MinedBy(uncles, a, k) \/ a = b)
      BY <1>2, <1>3, <3>1 DEF MinedBy
    <3> QED
      BY <2>2, <3>2
  <2> QED
    BY <2>5, <2>6, <2>7
<1> QED
  BY <1>1, <1>2, <1>5, <1>9, <1>11, <1>12 DEF UnclesBooked

LEMMA RewardedBooks ==
    ASSUME NEW root, Standing(root), NEW c \in Maps, NEW uncles \in Seq(Uncles)
    PROVE  UnclesBooked(root, c, uncles, Len(uncles), Rewarded(root, c, uncles))
<1>1. Len(uncles) \in Nat
  OBVIOUS
<1>2. PICK f : Rewarding(f, Len(uncles), root, c, uncles) /\ Rewarded(root, c, uncles) = f[Len(uncles)]
  BY <1>1, RewardedIs
<1>3. PICK len : len = Len(uncles)
  OBVIOUS
<1> DEFINE S == {k \in 0 .. len : UnclesBooked(root, c, uncles, k, f[k])}
<1>4. 0 \in S
  <2>1. f[0] = c
    BY <1>2 DEF Rewarding
  <2>2. PICK m, old : m = Now(root, c) /\ old = Accounts(root)
    OBVIOUS
  <2>3. m \in Maps /\ old \in Maps
    BY <2>2, AccountsAre, ModifiedIs DEF Standing
  <2>4. \A h : SumOver(h, 1 .. 0) = 0
    <3>1. 1 .. 0 = {}
      OBVIOUS
    <3> QED
      BY <3>1, SumOfNothing
  <2>5. Supply(m) = Supply(m) + 0
    <3>1. PICK a \in Addresses : TRUE
      BY BlocksAssumption
    <3>2. Supply(m) \in Int
      BY <2>3, SupplyChanges
    <3> QED
      BY <3>2
  <2>6. ASSUME NEW a \in Addresses, NEW t, NEW g, NEW s, NEW x, Booked(m, old, a, t, g, s, x)
        PROVE  Booked(m, old, a, t \/ MinedBy(uncles, a, 0), g + 0, s, x)
    <3>1. MinedBy(uncles, a, 0) = FALSE
      BY DEF MinedBy
    <3>2. g + 0 = g /\ t \in BOOLEAN
      BY <2>6 DEF Booked
    <3>3. (t \/ MinedBy(uncles, a, 0)) = t
      BY <3>1, <3>2
    <3> QED
      BY <2>6, <3>2, <3>3
  <2>7. UnclesBooked(root, c, uncles, 0, c)
    BY <2>2, <2>4, <2>5, <2>6 DEF UnclesBooked
  <2> QED
    BY <1>1, <1>3, <2>1, <2>7
<1>5. ASSUME NEW k \in 0 .. len - 1, k \in S
      PROVE  k + 1 \in S
  <2>1. k + 1 \in 1 .. len /\ (k + 1) - 1 = k /\ k + 1 \in 0 .. len
    BY <1>1, <1>3
  <2>2. f[k + 1] = RewardOne(root, f[k], uncles[k + 1])
    <3>1. f[k + 1] = RewardOne(root, f[(k + 1) - 1], uncles[k + 1])
      BY <1>2, <1>3, <2>1 DEF Rewarding
    <3> QED
      BY <2>1, <3>1
  <2>3. PICK d : d = f[k]
    OBVIOUS
  <2>4. UnclesBooked(root, c, uncles, k, d)
    BY <1>5, <2>3
  <2>5. UnclesBooked(root, c, uncles, k + 1, RewardOne(root, d, uncles[k + 1]))
    BY <1>3, <2>4, MoreUnclesBooked
  <2> QED
    BY <2>1, <2>2, <2>3, <2>5
<1>6. 0 .. len \subseteq S
  <2> HIDE DEF S
  <2> QED
    BY <1>1, <1>3, <1>4, <1>5, CountingUp
<1>7. len \in S
  <2> HIDE DEF S
  <2> QED
    BY <1>1, <1>3, <1>6
<1> QED
  BY <1>2, <1>3, <1>7

-----------------------------------------------------------------------------
(***************************************************************************)
(* What After says is what next does.                                      *)
(***************************************************************************)

Touched(b, a) == TouchedBy(b.txs, a, Len(b.txs)) \/ MinedBy(b.uncles, a, Len(b.uncles)) \/ a = b.miner
Got(b, a) ==
    SumOver(Gets(b.txs, a), 1 .. Len(b.txs)) + SumOver(RewardsTo(b.uncles, a), 1 .. Len(b.uncles))
    + (IF a = b.miner THEN MinerReward + SumOver(FeesOf(b.txs), 1 .. Len(b.txs)) ELSE 0)
Paidout(b, a) == SumOver(Spends(b.txs, a), 1 .. Len(b.txs))
Sent(b, a) == SumOver(Sends(b.txs, a), 1 .. Len(b.txs))

LEMMA WholeSum ==
    ASSUME NEW S, NEW f, f = [x \in S |-> f[x]]
    PROVE  SumFunction(f) = SumOver(f, S)
BY DEF SumOver

LEMMA AfterIs ==
    ASSUME NEW accounts, NEW b, NEW T, NEW U, b.txs \in Seq(T), b.uncles \in Seq(U)
    PROVE  After(accounts, b) =
             [a \in Addresses |-> Entry(accounts[a], Touched(b, a), Got(b, a), Paidout(b, a), Sent(b, a))]
<1>1. DOMAIN b.txs = 1 .. Len(b.txs) /\ DOMAIN b.uncles = 1 .. Len(b.uncles)
  OBVIOUS
<1>2. ASSUME NEW a
      PROVE  Total(b.txs, LAMBDA t : IF t.to = a THEN t.amount ELSE 0) = SumOver(Gets(b.txs, a), 1 .. Len(b.txs))
  <2>1. Total(b.txs, LAMBDA t : IF t.to = a THEN t.amount ELSE 0) = SumFunction(Gets(b.txs, a))
    BY DEF Total, Gets
  <2>2. SumOver(Gets(b.txs, a), 1 .. Len(b.txs)) = SumFunction(Gets(b.txs, a))
    BY <1>1 DEF SumOver, Gets
  <2> QED
    BY <2>1, <2>2
<1>3. ASSUME NEW a
      PROVE  Total(b.uncles, LAMBDA u : IF u.miner = a THEN UncleReward[u.delta] ELSE 0)
             = SumOver(RewardsTo(b.uncles, a), 1 .. Len(b.uncles))
  <2>1. Total(b.uncles, LAMBDA u : IF u.miner = a THEN UncleReward[u.delta] ELSE 0)
        = SumFunction(RewardsTo(b.uncles, a))
    BY DEF Total, RewardsTo, RewardOf
  <2>2. SumOver(RewardsTo(b.uncles, a), 1 .. Len(b.uncles)) = SumFunction(RewardsTo(b.uncles, a))
    BY <1>1 DEF SumOver, RewardsTo
  <2> QED
    BY <2>1, <2>2
<1>4. Total(b.txs, LAMBDA t : t.fee) = SumOver(FeesOf(b.txs), 1 .. Len(b.txs))
  <2>1. Total(b.txs, LAMBDA t : t.fee) = SumFunction(FeesOf(b.txs))
    BY DEF Total, FeesOf
  <2>2. SumOver(FeesOf(b.txs), 1 .. Len(b.txs)) = SumFunction(FeesOf(b.txs))
    BY <1>1 DEF SumOver, FeesOf
  <2> QED
    BY <2>1, <2>2
<1>5. ASSUME NEW a
      PROVE  Total(b.txs, LAMBDA t : IF t.from = a THEN t.amount + t.fee ELSE 0) = Paidout(b, a)
  <2>1. Total(b.txs, LAMBDA t : IF t.from = a THEN t.amount + t.fee ELSE 0) = SumFunction(Spends(b.txs, a))
    BY DEF Total, Spends
  <2>2. Paidout(b, a) = SumFunction(Spends(b.txs, a))
    BY <1>1 DEF SumOver, Spends, Paidout
  <2> QED
    BY <2>1, <2>2
<1>6. ASSUME NEW a
      PROVE  Total(b.txs, LAMBDA t : IF t.from = a THEN 1 ELSE 0) = Sent(b, a)
  <2>1. Total(b.txs, LAMBDA t : IF t.from = a THEN 1 ELSE 0) = SumFunction(Sends(b.txs, a))
    BY DEF Total, Sends
  <2>2. Sent(b, a) = SumFunction(Sends(b.txs, a))
    BY <1>1 DEF SumOver, Sends, Sent
  <2> QED
    BY <2>1, <2>2
<1>7. ASSUME NEW a
      PROVE  a \in {b.miner} \cup {u.miner : u \in Range(b.uncles)}
                   \cup {t.to : t \in Range(b.txs)} \cup {t.from : t \in Range(b.txs)}
             <=> Touched(b, a)
  <2>1. Range(b.txs) = {b.txs[i] : i \in 1 .. Len(b.txs)} /\ Range(b.uncles) = {b.uncles[i] : i \in 1 .. Len(b.uncles)}
    BY <1>1 DEF Range
  <2>2. a \in {u.miner : u \in Range(b.uncles)} <=> MinedBy(b.uncles, a, Len(b.uncles))
    BY <2>1 DEF MinedBy
  <2>3. a \in {t.to : t \in Range(b.txs)} \/ a \in {t.from : t \in Range(b.txs)} <=> TouchedBy(b.txs, a, Len(b.txs))
    BY <2>1 DEF TouchedBy
  <2> QED
    BY <2>2, <2>3 DEF Touched
<1>8. After(accounts, b) =
        [a \in Addresses |->
            IF accounts[a] = Absent /\ ~Touched(b, a) THEN Absent
            ELSE Account(OrNew(accounts[a]).balance
                         + (SumOver(Gets(b.txs, a), 1 .. Len(b.txs))
                            + SumOver(RewardsTo(b.uncles, a), 1 .. Len(b.uncles))
                            + IF b.miner = a THEN MinerReward + SumOver(FeesOf(b.txs), 1 .. Len(b.txs)) ELSE 0)
                         - Paidout(b, a),
                         OrNew(accounts[a]).nonce + Sent(b, a))]
  BY <1>2, <1>3, <1>4, <1>5, <1>6, <1>7 DEF After
<1> QED
  BY <1>8 DEF Entry, Got

Burnt(txs) == Total(txs, LAMBDA t : IF t.to = Nobody THEN t.amount ELSE 0)

LEMMA BurntIs ==
    ASSUME NEW txs \in Seq(Txs)
    PROVE  /\ Burnt(txs) = SumOver(BurnsOf(txs), 1 .. Len(txs))
           /\ Burnt(txs) \in Int /\ SumOver(FeesOf(txs), 1 .. Len(txs)) \in Int
<1>1. DOMAIN txs = 1 .. Len(txs) /\ Len(txs) \in Nat /\ \A i \in 1 .. Len(txs) : txs[i] \in Txs
  OBVIOUS
<1>2. Burnt(txs) = SumFunction(BurnsOf(txs))
  BY DEF Burnt, Total, BurnsOf, Burns
<1>3. SumOver(BurnsOf(txs), 1 .. Len(txs)) = SumFunction(BurnsOf(txs))
  BY <1>1 DEF SumOver, BurnsOf
<1>4. PICK f, g : f = BurnsOf(txs) /\ g = FeesOf(txs)
  OBVIOUS
<1>5. \A tx \in Txs : Burns(tx) \in Int /\ tx.fee \in Int
  BY DEF Burns, Txs
<1>6. \A i \in 1 .. Len(txs) : f[i] \in Int /\ g[i] \in Int
  BY <1>1, <1>4, <1>5 DEF BurnsOf, FeesOf
<1>7. IsFiniteSet(1 .. Len(txs))
  BY <1>1, FS_Interval
<1>8. PICK S : S = 1 .. Len(txs)
  OBVIOUS
<1>9. SumOver(f, S) \in Int /\ SumOver(g, S) \in Int
  <2>1. IsFiniteSet(S) /\ (\A x \in S : f[x] \in Int) /\ (\A x \in S : g[x] \in Int)
    BY <1>6, <1>7, <1>8
  <2>2. SumOver(f, S) \in Int
    BY <2>1, SumTakes
  <2>3. SumOver(g, S) \in Int
    BY <2>1, SumTakes
  <2> QED
    BY <2>2, <2>3
<1> QED
  BY <1>2, <1>3, <1>4, <1>8, <1>9

LEMMA RewardIs ==
    ASSUME NEW uncles \in Seq(Uncles)
    PROVE  /\ BlockReward(uncles) = MinerReward + SumOver(RewardsOf(uncles), 1 .. Len(uncles))
           /\ SumOver(RewardsOf(uncles), 1 .. Len(uncles)) \in Int
<1>1. DOMAIN uncles = 1 .. Len(uncles) /\ Len(uncles) \in Nat /\ \A i \in 1 .. Len(uncles) : uncles[i] \in Uncles
  OBVIOUS
<1>2. BlockReward(uncles) = MinerReward + SumFunction(RewardsOf(uncles))
  BY DEF BlockReward, RewardsOf, RewardOf
<1>3. SumOver(RewardsOf(uncles), 1 .. Len(uncles)) = SumFunction(RewardsOf(uncles))
  BY <1>1 DEF SumOver, RewardsOf
<1>4. PICK f : f = RewardsOf(uncles)
  OBVIOUS
<1>5. \A u \in Uncles : RewardOf(u) \in Int
  BY RewardAssumption DEF Uncles, RewardOf
<1>6. \A i \in 1 .. Len(uncles) : f[i] \in Int
  BY <1>1, <1>4, <1>5 DEF RewardsOf
<1>7. PICK S : S = 1 .. Len(uncles)
  OBVIOUS
<1>8. IsFiniteSet(S) /\ \A x \in S : f[x] \in Int
  BY <1>1, <1>6, <1>7, FS_Interval
<1>9. SumOver(f, S) \in Int
  BY <1>8, SumTakes
<1> QED
  BY <1>2, <1>3, <1>4, <1>7, <1>9

NextChanges(root, miner, txs, uncles) ==
    Paid(root, Rewarded(root, Processed(root, txs).changes, uncles), miner, Processed(root, txs).fees)

LEMMA NextStateIs ==
    ASSUME NEW root, NEW miner, NEW txs, NEW uncles
    PROVE  LET next == NextState(root, miner, txs, uncles)
               put == PutAccount(root, NextChanges(root, miner, txs, uncles)) IN
           next.root = put.hash /\ next.batch = put.batch /\ next.valid = Processed(root, txs).valid
<1>1. PICK put : put = PutAccount(root, NextChanges(root, miner, txs, uncles))
  OBVIOUS
<1>2. PICK p : p = Processed(root, txs)
  OBVIOUS
<1>3. NextState(root, miner, txs, uncles) =
        [root |-> put.hash, batch |-> put.batch, valid |-> p.valid, invalid |-> p.invalid]
  BY <1>1, <1>2 DEF NextState, AllRewarded, Outcome, NextChanges
<1> QED
  BY <1>1, <1>2, <1>3

\* The changes that next puts, before they are in a tree.
LEMMA ChangesBook ==
    ASSUME NEW root, Standing(root), NEW miner \in Addresses, NEW txs \in Seq(Txs), NEW uncles \in Seq(Uncles),
           NEW b, b.miner = miner, b.txs = txs, b.uncles = uncles, Len(Processed(root, txs).valid) = Len(txs)
    PROVE  LET r == NextChanges(root, miner, txs, uncles)
               old == Accounts(root) IN
           /\ r \in Maps /\ Known(r) # {}
           /\ Now(root, r) = After(old, b)
           /\ Supply(Now(root, r)) = Supply(old) + BlockReward(uncles) - Burnt(txs)
           /\ Supply(old) \in Int
<1>1. PICK c, x, d : /\ c = Processed(root, txs).changes /\ x = Processed(root, txs).fees
                     /\ d = Rewarded(root, c, uncles)
  OBVIOUS
<1>2. PICK r : r = Paid(root, d, miner, x)
  OBVIOUS
<1>3. PICK old, m, q, p : old = Accounts(root) /\ m = Now(root, c) /\ q = Now(root, d) /\ p = Pay(q, miner, x)
  OBVIOUS
<1>4. PICK l, k : l = Len(txs) /\ k = Len(uncles)
  OBVIOUS
<1>5. /\ c \in Maps
      /\ x = MinerReward + SumOver(FeesOf(txs), 1 .. l) /\ x \in Nat
      /\ Supply(m) = Supply(old) - SumOver(FeesOf(txs), 1 .. l) - SumOver(BurnsOf(txs), 1 .. l)
      /\ \A a \in Addresses :
            Booked(m, old, a, TouchedBy(txs, a, l), SumOver(Gets(txs, a), 1 .. l),
                   SumOver(Spends(txs, a), 1 .. l), SumOver(Sends(txs, a), 1 .. l))
  <2>1. TxsBooked(root, txs, l, c, x)
    BY <1>1, <1>4, ProcessedBooks
  <2> QED
    BY <1>3, <2>1 DEF TxsBooked
<1>6. /\ d \in Maps
      /\ Supply(q) = Supply(m) + SumOver(RewardsOf(uncles), 1 .. k)
      /\ \A a \in Addresses : \A t, g, s, y :
            Booked(m, old, a, t, g, s, y) =>
            Booked(q, old, a, t \/ MinedBy(uncles, a, k), g + SumOver(RewardsTo(uncles, a), 1 .. k), s, y)
  <2>1. UnclesBooked(root, c, uncles, k, d)
    BY <1>1, <1>4, <1>5, RewardedBooks
  <2> QED
    BY <1>3, <2>1 DEF UnclesBooked
<1>7. old \in Maps /\ m \in Maps /\ q \in Maps
  BY <1>3, <1>5, <1>6, AccountsAre, ModifiedIs DEF Standing
<1>8. r \in Maps /\ Now(root, r) = p /\ Known(r) # {}
  <2>1. d \in Maps /\ x \in Nat
    BY <1>5, <1>6
  <2>2. /\ Paid(root, d, miner, x) \in Maps
        /\ Now(root, Paid(root, d, miner, x)) = Pay(Now(root, d), miner, x)
        /\ Known(Paid(root, d, miner, x)) = Known(d) \cup {miner}
    BY <2>1, PaidIs
  <2> QED
    BY <1>2, <1>3, <2>2
<1>9. p \in Maps /\ Supply(p) = Supply(q) + x /\ Supply(q) \in Int
  BY <1>3, <1>5, <1>7, SupplyIs
<1>10. Supply(old) \in Int /\ Supply(m) \in Int
  BY <1>7, SupplyChanges
<1>11. Supply(p) = Supply(old) + BlockReward(uncles) - Burnt(txs)
  <2>1. PICK u, v, w : /\ u = SumOver(FeesOf(txs), 1 .. l) /\ v = SumOver(BurnsOf(txs), 1 .. l)
                       /\ w = SumOver(RewardsOf(uncles), 1 .. k)
    OBVIOUS
  <2>2. u \in Int /\ v \in Int /\ v = Burnt(txs)
    BY <1>4, <2>1, BurntIs
  <2>3. w \in Int /\ BlockReward(uncles) = MinerReward + w /\ MinerReward \in Int
    BY <1>4, <2>1, RewardIs, RewardAssumption
  <2>4. Supply(m) = Supply(old) - u - v /\ Supply(q) = Supply(m) + w /\ x = MinerReward + u
    BY <1>5, <1>6, <2>1
  <2>5. PICK e, f, g, h, i, j : /\ e = Supply(old) /\ f = Supply(m) /\ g = Supply(q) /\ h = Supply(p)
                                /\ i = BlockReward(uncles) /\ j = Burnt(txs)
    OBVIOUS
  <2>6. /\ e \in Int /\ u \in Int /\ v \in Int /\ w \in Int /\ MinerReward \in Int
        /\ f = e - u - v /\ g = f + w /\ x = MinerReward + u /\ h = g + x /\ i = MinerReward + w /\ j = v
    BY <1>9, <1>10, <2>2, <2>3, <2>4, <2>5
  <2>7. h = e + i - j
    BY <2>6
  <2> QED
    BY <2>5, <2>7
<1>12. ASSUME NEW a \in Addresses
       PROVE  p[a] = Entry(old[a], Touched(b, a), Got(b, a), Paidout(b, a), Sent(b, a))
  <2>1. PICK t, g, s, y : /\ t = TouchedBy(txs, a, l) /\ g = SumOver(Gets(txs, a), 1 .. l)
                          /\ s = SumOver(Spends(txs, a), 1 .. l) /\ y = SumOver(Sends(txs, a), 1 .. l)
    OBVIOUS
  <2>2. Booked(m, old, a, t, g, s, y)
    BY <1>5, <2>1
  <2>3. PICK h, z : h = SumOver(RewardsTo(uncles, a), 1 .. k) /\ z = (t \/ MinedBy(uncles, a, k))
    OBVIOUS
  <2>4. Booked(q, old, a, z, g + h, s, y)
    BY <1>6, <2>2, <2>3
  <2>5. Booked(p, old, a, z \/ a = miner, g + h + (IF a = miner THEN x ELSE 0), s, y)
    BY <1>3, <1>5, <1>7, <2>4, BookedPay
  <2>6. p[a] = Entry(old[a], z \/ a = miner, g + h + (IF a = miner THEN x ELSE 0), s, y)
    BY <2>5 DEF Booked
  <2>7. Touched(b, a) = (z \/ a = miner)
    BY <1>4, <2>1, <2>3 DEF Touched
  <2>8. Got(b, a) = g + h + (IF a = miner THEN x ELSE 0)
    BY <1>4, <1>5, <2>1, <2>3 DEF Got
  <2>9. Paidout(b, a) = s /\ Sent(b, a) = y
    BY <1>4, <2>1 DEF Paidout, Sent
  <2> QED
    BY <2>6, <2>7, <2>8, <2>9
<1>13. p = After(old, b)
  <2>1. PICK e : e = After(old, b)
    OBVIOUS
  <2>2. e = [a \in Addresses |-> Entry(old[a], Touched(b, a), Got(b, a), Paidout(b, a), Sent(b, a))]
    BY <2>1, AfterIs
  <2>3. \A a \in Addresses : p[a] = e[a]
    BY <1>12, <2>2
  <2>4. p = [a \in Addresses |-> p[a]]
    BY <1>9 DEF Maps
  <2>5. DOMAIN p = Addresses /\ DOMAIN e = Addresses
    BY <2>2, <2>4
  <2>6. e = [a \in Addresses |-> e[a]]
    BY <2>2
  <2> QED
    BY <2>1, <2>3, <2>4, <2>6
<1>14. r = NextChanges(root, miner, txs, uncles)
  BY <1>1, <1>2 DEF NextChanges
<1> QED
  BY <1>3, <1>8, <1>10, <1>11, <1>13, <1>14

LEMMA NextBooks ==
    ASSUME NEW root, Whole(root), root # Absent, NEW miner \in Addresses,
           NEW txs \in Seq(Txs), NEW uncles \in Seq(Uncles),
           NEW b, b.miner = miner, b.txs = txs, b.uncles = uncles,
           Len(NextState(root, miner, txs, uncles).valid) = Len(txs)
    PROVE  LET next == NextState(root, miner, txs, uncles) IN
           /\ Whole(next.root) /\ next.root # Absent
           /\ Below(next.root) \subseteq {e.value : e \in next.batch} \cup Below(root)
           /\ Accounts(next.root) = After(Accounts(root), b)
           /\ Supply(Accounts(next.root)) = Supply(Accounts(root)) + BlockReward(uncles) - Burnt(txs)
           /\ Supply(Accounts(root)) \in Int
<1>1. PICK r : r = NextChanges(root, miner, txs, uncles)
  OBVIOUS
<1>2. PICK put : put = PutAccount(root, r)
  OBVIOUS
<1>3. PICK next : next = NextState(root, miner, txs, uncles)
  OBVIOUS
<1>4. next.root = put.hash /\ next.batch = put.batch /\ next.valid = Processed(root, txs).valid
  BY <1>1, <1>2, <1>3, NextStateIs
<1>5. Standing(root) /\ Len(Processed(root, txs).valid) = Len(txs)
  BY <1>3, <1>4 DEF Standing
<1>6. /\ r \in Maps /\ Known(r) # {}
      /\ Now(root, r) = After(Accounts(root), b)
      /\ Supply(Now(root, r)) = Supply(Accounts(root)) + BlockReward(uncles) - Burnt(txs)
      /\ Supply(Accounts(root)) \in Int
  BY <1>1, <1>5, ChangesBook
<1>7. /\ Whole(put.hash) /\ put.hash # Absent
      /\ Below(put.hash) \subseteq {e.value : e \in put.batch} \cup (Below(root) \ {Absent})
      /\ Accounts(put.hash) = [a \in Addresses |-> IF r[a] # Absent THEN r[a] ELSE Accounts(root)[a]]
  BY <1>2, <1>6, PutAccountIs
<1>8. Accounts(put.hash) = Now(root, r)
  BY <1>7 DEF Now
<1> QED
  BY <1>3, <1>4, <1>6, <1>7, <1>8

-----------------------------------------------------------------------------
(***************************************************************************)
(* What holds of the blocks recorded, of the one being put and of the      *)
(* candidate: every block fits its parent, and what its tree refers to is  *)
(* stored, or in the batch that is written before it is recorded.          *)
(***************************************************************************)

OfExodus(b) ==
    /\ b.exodus \in Maps
    /\ Accounts(b.root) = b.exodus
    /\ b.totalSupply = Supply(Accounts(b.root))

OfParent(b, p) ==
    /\ Accounts(b.root) = After(Accounts(p.root), b)
    /\ \E reward, burnt \in Int :
          /\ burnt = Burnt(b.txs)
          /\ Supply(Accounts(b.root)) = Supply(Accounts(p.root)) + reward - burnt
          /\ b.totalSupply = p.totalSupply + reward

\* b goes after the first k blocks of s, one of which is its parent.
Fits(b, s, k) ==
    /\ Whole(b.root) /\ b.root # Absent
    /\ b.totalSupply \in Int /\ Supply(Accounts(b.root)) \in Int
    /\ \/ b.parent = 0 /\ OfExodus(b)
       \/ b.parent # 0 /\ b.parent \in 1 .. k /\ OfParent(b, s[b.parent])

Job(step, batch, b) == [step |-> step, batch |-> batch, block |-> b]
Values(batch) == {e.value : e \in batch}

JobFits ==
    \E batch, b :
        /\ \/ job = Job("computed", batch, b) /\ Below(b.root) \subseteq Values(batch) \cup DOMAIN accountDB
           \/ job = Job("written", batch, b) /\ Below(b.root) \subseteq DOMAIN accountDB
        /\ Fits(b, blocks, Len(blocks))

CandidateFits ==
    /\ candidate.parent \in DOMAIN blocks /\ candidate.miner \in Addresses
    /\ candidate.txs \in Seq(Txs) /\ candidate.uncles \in Seq(Uncles)

BlocksFit ==
    \A i \in DOMAIN blocks :
        Fits(blocks[i], blocks, i - 1) /\ Below(blocks[i].root) \subseteq DOMAIN accountDB

WorldInv ==
    /\ IsList(blocks)
    /\ BlocksFit
    /\ job = None \/ JobFits
    /\ candidate = None \/ CandidateFits

LEMMA FitsStill ==
    ASSUME NEW b, NEW s, NEW r, NEW k \in Nat, NEW l \in Nat, Fits(b, s, k), k <= l, \A i \in 1 .. k : r[i] = s[i]
    PROVE  Fits(b, r, l)
<1>1. CASE b.parent = 0
  BY <1>1 DEF Fits
<1>2. CASE b.parent # 0
  <2>1. b.parent \in 1 .. k /\ OfParent(b, s[b.parent])
    BY <1>2 DEF Fits
  <2>2. b.parent \in 1 .. l /\ r[b.parent] = s[b.parent]
    BY <2>1
  <2> QED
    BY <1>2, <2>1, <2>2 DEF Fits
<1> QED
  BY <1>1, <1>2

LEMMA WorldInitially == Init => WorldInv
<1> SUFFICES ASSUME Init PROVE WorldInv
  OBVIOUS
<1>1. blocks \in Seq({}) /\ DOMAIN blocks = {} /\ candidate = None /\ job = None
  BY DEF Init
<1> QED
  BY <1>1 DEF WorldInv, IsList, BlocksFit

LEMMA ListLength == ASSUME IsList(blocks) PROVE DOMAIN blocks = 1 .. Len(blocks) /\ Len(blocks) \in Nat
BY DEF IsList

LEMMA InitializeFits ==
    ASSUME WorldInv, Initialize
    PROVE  WorldInv'
<1>1. PICK accounts \in Exodus :
        LET put == PutAccount(Absent, accounts)
        IN  job' = [step |-> "computed", batch |-> put.batch,
                      block |-> [parent |-> 0, exodus |-> accounts, root |-> put.hash,
                                 totalSupply |-> Supply(accounts)]]
  BY DEF Initialize
<1>2. PICK put : put = PutAccount(Absent, accounts)
  OBVIOUS
<1>3. PICK b : b = [parent |-> 0, exodus |-> accounts, root |-> put.hash, totalSupply |-> Supply(accounts)]
  OBVIOUS
<1>4. job' = Job("computed", put.batch, b)
  BY <1>1, <1>2, <1>3 DEF Job
<1>5. accounts \in Maps /\ \E a, c \in Known(accounts) : a # c
  BY BlocksAssumption
<1>6. /\ Whole(put.hash) /\ put.hash # Absent
      /\ Below(put.hash) \subseteq {e.value : e \in put.batch} \cup (Below(Absent) \ {Absent})
      /\ Accounts(put.hash) = [a \in Addresses |-> IF accounts[a] # Absent THEN accounts[a]
                                                   ELSE Accounts(Absent)[a]]
  <2>1. Known(accounts) # {}
    BY <1>5
  <2> QED
    BY <1>2, <1>5, <2>1, PutAccountIs
<1>7. Accounts(put.hash) = accounts
  <2>1. \A a \in Addresses : Accounts(Absent)[a] = Absent
    BY NothingThere DEF Accounts
  <2>2. \A a \in Addresses : Accounts(put.hash)[a] = accounts[a]
    BY <1>6, <2>1
  <2>3. Accounts(put.hash) \in Maps
    BY <1>6, AccountsAre
  <2> QED
    BY <1>5, <2>2, <2>3, MapsEqual
<1>8. Below(put.hash) \subseteq Values(put.batch)
  <2>1. Below(Absent) \subseteq {Absent}
    <3>1. PICK e : e = Root(Absent)
      OBVIOUS
    <3>2. e.value = Absent /\ ~IsNode(Absent)
      BY <3>1, ValuesAre DEF Root, At
    <3>3. PICK D : D = {e}
      OBVIOUS
    <3>4. Complete(D)
      BY <3>2, <3>3 DEF Complete
    <3>5. Reached(e) \subseteq D
      BY <3>3, <3>4, ReachesNoMore
    <3> QED
      BY <3>1, <3>2, <3>3, <3>5 DEF Below
  <2> QED
    BY <1>6, <2>1 DEF Values
<1>9. Supply(accounts) \in Int
  BY <1>5, SupplyChanges DEF Known
<1>10. b.parent = 0 /\ b.exodus = accounts /\ b.root = put.hash /\ b.totalSupply = Supply(accounts)
  BY <1>3
<1>11. Fits(b, blocks, Len(blocks))
  BY <1>5, <1>6, <1>7, <1>9, <1>10 DEF Fits, OfExodus
<1>12. UNCHANGED <<accountDB, blocks, candidate>>
  BY DEF Initialize
<1>13. JobFits'
  <2>1. Below(b.root) \subseteq Values(put.batch) \cup DOMAIN accountDB
    BY <1>8, <1>10
  <2> QED
    BY <1>4, <1>11, <1>12, <2>1 DEF JobFits
<1> QED
  BY <1>12, <1>13 DEF WorldInv, BlocksFit, CandidateFits, IsList

LEMMA ProcessFits ==
    ASSUME WorldInv, NEW parent \in DOMAIN blocks, NEW miner \in Addresses,
           NEW txs \in Seq(Txs), NEW uncles \in Seq(Uncles), NEW root,
           ProcessBlock(parent, miner, txs, uncles, root), UNCHANGED <<accountDB, blocks>>
    PROVE  JobFits'
<1>1. PICK next : next = NextState(blocks[parent].root, miner, txs, uncles)
  OBVIOUS
<1>2. PICK p : p = blocks[parent]
  OBVIOUS
<1>3. PICK b : b = [parent |-> parent, miner |-> miner, txs |-> txs, uncles |-> uncles,
                    root |-> next.root, totalSupply |-> p.totalSupply + BlockReward(uncles)]
  OBVIOUS
<1>4. job' = Job("computed", next.batch, b) /\ Len(next.valid) = Len(txs)
  BY <1>1, <1>2, <1>3 DEF ProcessBlock, Job
<1>5. b.parent = parent /\ b.miner = miner /\ b.txs = txs /\ b.uncles = uncles /\ b.root = next.root
      /\ b.totalSupply = p.totalSupply + BlockReward(uncles)
  BY <1>3
<1>6. DOMAIN blocks = 1 .. Len(blocks) /\ Len(blocks) \in Nat
  BY ListLength DEF WorldInv
<1>7. Fits(p, blocks, parent - 1) /\ Below(p.root) \subseteq DOMAIN accountDB
  BY <1>2 DEF WorldInv, BlocksFit
<1>8. Whole(p.root) /\ p.root # Absent /\ p.totalSupply \in Int
  BY <1>7 DEF Fits
<1>9. /\ Whole(next.root) /\ next.root # Absent
      /\ Below(next.root) \subseteq Values(next.batch) \cup Below(p.root)
      /\ Accounts(next.root) = After(Accounts(p.root), b)
      /\ Supply(Accounts(next.root)) = Supply(Accounts(p.root)) + BlockReward(uncles) - Burnt(txs)
      /\ Supply(Accounts(p.root)) \in Int
  BY <1>1, <1>2, <1>4, <1>5, <1>8, NextBooks DEF Values
<1>10. PICK reward, burnt \in Int : reward = BlockReward(uncles) /\ burnt = Burnt(txs)
  <2>1. BlockReward(uncles) \in Int
    BY RewardIs, RewardAssumption
  <2>2. Burnt(txs) \in Int
    BY BurntIs
  <2> QED
    BY <2>1, <2>2
<1>11. OfParent(b, p)
  BY <1>5, <1>9, <1>10 DEF OfParent
<1>12. b.totalSupply \in Int /\ Supply(Accounts(b.root)) \in Int
  BY <1>5, <1>8, <1>9, <1>10
<1>13. Fits(b, blocks, Len(blocks))
  BY <1>2, <1>5, <1>6, <1>9, <1>11, <1>12 DEF Fits
<1>14. Below(b.root) \subseteq Values(next.batch) \cup DOMAIN accountDB
  BY <1>5, <1>7, <1>9
<1> QED
  BY <1>4, <1>13, <1>14 DEF JobFits

LEMMA PutBlockFits ==
    ASSUME WorldInv, PutBlock
    PROVE  WorldInv'
<1>1. PICK parent \in DOMAIN blocks, miner \in Miners, txs \in Offers, uncles \in UncleLists :
          ProcessBlock(parent, miner, txs, uncles, NextState(blocks[parent].root, miner, txs, uncles).root)
  BY DEF PutBlock
<1>2. miner \in Addresses /\ txs \in Seq(Txs) /\ uncles \in Seq(Uncles)
  BY BlocksAssumption
<1>3. UNCHANGED <<accountDB, blocks, candidate>>
  BY DEF PutBlock
<1>4. JobFits'
  BY <1>1, <1>2, <1>3, ProcessFits
<1> QED
  BY <1>3, <1>4 DEF WorldInv, BlocksFit, CandidateFits, IsList

LEMMA CreateCandidateFits ==
    ASSUME WorldInv, CreateCandidate
    PROVE  WorldInv'
<1>1. PICK parent \in DOMAIN blocks, txs \in Pools, uncles \in UncleLists :
          LET next == NextState(blocks[parent].root, Self, txs, uncles)
          IN  candidate' = [step |-> "mined", parent |-> parent, miner |-> Self, txs |-> next.valid,
                            uncles |-> uncles, root |-> next.root]
  BY DEF CreateCandidate
<1>2. PICK root, valid : root = blocks[parent].root /\ valid = Processed(root, txs).valid
  OBVIOUS
<1>3. PICK next : next = NextState(root, Self, txs, uncles)
  OBVIOUS
<1>4. candidate' = [step |-> "mined", parent |-> parent, miner |-> Self, txs |-> next.valid,
                            uncles |-> uncles, root |-> next.root]
  BY <1>1, <1>2, <1>3
<1>5. next.valid = valid
  BY <1>2, <1>3, NextStateIs
<1>6. valid \in Seq(Txs)
  <2>1. txs \in Seq(Txs)
    BY BlocksAssumption
  <2>2. PICK c, f, i : \E v \in Seq(Txs) :
              Processed(root, txs) = Sorted(c, f, v, i) /\ Processed(root, v) = Sorted(c, f, v, <<>>)
    BY <2>1, WhatPassesPassesAgain
  <2>3. PICK v \in Seq(Txs) : Processed(root, txs) = Sorted(c, f, v, i)
    BY <2>2
  <2>4. Sorted(c, f, v, i).valid = v
    BY DEF Sorted
  <2> QED
    BY <1>2, <2>3, <2>4
<1>7. UNCHANGED <<accountDB, blocks, job>>
  BY DEF CreateCandidate
<1>8. uncles \in Seq(Uncles) /\ Self \in Addresses
  BY BlocksAssumption
<1>9. candidate'.parent = parent /\ candidate'.miner = Self /\ candidate'.txs = valid /\ candidate'.uncles = uncles
  BY <1>4, <1>5
<1>10. CandidateFits'
  BY <1>6, <1>7, <1>8, <1>9 DEF CandidateFits
<1> QED
  BY <1>7, <1>10 DEF WorldInv, BlocksFit, JobFits, IsList

LEMMA PutCandidateFits ==
    ASSUME WorldInv, PutCandidate
    PROVE  WorldInv'
<1>1. candidate # None /\ candidate' = None /\ UNCHANGED <<accountDB, blocks>>
  BY DEF PutCandidate
<1>2. CandidateFits
  BY <1>1 DEF WorldInv
<1>3. ProcessBlock(candidate.parent, candidate.miner, candidate.txs, candidate.uncles, candidate.root)
  BY DEF PutCandidate
<1>4. JobFits'
  BY <1>1, <1>2, <1>3, ProcessFits DEF CandidateFits
<1> QED
  BY <1>1, <1>4 DEF WorldInv, BlocksFit, IsList

LEMMA WriteAccountsFits ==
    ASSUME WorldInv, WriteAccounts
    PROVE  WorldInv'
<1>1. job.step = "computed" /\ accountDB' = PutPending(job.batch) /\ job' = [job EXCEPT !.step = "written"]
      /\ UNCHANGED <<blocks, candidate>>
  BY DEF WriteAccounts
<1>2. job # None
  BY <1>1 DEF None
<1>3. JobFits
  BY <1>2 DEF WorldInv
<1>4. PICK batch, b :
        /\ \/ job = Job("computed", batch, b) /\ Below(b.root) \subseteq Values(batch) \cup DOMAIN accountDB
           \/ job = Job("written", batch, b) /\ Below(b.root) \subseteq DOMAIN accountDB
        /\ Fits(b, blocks, Len(blocks))
  BY <1>3 DEF JobFits
<1>5. job = Job("computed", batch, b) /\ Below(b.root) \subseteq Values(batch) \cup DOMAIN accountDB
  BY <1>1, <1>4 DEF Job
<1>6. job' = Job("written", batch, b) /\ job.batch = batch
  BY <1>1, <1>5 DEF Job
<1>7. DOMAIN accountDB' = Values(batch) \cup DOMAIN accountDB
  BY <1>1, <1>6 DEF PutPending, Values
<1>8. JobFits'
  BY <1>1, <1>4, <1>5, <1>6, <1>7 DEF JobFits
<1>9. BlocksFit'
  <2>1. \A i \in DOMAIN blocks :
           Fits(blocks[i], blocks, i - 1) /\ Below(blocks[i].root) \subseteq DOMAIN accountDB'
    BY <1>7 DEF WorldInv, BlocksFit
  <2> QED
    BY <1>1, <2>1 DEF BlocksFit
<1> QED
  BY <1>1, <1>8, <1>9 DEF WorldInv, CandidateFits, IsList

LEMMA RecordBlockFits ==
    ASSUME WorldInv, RecordBlock
    PROVE  WorldInv'
<1>1. job.step = "written" /\ blocks' = Append(blocks, job.block) /\ job' = None
      /\ UNCHANGED <<accountDB, candidate>>
  BY DEF RecordBlock
<1>2. job # None
  BY <1>1 DEF None
<1>3. JobFits
  BY <1>2 DEF WorldInv
<1>4. PICK batch, b :
        /\ \/ job = Job("computed", batch, b) /\ Below(b.root) \subseteq Values(batch) \cup DOMAIN accountDB
           \/ job = Job("written", batch, b) /\ Below(b.root) \subseteq DOMAIN accountDB
        /\ Fits(b, blocks, Len(blocks))
  BY <1>3 DEF JobFits
<1>5. job = Job("written", batch, b) /\ Below(b.root) \subseteq DOMAIN accountDB
  BY <1>1, <1>4 DEF Job
<1>6. job.block = b
  BY <1>5 DEF Job
<1>7. blocks' = Append(blocks, b) /\ IsList(blocks)
  BY <1>1, <1>6 DEF WorldInv
<1>8. /\ IsList(blocks)'
      /\ DOMAIN blocks' = 1 .. Len(blocks) + 1 /\ DOMAIN blocks = 1 .. Len(blocks) /\ Len(blocks) \in Nat
      /\ blocks'[Len(blocks) + 1] = b
      /\ \A i \in DOMAIN blocks : blocks'[i] = blocks[i]
  BY <1>7, BlocksAppended
<1>9. PICK len, s : len = Len(blocks) /\ s = blocks'
  OBVIOUS
<1>10. BlocksFit'
  <2>1. ASSUME NEW i \in 1 .. len + 1
        PROVE  Fits(s[i], s, i - 1) /\ Below(s[i].root) \subseteq DOMAIN accountDB
    <3>1. CASE i \in 1 .. len
      <4>1. Fits(blocks[i], blocks, i - 1) /\ Below(blocks[i].root) \subseteq DOMAIN accountDB /\ s[i] = blocks[i]
        BY <1>8, <1>9, <3>1 DEF WorldInv, BlocksFit
      <4>2. i - 1 \in Nat /\ \A j \in 1 .. i - 1 : s[j] = blocks[j]
        BY <1>8, <1>9, <3>1
      <4>3. Fits(blocks[i], s, i - 1)
        BY <4>1, <4>2, FitsStill
      <4> QED
        BY <4>1, <4>3
    <3>2. CASE i = len + 1
      <4>1. s[i] = b /\ i - 1 = len /\ len \in Nat /\ \A j \in 1 .. len : s[j] = blocks[j]
        BY <1>8, <1>9, <3>2
      <4>2. Fits(b, blocks, len)
        BY <1>4, <1>9
      <4>3. Fits(b, s, len)
        BY <4>1, <4>2, FitsStill
      <4> QED
        BY <1>5, <4>1, <4>3
    <3> QED
      BY <1>8, <1>9, <3>1, <3>2
  <2>2. DOMAIN s = 1 .. len + 1
    BY <1>8, <1>9
  <2> QED
    BY <1>1, <1>9, <2>1, <2>2 DEF BlocksFit
<1>11. candidate' = None \/ CandidateFits'
  <2>1. DOMAIN blocks \subseteq DOMAIN blocks'
    BY <1>8
  <2> QED
    BY <1>1, <2>1 DEF WorldInv, CandidateFits
<1> QED
  BY <1>1, <1>8, <1>10, <1>11 DEF WorldInv

LEMMA WorldStep == WorldInv /\ [Next]_vars => WorldInv'
<1> SUFFICES ASSUME WorldInv, [Next]_vars PROVE WorldInv'
  OBVIOUS
<1>1. CASE Initialize
  BY <1>1, InitializeFits
<1>2. CASE PutBlock
  BY <1>2, PutBlockFits
<1>3. CASE CreateCandidate
  BY <1>3, CreateCandidateFits
<1>4. CASE PutCandidate
  BY <1>4, PutCandidateFits
<1>5. CASE WriteAccounts
  BY <1>5, WriteAccountsFits
<1>6. CASE RecordBlock
  BY <1>6, RecordBlockFits
<1>7. CASE Crash
  BY <1>7 DEF Crash, WorldInv, BlocksFit, IsList
<1>8. CASE UNCHANGED vars
  BY <1>8 DEF vars, WorldInv, BlocksFit, JobFits, CandidateFits, IsList
<1> QED
  BY <1>1, <1>2, <1>3, <1>4, <1>5, <1>6, <1>7, <1>8 DEF Next

\* Whatever the tree of a recorded block refers to is stored, whichever blocks, candidates
\* and crashes came between putPending and the record of the block, and for however many
\* (WorldState.putPending, Consensus.processBlock and putBlock).
THEOREM WorldNothingIsMissing == Spec => []NothingIsMissing
<1>1. WorldInv => NothingIsMissing
  <2> SUFFICES ASSUME WorldInv, NEW b \in Range(blocks) PROVE Below(b.root) \subseteq DOMAIN accountDB
    BY DEF NothingIsMissing
  <2>1. PICK i \in DOMAIN blocks : b = blocks[i]
    BY DEF Range
  <2> QED
    BY <2>1 DEF WorldInv, BlocksFit
<1> QED
  BY <1>1, WorldInitially, WorldStep, PTL DEF Spec

-----------------------------------------------------------------------------
(***************************************************************************)
(* The ledger, which is defined from parent to child.                      *)
(***************************************************************************)

LEMMA LedgerIs ==
    ASSUME WorldInv
    PROVE  \A i \in DOMAIN blocks : Ledger[i] = Accounts(blocks[i].root)
<1> DEFINE S == DOMAIN blocks
           Body(f) == [i \in S |-> IF blocks[i].parent = 0 THEN blocks[i].exodus
                                   ELSE After(f[blocks[i].parent], blocks[i])]
           ledger == CHOOSE f : f = Body(f)
<1>1. PICK len : len = Len(blocks)
  OBVIOUS
<1>2. S = 1 .. len /\ len \in Nat
  BY <1>1, ListLength DEF WorldInv
<1>3. PICK g : g = [i \in S |-> Accounts(blocks[i].root)]
  OBVIOUS
<1>4. ASSUME NEW i \in S
      PROVE  IF blocks[i].parent = 0 THEN Accounts(blocks[i].root) = blocks[i].exodus
             ELSE /\ blocks[i].parent \in 1 .. i - 1 /\ blocks[i].parent \in S
                  /\ Accounts(blocks[i].root) = After(Accounts(blocks[blocks[i].parent].root), blocks[i])
  <2>1. Fits(blocks[i], blocks, i - 1)
    BY DEF WorldInv, BlocksFit
  <2>2. CASE blocks[i].parent = 0
    BY <2>1, <2>2 DEF Fits, OfExodus
  <2>3. CASE blocks[i].parent # 0
    <3>1. blocks[i].parent \in 1 .. i - 1 /\ OfParent(blocks[i], blocks[blocks[i].parent])
      BY <2>1, <2>3 DEF Fits
    <3>2. blocks[i].parent \in S
      BY <1>2, <3>1
    <3> QED
      BY <2>3, <3>1, <3>2 DEF OfParent
  <2> QED
    BY <2>2, <2>3
<1>5. g = Body(g)
  BY <1>3, <1>4
<1>6. ledger = Body(ledger)
  BY <1>5
<1>7. Ledger = ledger
  BY DEF Ledger
<1> HIDE DEF ledger
<1>8. \A i \in S : ledger[i] = IF blocks[i].parent = 0 THEN blocks[i].exodus
                               ELSE After(ledger[blocks[i].parent], blocks[i])
  BY <1>6
<1> DEFINE K == {k \in 0 .. len : \A i \in 1 .. k : ledger[i] = g[i]}
<1>9. 0 \in K
  BY <1>2
<1>10. ASSUME NEW k \in 0 .. len - 1, k \in K
       PROVE  k + 1 \in K
  <2>1. PICK i : i = k + 1
    OBVIOUS
  <2>2. i \in S /\ i - 1 = k
    BY <1>2, <2>1
  <2>3. ledger[i] = g[i]
    <3>1. CASE blocks[i].parent = 0
      BY <1>3, <1>4, <1>8, <2>2, <3>1
    <3>2. CASE blocks[i].parent # 0
      <4>1. PICK p : p = blocks[i].parent
        OBVIOUS
      <4>2. p \in 1 .. k /\ p \in S /\ Accounts(blocks[i].root) = After(Accounts(blocks[p].root), blocks[i])
        BY <1>4, <2>2, <3>2, <4>1
      <4>3. ledger[p] = Accounts(blocks[p].root)
        BY <1>3, <1>10, <4>2
      <4> QED
        BY <1>3, <1>8, <2>2, <3>2, <4>1, <4>2, <4>3
    <3> QED
      BY <3>1, <3>2
  <2>4. \A j \in 1 .. k + 1 : j \in 1 .. k \/ j = i
    BY <2>1
  <2> QED
    BY <1>2, <1>10, <2>3, <2>4
<1>11. 0 .. len \subseteq K
  <2> HIDE DEF K
  <2> QED
    BY <1>2, <1>9, <1>10, CountingUp
<1>12. \A i \in 1 .. len : ledger[i] = g[i]
  BY <1>2, <1>11
<1> QED
  BY <1>2, <1>3, <1>7, <1>12

\* The state root of a recorded block holds what the transactions and rewards of its chain
\* add up to, for any addresses, amounts and lists of transactions: next, which goes through
\* them one by one, and putAccount, which goes down the tree byte by byte, come to the same
\* as sums that know of neither (WorldState.next, putAccount, getAccount).
THEOREM WorldRootsFollowLedger == Spec => []RootsFollowLedger
<1>1. WorldInv => RootsFollowLedger
  <2> SUFFICES ASSUME WorldInv, NEW i \in DOMAIN blocks
               PROVE  Accounts(blocks[i].root) = Ledger[i] /\ Canonical(blocks[i].root)
    BY DEF RootsFollowLedger
  <2>1. Whole(blocks[i].root)
    BY DEF WorldInv, BlocksFit, Fits
  <2> QED
    BY <2>1, LedgerIs, WholeIsCanonical
<1> QED
  BY <1>1, WorldInitially, WorldStep, PTL DEF Spec

\* Equal accounts have equal roots: two chains that come to the same accounts, whatever the
\* order and the tree they went through, have the same state root, so that a node that gets
\* there another way accepts the block (WorldState.putAccount, Consensus.processBlock).
THEOREM SameAccountsSameRoot ==
    Spec => [](\A i, j \in DOMAIN blocks : Ledger[i] = Ledger[j] => blocks[i].root = blocks[j].root)
<1>1. WorldInv => \A i, j \in DOMAIN blocks : Ledger[i] = Ledger[j] => blocks[i].root = blocks[j].root
  <2> SUFFICES ASSUME WorldInv, NEW i \in DOMAIN blocks, NEW j \in DOMAIN blocks, Ledger[i] = Ledger[j]
               PROVE  blocks[i].root = blocks[j].root
    OBVIOUS
  <2>1. Whole(blocks[i].root) /\ Whole(blocks[j].root)
    BY DEF WorldInv, BlocksFit, Fits
  <2>2. Accounts(blocks[i].root) = Accounts(blocks[j].root)
    BY LedgerIs
  <2> QED
    BY <2>1, <2>2, OneTree
<1> QED
  BY <1>1, WorldInitially, WorldStep, PTL DEF Spec

LEMMA BurnedIs ==
    ASSUME WorldInv
    PROVE  \A i \in DOMAIN blocks :
               blocks[i].totalSupply = Supply(Accounts(blocks[i].root)) + Burned[i]
<1> DEFINE S == DOMAIN blocks
           Body(f) == [i \in S |-> IF blocks[i].parent = 0 THEN 0
                                   ELSE f[blocks[i].parent] + Burnt(blocks[i].txs)]
           burned == CHOOSE f : f = Body(f)
           Held(i) == Supply(Accounts(blocks[i].root))
           Gone(i) == blocks[i].totalSupply - Held(i)
<1>1. PICK len : len = Len(blocks)
  OBVIOUS
<1>2. S = 1 .. len /\ len \in Nat
  BY <1>1, ListLength DEF WorldInv
<1>3. PICK g : g = [i \in S |-> Gone(i)]
  OBVIOUS
<1>4. ASSUME NEW i \in S
      PROVE  Held(i) \in Int /\ blocks[i].totalSupply \in Int
  BY DEF WorldInv, BlocksFit, Fits
<1>5. ASSUME NEW i \in S
      PROVE  IF blocks[i].parent = 0 THEN Gone(i) = 0
             ELSE /\ blocks[i].parent \in 1 .. i - 1 /\ blocks[i].parent \in S
                  /\ Gone(i) = Gone(blocks[i].parent) + Burnt(blocks[i].txs)
  <2>1. Fits(blocks[i], blocks, i - 1)
    BY DEF WorldInv, BlocksFit
  <2>2. CASE blocks[i].parent = 0
    <3>1. blocks[i].totalSupply = Held(i)
      BY <2>1, <2>2 DEF Fits, OfExodus
    <3> QED
      BY <1>4, <2>2, <3>1
  <2>3. CASE blocks[i].parent # 0
    <3>1. PICK p : p = blocks[i].parent
      OBVIOUS
    <3>2. p \in 1 .. i - 1 /\ OfParent(blocks[i], blocks[p])
      BY <2>1, <2>3, <3>1 DEF Fits
    <3>3. p \in S
      BY <1>2, <3>2
    <3>4. PICK reward, burnt \in Int :
            /\ burnt = Burnt(blocks[i].txs)
            /\ Held(i) = Held(p) + reward - burnt
            /\ blocks[i].totalSupply = blocks[p].totalSupply + reward
      BY <3>2 DEF OfParent
    <3>5. Gone(i) = Gone(p) + burnt
      <4> HIDE DEF Held
      <4> QED
        BY <1>4, <3>3, <3>4
    <3> QED
      BY <2>3, <3>1, <3>2, <3>3, <3>4, <3>5
  <2> QED
    BY <2>2, <2>3
<1> HIDE DEF Gone
<1>6. g = Body(g)
  BY <1>3, <1>5
<1>7. burned = Body(burned)
  BY <1>6
<1>8. Burned = burned
  BY DEF Burned, Burnt
<1> HIDE DEF burned
<1>9. \A i \in S : burned[i] = IF blocks[i].parent = 0 THEN 0
                               ELSE burned[blocks[i].parent] + Burnt(blocks[i].txs)
  BY <1>7
<1> DEFINE K == {k \in 0 .. len : \A i \in 1 .. k : burned[i] = g[i]}
<1>10. 0 \in K
  BY <1>2
<1>11. ASSUME NEW k \in 0 .. len - 1, k \in K
       PROVE  k + 1 \in K
  <2>1. PICK i : i = k + 1
    OBVIOUS
  <2>2. i \in S /\ i - 1 = k
    BY <1>2, <2>1
  <2>3. burned[i] = g[i]
    <3>1. CASE blocks[i].parent = 0
      BY <1>3, <1>5, <1>9, <2>2, <3>1
    <3>2. CASE blocks[i].parent # 0
      <4>1. PICK p : p = blocks[i].parent
        OBVIOUS
      <4>2. p \in 1 .. k /\ p \in S /\ Gone(i) = Gone(p) + Burnt(blocks[i].txs)
        BY <1>5, <2>2, <3>2, <4>1
      <4>3. burned[p] = Gone(p)
        BY <1>3, <1>11, <4>2
      <4> QED
        BY <1>3, <1>9, <2>2, <3>2, <4>1, <4>2, <4>3
    <3> QED
      BY <3>1, <3>2
  <2>4. \A j \in 1 .. k + 1 : j \in 1 .. k \/ j = i
    BY <2>1
  <2> QED
    BY <1>2, <1>11, <2>3, <2>4
<1>12. 0 .. len \subseteq K
  <2> HIDE DEF K
  <2> QED
    BY <1>2, <1>10, <1>11, CountingUp
<1>13. ASSUME NEW i \in S
       PROVE  blocks[i].totalSupply = Held(i) + Burned[i]
  <2>1. len \in K
    BY <1>2, <1>12
  <2>2. Burned[i] = Gone(i)
    BY <1>2, <1>3, <1>8, <2>1
  <2> HIDE DEF Held
  <2> QED
    BY <1>4, <2>2 DEF Gone
<1> QED
  BY <1>13

\* The supply that Consensus adds up block by block from calculateBlockReward is what the
\* accounts under the root hold, and what was burned: putAccount loses no account and next
\* makes no money (Consensus.processBlock, WorldState.next).
THEOREM WorldSupplyIsKept == Spec => []SupplyIsKept
<1>1. WorldInv => SupplyIsKept
  BY BurnedIs DEF SupplyIsKept
<1> QED
  BY <1>1, WorldInitially, WorldStep, PTL DEF Spec

-----------------------------------------------------------------------------
(***************************************************************************)
(* The file of the blocks and the keys that say where it goes on.  A block *)
(* that is being put is beyond all recorded ones, and so is the place where *)
(* the keys make the file go on after a crash.  Zeros still to be written  *)
(* begin at the end of a block, never in one, and not beyond the position. *)
(***************************************************************************)

Marks == (Nat \X Nat) \cup {Hole} \cup {Zero(k) : k \in Nat}
PlaceType == [file : Nat, from : Nat, to : Nat]

FilesTypeOK ==
    /\ IsList(blocks) /\ places \in Seq(PlaceType) /\ Len(places) = Len(blocks)
    /\ crashes \in Nat
    /\ files \in [DOMAIN files -> Seq(Marks)]
    /\ fileNumberKey \in Nat /\ filePositionKey \in Nat
    /\ n \in Nat /\ filePosition \in Nat
    /\ place \in PlaceType
    /\ zeros \subseteq [file : Nat, from : Nat]
    /\ writing \in {"no", "number", "position", "done"}

\* What is in file f from position on is not a block's.
Beyond(f, position) ==
    \A i \in DOMAIN places :
        places[i].file < f \/ (places[i].file = f /\ places[i].to <= position)

\* Zeros that come over p begin no later than p.
Beside(z, p) == z.file = p.file => p.to <= z.from \/ z.from <= p.from

ZerosInv ==
    \A z \in zeros :
        /\ z.file \in DOMAIN files /\ z.file <= n
        /\ z.file = n => z.from <= filePosition
        /\ \A i \in DOMAIN places : Beside(z, places[i])
        /\ writing # "no" => Beside(z, place)

FilesInv ==
    /\ FilesTypeOK
    /\ ZerosInv
    /\ n \in DOMAIN files
    /\ Beyond(fileNumberKey, filePositionKey)
    /\ OnlyLateZerosHarm
    /\ writing \in {"no", "done"} => n = fileNumberKey /\ filePosition = filePositionKey
    /\ writing = "number" => n = fileNumberKey + 1
    /\ writing = "position" => n = fileNumberKey
    /\ writing # "no" => /\ place.file = n /\ place.to = filePosition /\ place.from <= place.to
                         /\ Beyond(place.file, place.from)
                         /\ HoldsButForZeros(place, Unit)

\* What may stand where p was written.
MayStand(p, unit, mark) == mark = unit \/ \E from \in 0 .. p.from : mark = Zero(from)

LEMMA WrittenHolds ==
    \A c \in Seq(Marks), from, length \in Nat, unit \in Marks :
        LET w == Written(c, from, length, unit)
        IN  /\ w \in Seq(Marks) /\ Len(w) >= Len(c) /\ Len(w) >= from + length
            /\ \A i \in from + 1 .. from + length : w[i] = unit
<1> TAKE c \in Seq(Marks), from, length \in Nat, unit \in Marks
<1> DEFINE m == IF Len(c) > from + length THEN Len(c) ELSE from + length
           w == Written(c, from, length, unit)
<1>1. m \in Nat /\ Len(c) \in Nat /\ m >= Len(c) /\ m >= from + length
  OBVIOUS
<1>2. w = [i \in 1 .. m |-> IF i \in from + 1 .. from + length THEN unit
                            ELSE IF i <= Len(c) THEN c[i] ELSE Hole]
  BY DEF Written
<1>3. \A i \in 1 .. Len(c) : c[i] \in Marks
  OBVIOUS
<1>4. Hole \in Marks
  BY DEF Marks
<1>5. w \in [1 .. m -> Marks]
  BY <1>2, <1>3, <1>4, <1>1
<1> HIDE DEF m
<1>6. w \in Seq(Marks) /\ Len(w) = m
  BY <1>1, <1>5
<1>7. \A i \in from + 1 .. from + length : w[i] = unit
  BY <1>1, <1>2
<1> QED
  BY <1>1, <1>6, <1>7

LEMMA WrittenKeeps ==
    \A c \in Seq(Marks), from, length \in Nat, unit \in Marks :
        \A i \in 1 .. Len(c) : i <= from => Written(c, from, length, unit)[i] = c[i]
<1> TAKE c \in Seq(Marks), from, length \in Nat, unit \in Marks
<1> TAKE i \in 1 .. Len(c)
<1> QED
  BY DEF Written

\* A write beyond what is recorded leaves the recorded blocks as they are.
LEMMA PutAtKeeps ==
    ASSUME FilesInv, writing = "no", UNCHANGED <<vars, places>>,
           NEW f \in Nat, NEW c \in Seq(Marks), NEW from \in Nat, NEW length \in Nat,
           PutAt(f, c, from, length), Unit \in Marks,
           Beyond(f, from), f \in {n, n + 1}, f = n => from = filePosition,
           zeros' \subseteq zeros \cup {[file |-> f, from |-> from]},
           Len(c) >= Len(Contents(f)), Len(c) >= from + length,
           \A i \in from + 1 .. from + length : c[i] = Unit,
           \A i \in 1 .. Len(Contents(f)) : i <= from => c[i] = Contents(f)[i]
    PROVE  FilesInv'
<1> USE DEF FilesInv
<1>1. FilesTypeOK
  OBVIOUS
<1>2. /\ n' = f /\ files' = Holding(f, c) /\ filePosition' = from + length
      /\ place' = [file |-> f, from |-> from, to |-> from + length]
      /\ writing' = (IF f # fileNumberKey THEN "number" ELSE "position")
      /\ fileNumberKey' = fileNumberKey /\ filePositionKey' = filePositionKey
      /\ places' = places /\ blocks' = blocks /\ crashes' = crashes
  BY DEF PutAt, vars
<1>3. files' = [k \in DOMAIN files \cup {f} |-> IF k = f THEN c ELSE files[k]]
  BY <1>2 DEF Holding
<1>4. files' \in [DOMAIN files' -> Seq(Marks)] /\ f \in DOMAIN files'
  BY <1>1, <1>3 DEF FilesTypeOK
<1>5. FilesTypeOK'
  <2>1. zeros' \subseteq [file : Nat, from : Nat]
    BY <1>1 DEF FilesTypeOK
  <2> QED
    BY <1>1, <1>2, <1>4, <2>1 DEF FilesTypeOK, PlaceType
<1>6. Beyond(fileNumberKey, filePositionKey)' /\ Beyond(f, from)'
  BY <1>2 DEF Beyond
<1>7. Contents(f)' = c /\ files'[f] = c
  BY <1>3 DEF Contents
<1>8. Unit' = Unit
  BY <1>2 DEF Unit
<1>9. HoldsButForZeros(place, Unit)'
  BY <1>2, <1>7, <1>8 DEF HoldsButForZeros
<1>10. ASSUME NEW i \in DOMAIN places, NEW u, HoldsButForZeros(places[i], u)
       PROVE  HoldsButForZeros(places[i], u)'
  <2> DEFINE p == places[i]
  <2>1. p \in PlaceType
    BY <1>1 DEF FilesTypeOK
  <2>2. /\ p.to <= Len(Contents(p.file))
        /\ \A j \in p.from + 1 .. p.to : MayStand(p, u, files[p.file][j])
    BY <1>10 DEF HoldsButForZeros, MayStand
  <2>3. p.file # f \/ p.to <= from
    BY <2>1 DEF Beyond, PlaceType
  <2>4. CASE p.file # f
    <3>1. Contents(p.file)' = Contents(p.file)
      BY <1>3, <2>4 DEF Contents
    <3>2. CASE p.file \in DOMAIN files
      <4>1. files'[p.file] = files[p.file]
        BY <1>3, <2>4, <3>2
      <4> QED
        BY <1>2, <2>2, <3>1, <4>1 DEF HoldsButForZeros, MayStand
    <3>3. CASE p.file \notin DOMAIN files
      <4>1. p.to = 0
        BY <2>1, <2>2, <3>3 DEF Contents, PlaceType
      <4> QED
        BY <1>2, <2>1, <2>2, <3>1, <4>1 DEF HoldsButForZeros, PlaceType
    <3> QED
      BY <3>2, <3>3
  <2>5. CASE p.file = f /\ p.to <= from
    <3>1. Contents(f) \in Seq(Marks) /\ Len(Contents(f)) \in Nat
      <4>1. CASE f \in DOMAIN files
        BY <1>1, <4>1 DEF FilesTypeOK, Contents
      <4>2. CASE f \notin DOMAIN files
        BY <4>2 DEF Contents
      <4> QED
        BY <4>1, <4>2
    <3>2. p.to <= Len(c)
      BY <2>1, <2>2, <2>5, <3>1 DEF PlaceType
    <3>3. ASSUME NEW j \in p.from + 1 .. p.to
          PROVE  MayStand(p, u, files'[f][j])
      <4>1. j \in 1 .. Len(Contents(f)) /\ j <= from
        BY <2>1, <2>2, <2>5, <3>1 DEF PlaceType
      <4>2. MayStand(p, u, Contents(f)[j])
        BY <2>2, <2>5, <4>1 DEF Contents
      <4> QED
        BY <1>7, <4>1, <4>2
    <3> QED
      BY <1>2, <1>7, <2>5, <3>2, <3>3 DEF HoldsButForZeros, MayStand
  <2> QED
    BY <2>3, <2>4, <2>5
<1>11. OnlyLateZerosHarm'
  BY <1>2, <1>10 DEF OnlyLateZerosHarm
<1>12. /\ writing' = "position" => n' = fileNumberKey'
       /\ writing' = "number" => n' = fileNumberKey' + 1
  BY <1>2
<1>13. writing' # "no" /\ writing' # "done"
  BY <1>2
<1>14. place'.file = n' /\ place'.to = filePosition' /\ place'.from <= place'.to
       /\ Beyond(place.file, place.from)'
  BY <1>2, <1>6 DEF Beyond
<1>15. ZerosInv'
  <2> SUFFICES ASSUME NEW z \in zeros'
               PROVE  /\ z.file \in DOMAIN files' /\ z.file <= n'
                      /\ z.file = n' => z.from <= filePosition'
                      /\ \A i \in DOMAIN places : Beside(z, places[i])
                      /\ Beside(z, place')
    BY <1>2 DEF ZerosInv, Beside
  <2>1. n \in Nat /\ filePosition \in Nat
    BY <1>1 DEF FilesTypeOK
  <2>2. CASE z \in zeros
    <3>1. z.file \in Nat /\ z.from \in Nat
      BY <1>1, <2>2 DEF FilesTypeOK
    <3>2. /\ z.file \in DOMAIN files /\ z.file <= n
          /\ z.file = n => z.from <= filePosition
          /\ \A i \in DOMAIN places : Beside(z, places[i])
      BY <2>2 DEF ZerosInv
    <3>3. z.file = f => f = n /\ z.from <= from
      BY <2>1, <3>1, <3>2
    <3>4. Beside(z, place')
      BY <1>2, <3>3 DEF Beside
    <3>5. z.file <= f
      BY <2>1, <3>1, <3>2
    <3>6. z.file = f => z.from <= from + length
      BY <3>1, <3>3
    <3> QED
      BY <1>2, <1>3, <3>2, <3>4, <3>5, <3>6
  <2>3. CASE z = [file |-> f, from |-> from]
    <3>1. ASSUME NEW i \in DOMAIN places
          PROVE  Beside(z, places[i])
      <4>1. z.file = f /\ z.from = from
        BY <2>3
      <4>2. places[i].file \in Nat
        <5>1. places[i] \in PlaceType
          BY <1>1 DEF FilesTypeOK
        <5> QED
          BY <5>1 DEF PlaceType
      <4>3. places[i].file < f \/ (places[i].file = f /\ places[i].to <= from)
        BY DEF Beyond
      <4>4. z.file = places[i].file => places[i].to <= z.from
        BY <4>1, <4>2, <4>3
      <4> QED
        BY <4>4 DEF Beside
    <3>2. Beside(z, place')
      BY <1>2, <2>3 DEF Beside
    <3> QED
      BY <1>2, <1>4, <2>3, <3>1, <3>2
  <2> QED
    BY <2>2, <2>3
<1> QED
  BY <1>2, <1>4, <1>5, <1>6, <1>9, <1>11, <1>12, <1>13, <1>14, <1>15

LEMMA PutFiles ==
    ASSUME FilesInv, Put(Unit), UNCHANGED <<vars, places>>
    PROVE  FilesInv'
<1>1. FilesTypeOK /\ n \in DOMAIN files
  BY DEF FilesInv
<1>2. PICK length \in Lengths :
         PutInRoom(length, Unit) \/ PutExpanding(length, Unit) \/ PutInNextFile(length, Unit)
  BY DEF Put
<1>3. writing = "no" /\ n = fileNumberKey /\ filePosition = filePositionKey
  BY DEF Put, FilesInv
<1>4. length \in Nat /\ length <= Expansion /\ Expansion \in Nat
  BY FileAssumption
<1>5. Unit \in Marks
  <2>1. PICK S : blocks \in Seq(S)
    BY <1>1 DEF FilesTypeOK, IsList
  <2>2. Len(blocks) \in Nat
    BY <2>1
  <2> QED
    BY <1>1, <2>2 DEF Unit, Marks, FilesTypeOK
<1>6. n \in Nat /\ filePosition \in Nat /\ files[n] = Contents(n) /\ Contents(n) \in Seq(Marks)
  BY <1>1 DEF FilesTypeOK, Contents
<1>7. Beyond(n, filePosition)
  BY <1>3 DEF FilesInv
<1>8. CASE PutInRoom(length, Unit)
  <2> DEFINE c == Written(Contents(n), filePosition, length, Unit)
  <2>1. PutAt(n, c, filePosition, length) /\ zeros' = zeros
    BY <1>6, <1>8 DEF PutInRoom
  <2>2. /\ c \in Seq(Marks)
        /\ Len(c) >= Len(Contents(n)) /\ Len(c) >= filePosition + length
        /\ \A i \in filePosition + 1 .. filePosition + length : c[i] = Unit
    BY <1>4, <1>5, <1>6, WrittenHolds
  <2>3. \A i \in 1 .. Len(Contents(n)) : i <= filePosition => c[i] = Contents(n)[i]
    BY <1>4, <1>5, <1>6, WrittenKeeps
  <2> HIDE DEF c
  <2> QED
    BY <1>3, <1>4, <1>5, <1>6, <1>7, <2>1, <2>2, <2>3, PutAtKeeps
<1>9. CASE PutExpanding(length, Unit)
  <2> DEFINE z == Zeroed(Contents(n), filePosition)
             early == Written(z, filePosition, length, Unit)
             c == Written(Contents(n), filePosition, length, Unit)
             mine == [file |-> n, from |-> filePosition]
  <2>1. \/ PutAt(n, early, filePosition, length) /\ zeros' = zeros
        \/ PutAt(n, c, filePosition, length) /\ zeros' = zeros \cup {mine}
    BY <1>6, <1>9 DEF PutExpanding
  <2>2. Zero(filePosition) \in Marks
    BY <1>6 DEF Marks
  <2>3. z \in Seq(Marks) /\ Len(z) >= Len(Contents(n))
    BY <1>4, <1>6, <2>2, WrittenHolds DEF Zeroed
  <2>4. \A i \in 1 .. Len(Contents(n)) : i <= filePosition => z[i] = Contents(n)[i]
    BY <1>4, <1>6, <2>2, WrittenKeeps DEF Zeroed
  <2> HIDE DEF z
  <2>5. /\ early \in Seq(Marks)
        /\ Len(early) >= Len(z) /\ Len(early) >= filePosition + length
        /\ \A i \in filePosition + 1 .. filePosition + length : early[i] = Unit
    BY <1>4, <1>5, <1>6, <2>3, WrittenHolds
  <2>6. \A i \in 1 .. Len(z) : i <= filePosition => early[i] = z[i]
    BY <1>4, <1>5, <1>6, <2>3, WrittenKeeps
  <2>7. /\ c \in Seq(Marks)
        /\ Len(c) >= Len(Contents(n)) /\ Len(c) >= filePosition + length
        /\ \A i \in filePosition + 1 .. filePosition + length : c[i] = Unit
    BY <1>4, <1>5, <1>6, WrittenHolds
  <2>8. \A i \in 1 .. Len(Contents(n)) : i <= filePosition => c[i] = Contents(n)[i]
    BY <1>4, <1>5, <1>6, WrittenKeeps
  <2> HIDE DEF early, c
  <2>9. /\ Len(early) >= Len(Contents(n))
        /\ \A i \in 1 .. Len(Contents(n)) : i <= filePosition => early[i] = Contents(n)[i]
    BY <1>6, <2>3, <2>4, <2>5, <2>6
  <2>10. CASE PutAt(n, early, filePosition, length) /\ zeros' = zeros
    BY <1>3, <1>4, <1>5, <1>6, <1>7, <2>5, <2>9, <2>10, PutAtKeeps
  <2>11. CASE PutAt(n, c, filePosition, length) /\ zeros' = zeros \cup {mine}
    BY <1>3, <1>4, <1>5, <1>6, <1>7, <2>7, <2>8, <2>11, PutAtKeeps
  <2> QED
    BY <2>1, <2>10, <2>11
<1>10. CASE PutInNextFile(length, Unit)
  <2> DEFINE c == Written(Contents(n + 1), 0, length, Unit)
  <2>1. PutAt(n + 1, c, 0, length) /\ zeros' = zeros
    BY <1>10 DEF PutInNextFile
  <2>2. Contents(n + 1) \in Seq(Marks)
    <3>1. CASE n + 1 \in DOMAIN files
      BY <1>1, <3>1 DEF FilesTypeOK, Contents
    <3>2. CASE n + 1 \notin DOMAIN files
      BY <3>2 DEF Contents
    <3> QED
      BY <3>1, <3>2
  <2>3. /\ c \in Seq(Marks)
        /\ Len(c) >= Len(Contents(n + 1)) /\ Len(c) >= 0 + length
        /\ \A i \in 0 + 1 .. 0 + length : c[i] = Unit
    BY <1>4, <1>5, <2>2, WrittenHolds
  <2>6. \A i \in 1 .. Len(Contents(n + 1)) : i <= 0 => c[i] = Contents(n + 1)[i]
    BY <2>2
  <2> HIDE DEF c
  <2>4. Beyond(n + 1, 0)
    <3>1. \A i \in DOMAIN places : places[i] \in PlaceType
      BY <1>1 DEF FilesTypeOK
    <3> QED
      BY <1>6, <1>7, <3>1 DEF Beyond, PlaceType
  <2>5. n + 1 \in Nat
    BY <1>6
  <2> QED
    BY <1>3, <1>4, <1>5, <2>1, <2>3, <2>4, <2>5, <2>6, PutAtKeeps
<1> QED
  BY <1>2, <1>8, <1>9, <1>10

\* Zeros that land after the blocks they are on are the only harm done to any.
LEMMA ZerosStep ==
    ASSUME FilesInv, ZerosLand, UNCHANGED <<vars, places>>
    PROVE  FilesInv'
<1>1. PICK z \in zeros :
        /\ files' = [k \in DOMAIN files \cup {z.file} |->
                        IF k = z.file THEN Zeroed(Contents(z.file), z.from) ELSE files[k]]
        /\ zeros' = zeros \ {z}
        /\ UNCHANGED <<fileNumberKey, filePositionKey, n, filePosition, writing, place, blocks, crashes, places>>
  BY DEF ZerosLand, Holding, handle, vars
<1>2. FilesTypeOK /\ ZerosInv
  BY DEF FilesInv
<1>3. z.file \in DOMAIN files /\ z.from \in Nat /\ Contents(z.file) = files[z.file] /\ files[z.file] \in Seq(Marks)
  BY <1>1, <1>2 DEF FilesTypeOK, ZerosInv, Contents
<1> DEFINE c == Zeroed(files[z.file], z.from)
<1>4. Expansion \in Nat /\ Zero(z.from) \in Marks
  BY <1>3, FileAssumption DEF Marks
<1>5. /\ c \in Seq(Marks) /\ Len(c) >= Len(files[z.file])
      /\ \A i \in z.from + 1 .. z.from + Expansion : c[i] = Zero(z.from)
  BY <1>3, <1>4, WrittenHolds DEF Zeroed
<1>6. \A i \in 1 .. Len(files[z.file]) :
        c[i] = files[z.file][i] \/ (z.from < i /\ c[i] = Zero(z.from))
  <2> TAKE i \in 1 .. Len(files[z.file])
  <2>1. CASE i <= z.from
    BY <1>3, <1>4, <2>1, WrittenKeeps DEF Zeroed
  <2>2. CASE i \in z.from + 1 .. z.from + Expansion
    BY <1>3, <1>5, <2>2
  <2>3. CASE i > z.from + Expansion
    BY <1>3, <1>4, <2>3 DEF Zeroed, Written
  <2> QED
    BY <1>3, <1>4, <2>1, <2>2, <2>3
<1>7. /\ files' = [files EXCEPT ![z.file] = c] /\ DOMAIN files' = DOMAIN files
  BY <1>1, <1>2, <1>3 DEF FilesTypeOK
<1> HIDE DEF c
<1>8. files' \in [DOMAIN files' -> Seq(Marks)]
  BY <1>2, <1>5, <1>7 DEF FilesTypeOK
<1>9. FilesTypeOK'
  BY <1>1, <1>2, <1>8 DEF FilesTypeOK
<1>10. ASSUME NEW p \in PlaceType, NEW u, Beside(z, p), HoldsButForZeros(p, u)
       PROVE  HoldsButForZeros(p, u)'
  <2>1. /\ p.to <= Len(Contents(p.file)) /\ p.from \in Nat /\ p.to \in Nat
        /\ \A j \in p.from + 1 .. p.to : MayStand(p, u, files[p.file][j])
    BY <1>10 DEF HoldsButForZeros, MayStand, PlaceType
  <2>2. CASE p.file # z.file
    <3>1. Contents(p.file)' = Contents(p.file)
      BY <1>2, <1>7, <2>2 DEF Contents, FilesTypeOK
    <3>2. CASE p.file \in DOMAIN files
      <4>1. files'[p.file] = files[p.file]
        BY <1>2, <1>7, <2>2, <3>2 DEF FilesTypeOK
      <4> QED
        BY <2>1, <3>1, <4>1 DEF HoldsButForZeros, MayStand
    <3>3. CASE p.file \notin DOMAIN files
      <4>1. p.to = 0
        BY <2>1, <3>3 DEF Contents
      <4> QED
        BY <2>1, <3>1, <4>1 DEF HoldsButForZeros
    <3> QED
      BY <3>2, <3>3
  <2>3. CASE p.file = z.file
    <3>1. Contents(p.file)' = c /\ files'[p.file] = c /\ Contents(p.file) = files[z.file]
      BY <1>2, <1>3, <1>7, <2>3 DEF Contents, FilesTypeOK
    <3>2. p.to <= Len(c)
      BY <1>3, <1>5, <2>1, <3>1
    <3>3. ASSUME NEW j \in p.from + 1 .. p.to
          PROVE  MayStand(p, u, c[j])
      <4>1. j \in 1 .. Len(files[z.file])
        BY <1>3, <2>1, <3>1
      <4>2. CASE c[j] = files[z.file][j]
        BY <2>1, <2>3, <4>2
      <4>3. CASE z.from < j /\ c[j] = Zero(z.from)
        <5>1. z.from <= p.from
          BY <1>3, <1>10, <2>1, <2>3, <4>3 DEF Beside
        <5> QED
          BY <1>3, <2>1, <4>3, <5>1 DEF MayStand
      <4> QED
        BY <1>6, <4>1, <4>2, <4>3
    <3> QED
      BY <3>1, <3>2, <3>3 DEF HoldsButForZeros, MayStand
  <2> QED
    BY <2>2, <2>3
<1>11. OnlyLateZerosHarm'
  <2>1. \A i \in DOMAIN places : places[i] \in PlaceType /\ Beside(z, places[i])
    BY <1>1, <1>2 DEF FilesTypeOK, ZerosInv
  <2> QED
    BY <1>1, <1>10, <2>1 DEF FilesInv, OnlyLateZerosHarm
<1>12. ZerosInv'
  BY <1>1, <1>2, <1>7 DEF ZerosInv, Beside
<1>13. \A f, p : Beyond(f, p)' <=> Beyond(f, p)
  BY <1>1 DEF Beyond
<1>14. Unit' = Unit
  BY <1>1 DEF Unit
<1>15. writing # "no" => HoldsButForZeros(place, Unit)'
  <2>1. place \in PlaceType /\ writing # "no" => Beside(z, place)
    BY <1>1, <1>2 DEF FilesTypeOK, ZerosInv
  <2> QED
    BY <1>1, <1>2, <1>10, <1>14, <2>1 DEF FilesInv, FilesTypeOK
<1>16. /\ n' \in DOMAIN files' /\ Beyond(fileNumberKey, filePositionKey)'
       /\ writing' \in {"no", "done"} => n' = fileNumberKey' /\ filePosition' = filePositionKey'
       /\ writing' = "number" => n' = fileNumberKey' + 1
       /\ writing' = "position" => n' = fileNumberKey'
       /\ writing' # "no" => /\ place'.file = n' /\ place'.to = filePosition' /\ place'.from <= place'.to
                             /\ Beyond(place.file, place.from)'
  BY <1>1, <1>7, <1>13 DEF FilesInv
<1> QED
  BY <1>1, <1>9, <1>11, <1>12, <1>14, <1>15, <1>16 DEF FilesInv

LEMMA FilesInitially == RecordInit => FilesInv
<1> SUFFICES ASSUME RecordInit PROVE FilesInv
  OBVIOUS
<1> USE DEF RecordInit, Init, FilesInit
<1>1. blocks = <<>> /\ places = <<>> /\ <<>> \in Seq(PlaceType) /\ Len(places) = 0 /\ Len(blocks) = 0
  OBVIOUS
<1>2. IsList(blocks)
  <2>1. blocks \in Seq({})
    BY <1>1
  <2> QED
    BY <2>1 DEF IsList
<1>3. files \in [DOMAIN files -> Seq(Marks)] /\ n \in DOMAIN files
  <2>1. files = [f \in {0} |-> <<>>] /\ <<>> \in Seq(Marks)
    OBVIOUS
  <2> QED
    BY <2>1
<1>4. FilesTypeOK
  BY <1>1, <1>2, <1>3 DEF FilesTypeOK, PlaceType, NoPlace
<1>5. OnlyLateZerosHarm /\ Beyond(fileNumberKey, filePositionKey) /\ ZerosInv
  BY <1>1 DEF OnlyLateZerosHarm, Beyond, ZerosInv
<1> QED
  BY <1>3, <1>4, <1>5 DEF FilesInv

\* The two keys follow the file, and a block is recorded at the place it was put.
LEMMA KeysStep ==
    ASSUME FilesInv, PutFileNumber \/ PutFilePosition, UNCHANGED <<vars, places>>
    PROVE  FilesInv'
<1>1. /\ UNCHANGED <<files, n, filePosition, zeros, place, blocks, crashes, places>>
      /\ writing \in {"number", "position"}
      /\ writing = "number" => fileNumberKey' = n /\ filePositionKey' = filePositionKey /\ writing' = "position"
      /\ writing = "position" => filePositionKey' = filePosition /\ fileNumberKey' = fileNumberKey /\ writing' = "done"
  BY DEF PutFileNumber, PutFilePosition, handle, vars
<1>2. FilesTypeOK
  BY DEF FilesInv
<1>3. FilesTypeOK'
  BY <1>1, <1>2 DEF FilesTypeOK
<1>4. place \in PlaceType /\ \A i \in DOMAIN places : places[i] \in PlaceType
  BY <1>2 DEF FilesTypeOK
<1>5. /\ place.file = n /\ place.to = filePosition /\ place.from <= place.to
      /\ Beyond(place.file, place.from) /\ HoldsButForZeros(place, Unit)
  BY <1>1 DEF FilesInv
<1>6. \A f, p : Beyond(f, p)' <=> Beyond(f, p)
  BY <1>1 DEF Beyond
<1>7. \A p, u : HoldsButForZeros(p, u)' <=> HoldsButForZeros(p, u)
  BY <1>1 DEF HoldsButForZeros, Contents
<1>8. OnlyLateZerosHarm'
  BY <1>1, <1>7 DEF FilesInv, OnlyLateZerosHarm
<1>9. Unit' = Unit
  BY <1>1 DEF Unit
<1>10. Beyond(fileNumberKey, filePositionKey)'
  <2>1. CASE writing = "number"
    <3>1. n = fileNumberKey + 1 /\ fileNumberKey \in Nat /\ Beyond(fileNumberKey, filePositionKey)
      BY <1>2, <2>1 DEF FilesInv, FilesTypeOK
    <3>3. ASSUME NEW i \in DOMAIN places
          PROVE  places[i].file < n \/ (places[i].file = n /\ places[i].to <= filePositionKey)
      <4>1. places[i].file < fileNumberKey \/ places[i].file = fileNumberKey
        BY <3>1 DEF Beyond
      <4> QED
        BY <1>4, <3>1, <4>1 DEF PlaceType
    <3> QED
      BY <1>1, <2>1, <3>3 DEF Beyond
  <2>2. CASE writing = "position"
    <3>1. n = fileNumberKey
      BY <2>2 DEF FilesInv
    <3> QED
      BY <1>1, <1>2, <1>4, <1>5, <2>2, <3>1 DEF Beyond, PlaceType, FilesTypeOK
  <2> QED
    BY <1>1, <2>1, <2>2
<1>11. /\ writing' \in {"no", "done"} => n' = fileNumberKey' /\ filePosition' = filePositionKey'
       /\ writing' = "position" => n' = fileNumberKey'
       /\ writing' = "number" => n' = fileNumberKey' + 1
       /\ n' \in DOMAIN files'
  BY <1>1 DEF FilesInv
<1>12. /\ place'.file = n' /\ place'.to = filePosition' /\ place'.from <= place'.to
       /\ Beyond(place.file, place.from)' /\ HoldsButForZeros(place, Unit)'
  BY <1>1, <1>5, <1>6, <1>7, <1>9
<1>13. ZerosInv'
  BY <1>1 DEF FilesInv, ZerosInv, Beside
<1> QED
  BY <1>3, <1>8, <1>10, <1>11, <1>12, <1>13 DEF FilesInv

LEMMA RecordStep ==
    ASSUME FilesInv, Record
    PROVE  FilesInv'
<1>1. /\ writing = "done" /\ blocks' = Append(blocks, job.block) /\ places' = Append(places, place)
      /\ writing' = "no" /\ place' = NoPlace
      /\ UNCHANGED <<files, fileNumberKey, filePositionKey, n, filePosition, zeros, crashes>>
  BY DEF Record, Filed, RecordBlock, handle
<1>2. FilesTypeOK
  BY DEF FilesInv
<1>3. PICK S : blocks \in Seq(S)
  BY <1>2 DEF FilesTypeOK, IsList
<1>4. blocks' \in Seq(S \cup {job.block}) /\ Len(blocks') = Len(blocks) + 1 /\ Len(blocks) \in Nat
  <2> DEFINE B == S \cup {job.block}
  <2>1. blocks \in Seq(B) /\ job.block \in B
    BY <1>3
  <2> HIDE DEF B
  <2>2. Append(blocks, job.block) \in Seq(B) /\ Len(Append(blocks, job.block)) = Len(blocks) + 1
    BY <2>1
  <2> QED
    BY <1>1, <1>3, <2>2 DEF B
<1>5. IsList(blocks)'
  BY <1>4 DEF IsList
<1>6. /\ places \in Seq(PlaceType) /\ Len(places) = Len(blocks) /\ place \in PlaceType /\ crashes \in Nat
  BY <1>2 DEF FilesTypeOK
<1>7. /\ places' \in Seq(PlaceType) /\ Len(places') = Len(places) + 1
      /\ \A i \in DOMAIN places : places'[i] = places[i]
      /\ places'[Len(places) + 1] = place
      /\ \A i \in DOMAIN places' : i \in DOMAIN places \/ i = Len(places) + 1
  BY <1>1, <1>6
<1>8. FilesTypeOK'
  BY <1>1, <1>2, <1>4, <1>5, <1>6, <1>7 DEF FilesTypeOK, NoPlace, PlaceType
<1>9. /\ place.file = n /\ place.to = filePosition /\ n = fileNumberKey /\ filePosition = filePositionKey
      /\ HoldsButForZeros(place, Unit) /\ Beyond(fileNumberKey, filePositionKey) /\ n \in DOMAIN files
      /\ OnlyLateZerosHarm
  BY <1>1 DEF FilesInv
<1>10. \A p, u : HoldsButForZeros(p, u)' <=> HoldsButForZeros(p, u)
  BY <1>1 DEF HoldsButForZeros, Contents
<1>11. Beyond(fileNumberKey, filePositionKey)'
  BY <1>1, <1>2, <1>6, <1>7, <1>9 DEF Beyond, PlaceType, FilesTypeOK
<1>12. ASSUME NEW i \in DOMAIN places'
       PROVE  \E c \in 0 .. crashes : HoldsButForZeros(places'[i], <<i - 1, c>>)
  <2>1. CASE i \in DOMAIN places
    BY <1>7, <1>9, <2>1 DEF OnlyLateZerosHarm
  <2>2. CASE i = Len(places) + 1
    <3>1. <<i - 1, crashes>> = Unit /\ crashes \in 0 .. crashes
      BY <1>4, <1>6, <2>2 DEF Unit
    <3> QED
      BY <1>7, <1>9, <2>2, <3>1
  <2> QED
    BY <1>7, <2>1, <2>2
<1>13. OnlyLateZerosHarm'
  BY <1>1, <1>10, <1>12 DEF OnlyLateZerosHarm
<1>14. ZerosInv'
  <2>1. \A y \in zeros : Beside(y, place) /\ \A i \in DOMAIN places : Beside(y, places[i])
    BY <1>1 DEF FilesInv, ZerosInv
  <2>2. \A y \in zeros : \A i \in DOMAIN places' : Beside(y, places'[i])
    BY <1>7, <2>1
  <2> QED
    BY <1>1, <2>2 DEF FilesInv, ZerosInv, Beside
<1> QED
  BY <1>1, <1>8, <1>9, <1>11, <1>13, <1>14 DEF FilesInv

LEMMA StartStep ==
    ASSUME FilesInv, CrashAndStart
    PROVE  FilesInv'
<1>1. /\ n' = fileNumberKey
      /\ files' = [k \in DOMAIN files \cup {fileNumberKey} |->
                      IF k = fileNumberKey THEN Contents(fileNumberKey) ELSE files[k]]
      /\ filePosition' = filePositionKey
      /\ zeros' = {} /\ writing' = "no" /\ place' = NoPlace
      /\ UNCHANGED <<fileNumberKey, filePositionKey, blocks, places>> /\ crashes' = crashes + 1
  BY DEF CrashAndStart, Crash, FileInit, Holding
<1>2. FilesTypeOK
  BY DEF FilesInv
<1>3. <<>> \in Seq(Marks)
  OBVIOUS
<1>4. files' \in [DOMAIN files' -> Seq(Marks)] /\ n' \in DOMAIN files'
  BY <1>1, <1>2, <1>3 DEF FilesTypeOK, Contents
<1>5. FilesTypeOK'
  BY <1>1, <1>2, <1>4 DEF FilesTypeOK, NoPlace, PlaceType
<1>6. \A f : Contents(f)' = Contents(f)
  BY <1>1 DEF Contents
<1>7. ASSUME NEW i \in DOMAIN places, NEW u, HoldsButForZeros(places[i], u)
      PROVE  HoldsButForZeros(places[i], u)'
  <2> DEFINE p == places[i]
  <2>1. p \in PlaceType
    BY <1>2 DEF FilesTypeOK
  <2>2. /\ p.to <= Len(Contents(p.file))
        /\ \A j \in p.from + 1 .. p.to : MayStand(p, u, files[p.file][j])
    BY <1>7 DEF HoldsButForZeros, MayStand
  <2>3. CASE p.file \in DOMAIN files
    <3>1. files'[p.file] = files[p.file]
      BY <1>1, <2>3 DEF Contents
    <3> QED
      BY <1>1, <1>6, <2>2, <3>1 DEF HoldsButForZeros, MayStand
  <2>4. CASE p.file \notin DOMAIN files
    <3>1. p.to = 0
      BY <2>1, <2>2, <2>4 DEF Contents, PlaceType
    <3> QED
      BY <1>1, <1>6, <2>1, <2>2, <3>1 DEF HoldsButForZeros, PlaceType
  <2> QED
    BY <2>3, <2>4
<1>8. OnlyLateZerosHarm'
  <2>1. OnlyLateZerosHarm /\ crashes \in Nat
    BY <1>2 DEF FilesInv, FilesTypeOK
  <2> QED
    BY <1>1, <1>7, <2>1 DEF OnlyLateZerosHarm
<1>9. Beyond(fileNumberKey, filePositionKey)'
  BY <1>1 DEF FilesInv, Beyond
<1>10. ZerosInv'
  BY <1>1 DEF ZerosInv
<1> QED
  BY <1>1, <1>4, <1>5, <1>8, <1>9, <1>10 DEF FilesInv

LEMMA FilesKept ==
    ASSUME FilesInv, UNCHANGED <<fileVars, places, crashes>>, UNCHANGED blocks
    PROVE  FilesInv'
<1>1. UNCHANGED <<files, fileNumberKey, filePositionKey, n, filePosition, zeros, writing, place, places, crashes, blocks>>
  BY DEF fileVars, handle
<1>2. FilesTypeOK' <=> FilesTypeOK
  BY <1>1 DEF FilesTypeOK
<1>3. \A f, p : Beyond(f, p)' <=> Beyond(f, p)
  BY <1>1 DEF Beyond
<1>4. \A p, u : HoldsButForZeros(p, u)' <=> HoldsButForZeros(p, u)
  BY <1>1 DEF HoldsButForZeros, Contents
<1>5. OnlyLateZerosHarm' <=> OnlyLateZerosHarm
  BY <1>1, <1>4 DEF OnlyLateZerosHarm
<1>6. Unit' = Unit
  BY <1>1 DEF Unit
<1>7. ZerosInv' <=> ZerosInv
  BY <1>1 DEF ZerosInv, Beside
<1> QED
  BY <1>1, <1>2, <1>3, <1>4, <1>5, <1>6, <1>7 DEF FilesInv

LEMMA FilesStep == FilesInv /\ [RecordNext]_recordVars => FilesInv'
<1> SUFFICES ASSUME FilesInv, [RecordNext]_recordVars PROVE FilesInv'
  OBVIOUS
<1>1. CASE File
  <2>1. Put(Unit) \/ PutFileNumber \/ PutFilePosition
    BY <1>1 DEF File
  <2>2. UNCHANGED <<vars, places>>
    BY <1>1 DEF File
  <2> QED
    BY <2>1, <2>2, PutFiles, KeysStep
<1>2. CASE Record
  BY <1>2, RecordStep
<1>3. CASE CrashAndStart
  BY <1>3, StartStep
<1>4. CASE PutAccounts
  BY <1>4, FilesKept DEF PutAccounts, WriteAccounts
<1>5. CASE (Initialize \/ PutBlock \/ CreateCandidate \/ PutCandidate) /\ UNCHANGED <<fileVars, places>>
  <2>1. UNCHANGED <<blocks, crashes>>
    BY <1>5 DEF Initialize, PutBlock, CreateCandidate, PutCandidate
  <2> QED
    BY <1>5, <2>1, FilesKept
<1>6. CASE UNCHANGED recordVars
  BY <1>6, FilesKept DEF recordVars, vars
<1>7. CASE LateZeros
  BY <1>7, ZerosStep DEF LateZeros
<1> QED
  BY <1>1, <1>2, <1>3, <1>4, <1>5, <1>6, <1>7 DEF RecordNext

\* For any lengths, sizes of the files, crashes between the file and its two keys, and
\* whenever the zeros of an expandFile land: nothing else ever harms a recorded block, and
\* only zeros of an expansion that began at or before it (BlockFile.put, Database.writeBlock).
THEOREM OnlyZerosHarmRecords == RecordSpec => []OnlyLateZerosHarm
<1>1. FilesInv => OnlyLateZerosHarm
  BY DEF FilesInv
<1> QED
  BY <1>1, FilesInitially, FilesStep, PTL DEF RecordSpec

-----------------------------------------------------------------------------
(***************************************************************************)
(* The records and the accounts together.                                  *)
(***************************************************************************)

\* Filing a block in steps, with a crash between any two of them, is the world state's own
\* way of putting it: the file decides when the accounts are written and the block is
\* recorded, and nothing else about them (Consensus.putBlock, Database.writeBlock).
THEOREM RecordsImplementWorld == RecordSpec => Spec
<1>1. RecordInit => Init
  BY DEF RecordInit
<1>2. [RecordNext]_recordVars => [Next]_vars
  <2> SUFFICES ASSUME [RecordNext]_recordVars PROVE [Next]_vars
    OBVIOUS
  <2>1. CASE File \/ LateZeros
    BY <2>1 DEF File, LateZeros
  <2>2. CASE PutAccounts
    BY <2>2 DEF PutAccounts, Next
  <2>3. CASE Record
    BY <2>3 DEF Record, Next
  <2>4. CASE CrashAndStart
    BY <2>4 DEF CrashAndStart, Next
  <2>5. CASE Initialize \/ PutBlock \/ CreateCandidate \/ PutCandidate
    BY <2>5 DEF Next
  <2>6. CASE UNCHANGED recordVars
    BY <2>6 DEF recordVars
  <2> QED
    BY <2>1, <2>2, <2>3, <2>4, <2>5, <2>6 DEF RecordNext
<1> QED
  BY <1>1, <1>2, PTL DEF RecordSpec, Spec

\* So all of it holds of the blocks as they are recorded: where the block database says
\* that a block is, its accounts are stored, are those of its chain, and add up.
THEOREM RecordedBlocksHaveTheirAccounts ==
    RecordSpec => [](NothingIsMissing /\ RootsFollowLedger /\ SupplyIsKept /\ OwnBlocksPass)
BY RecordsImplementWorld, WorldNothingIsMissing, WorldRootsFollowLedger, WorldSupplyIsKept,
   WorldOwnBlocksPass, PTL

=============================================================================
