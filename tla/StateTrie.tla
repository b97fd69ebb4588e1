------------------------------- MODULE StateTrie -------------------------------
(***************************************************************************)
(* The tree of accounts behind a state root.  An address is a sequence of  *)
(* bytes, all of one length; a node refers to a child by the part of the   *)
(* address that leads there.  The references are sorted whenever a node is *)
(* put, so that a node is the set of them.  A hash identifies what it is   *)
(* the hash of: a node holds its children themselves, and a root is the    *)
(* whole tree.                                                             *)
(***************************************************************************)
EXTENDS Integers, Sequences, FiniteSetsExt

CONSTANTS Bytes, AddressLength

ASSUME AddressAssumption == IsFiniteSet(Bytes) /\ AddressLength \in Nat \ {0}

Addresses == [1 .. AddressLength -> Bytes]
Places == UNION {[1 .. n -> Bytes] : n \in 0 .. AddressLength}    \* their beginnings

Account(balance, nonce) == [balance |-> balance, nonce |-> nonce]
AccountValues == [balance : Nat, nonce : Nat]
Node(refs) == [refs |-> refs]
Ref(address, child) == [address |-> address, child |-> child]
At(place, value) == [at |-> place, value |-> value]
Absent == [absent |-> TRUE]            \* undefined
IsNode(v) == "refs" \in DOMAIN v

\* What is said of each account: one that is not there is Absent.
Maps == [Addresses -> AccountValues \cup {Absent}]
Known(accounts) == {a \in Addresses : accounts[a] # Absent}

\* match
Matches(part, address, offset) ==
    /\ Len(part) <= Len(address) - offset
    /\ \A i \in 1 .. Len(part) : part[i] = address[offset + i]

\* getAccount: every round goes down to a child, until there is no node or no match.
GetAccount(root, address) ==
    LET Down(s) ==
          LET matching == {r \in s.value.refs : Matches(r.address, address, s.offset)}
              ref == CHOOSE r \in matching : TRUE
          IN  IF ~IsNode(s.value) THEN s
              ELSE IF matching = {} THEN [value |-> Absent, offset |-> s.offset]
              ELSE [value |-> ref.child, offset |-> s.offset + Len(ref.address)]
        state[k \in 0 .. AddressLength] ==
          IF k = 0 THEN [value |-> root, offset |-> 0] ELSE Down(state[k - 1])
    IN  state[AddressLength].value

-----------------------------------------------------------------------------
(***************************************************************************)
(* What a tree says and when it is the only one that says it.              *)
(***************************************************************************)

Accounts(root) == [a \in Addresses |-> GetAccount(root, a)]

Children(v) == IF IsNode(v) THEN {ref.child : ref \in v.refs} ELSE {}

\* What the nodes among these refer to, each at its place.
Deeper(entries) ==
    UNION {{At(e.at \o ref.address, ref.child) : ref \in e.value.refs} :
               e \in {f \in entries : IsNode(f.value)}}

\* Everything in a tree, and where.
Reached(entry) ==
    LET level[k \in 0 .. AddressLength] == IF k = 0 THEN {entry} ELSE Deeper(level[k - 1])
    IN  UNION {level[k] : k \in 0 .. AddressLength}

Root(root) == At(<<>>, root)
Below(root) == {e.value : e \in Reached(Root(root))}

\* No two references of a node with a first byte in common, and no node below the root
\* with a single reference: for given accounts there is one such tree.
Canonical(root) ==
    \A v \in Below(root) : IsNode(v) =>
        /\ \A r, s \in v.refs : r.address[1] = s.address[1] => r = s
        /\ \A c \in Children(v) : IsNode(c) => \E r, s \in c.refs : r # s

-----------------------------------------------------------------------------
(***************************************************************************)
(* putAccount(object, objectAddress, changes, prefix): the hash of the     *)
(* object with the changes, and everything put on the way.  Here met is    *)
(* the object at its address.                                              *)
(***************************************************************************)

\* An account in the way is put again beside the changes.
WithAccount(x) ==
    IF x.met.value = Absent \/ IsNode(x.met.value) \/ x.changes[x.met.at] # Absent THEN x.changes
    ELSE [x.changes EXCEPT ![x.met.at] = x.met.value]

Changed(x) == Known(WithAccount(x))
Single(x) == \E a \in Changed(x) : Changed(x) = {a}

\* Where putAccount stops short of the node's own address it puts a node in between;
\* an account, or nothing, gives way to a new node.
Opened(x) ==
    IF ~IsNode(x.met.value) THEN {}
    ELSE IF x.met.at = x.prefix THEN x.met.value.refs
    ELSE {Ref(SubSeq(x.met.at, Len(x.prefix) + 1, Len(x.met.at)), x.met.value)}

\* It is called for changes behind a prefix and what that leads to.  Above the end of an
\* address that is a node, or there is more than one account to put.
PutArgs(root) ==
    {x \in [met : Reached(Root(root)) \cup [at : Places, value : {Absent}], changes : Maps, prefix : Places] :
        /\ Known(x.changes) # {}
        /\ \A a \in Known(x.changes) \cup {x.met.at} : Matches(x.prefix, a, 0)
        /\ Len(x.prefix) < AddressLength => IsNode(x.met.value) \/ ~Single(x)}

\* The changes are taken in groups by their next byte, each with the reference it meets.
NextByte(x, a) == a[Len(x.prefix) + 1]
Firsts(x) == {NextByte(x, a) : a \in Changed(x)}
Group(x, b) == {a \in Changed(x) : NextByte(x, a) = b}
Met(x, b) == {ref \in Opened(x) : ref.address[1] = b}

\* The part of the address that a group and the reference it meets share (matchLength).
Slice(x, b) ==
    LET n == Len(x.prefix)
        group == Group(x, b)
        a == CHOOSE c \in group : TRUE
        shared == {k \in 1 .. AddressLength - n :
                      /\ \A c \in group : \A i \in 1 .. k : c[n + i] = a[n + i]
                      /\ \A ref \in Met(x, b) : Matches(SubSeq(a, n + 1, n + k), ref.address, 0)}
    IN  SubSeq(a, n + 1, n + Max(shared))

SubArgs(x, b) ==
    LET prefix == x.prefix \o Slice(x, b)
        ref == CHOOSE r \in Met(x, b) : TRUE
        group == Group(x, b)
    IN  [met |-> IF Met(x, b) = {} THEN At(prefix, Absent) ELSE At(x.prefix \o ref.address, ref.child),
         changes |-> [a \in Addresses |-> IF a \in group THEN WithAccount(x)[a] ELSE Absent],
         prefix |-> prefix]

KeptAll(x) == Opened(x)                \* mutant: a reference that is met stays beside the new one

\* What no change goes through stays as it is.
Kept(x) == {ref \in Opened(x) : ref.address[1] \notin Firsts(x)}

PutStep(put, x) ==
    LET subs == {[address |-> Slice(x, b), put |-> put[SubArgs(x, b)]] : b \in Firsts(x)}
        node == Node(Kept(x) \cup {Ref(sub.address, sub.put.hash) : sub \in subs})
        account == WithAccount(x)[CHOOSE a \in Changed(x) : TRUE]
    IN  IF ~IsNode(x.met.value) /\ Single(x)
        THEN [hash |-> account, batch |-> {At(x.prefix, account)}]
        ELSE [hash |-> node, batch |-> {At(x.prefix, node)} \cup UNION {sub.put.batch : sub \in subs}]

PutAccount(root, changes) ==
    LET put[x \in PutArgs(root)] == PutStep(put, x)
    IN  put[[met |-> Root(root), changes |-> changes, prefix |-> <<>>]]
=============================================================================
