------------------------------- MODULE PeerSync -------------------------------
(***************************************************************************)
(* How a node catches up with its peers: tipPoll asks a peer for its tip   *)
(* every second and starts a header download when the peer's work is       *)
(* higher than the header tip's (headerSync: search of the last common     *)
(* height by asking for hashes, then headers by range), and a download of  *)
(* transactions when it is higher than the block tip's (txSync).  All      *)
(* peers share one header download and one block download.                 *)
(*                                                                         *)
(* A peer answers from its index of heights, which moves when it           *)
(* reorganizes, between any two requests.  What a peer adopts while it is  *)
(* connected it may broadcast: old or easy blocks it does not, what comes  *)
(* too fast is dropped, and nothing is sent again.  A header is heavier    *)
(* the higher its Work.                                                    *)
(***************************************************************************)
EXTENDS Integers, Sequences, FiniteSets, SequencesExt

CONSTANTS
    Headers, Genesis, Parent, Height, Work,
    Ancestors,           \* the headers from a header down to Genesis
    MaxHeight,           \* of the headers there are
    Uncles,              \* the uncles a block names, which its peer sends before it
    Invalid,             \* the headers that the node rejects
    Peers,
    LocalTips, RemoteTips,   \* where the headers of the node, and its peers, may start
    MaxHeaders,          \* MAX_HEADERS_PER_PACKET
    MaxTxBlocks,         \* blocks whose transactions fit into a packet
    MaxUncles, MaxUncleHeightDelta,   \* maxNumberOfUncles, maxUncleHeightDelta
    MaxMoves, MaxFails,  \* named bounds: reorganizations of peers, failing requests
    None

Heights == 0 .. MaxHeight

ASSUME TreeAssumption ==
    /\ MaxHeight \in Nat /\ Height \in [Headers -> Heights] /\ Work \in [Headers -> Nat]
    /\ Genesis \in Headers /\ Height[Genesis] = 0 /\ Ancestors[Genesis] = {Genesis}
    /\ Parent \in [Headers \ {Genesis} -> Headers]
    /\ \A x \in Headers \ {Genesis} :
          /\ Height[x] = Height[Parent[x]] + 1 /\ Work[x] >= Work[Parent[x]]
          /\ Ancestors[x] = Ancestors[Parent[x]] \cup {x}
    /\ Uncles \in [Headers -> Seq(Headers)]
    /\ Invalid \subseteq Headers \ {Genesis}
    /\ None \notin Headers
ASSUME RangeAssumption == MaxHeaders \in Nat \ {0}
ASSUME UnclesAssumption == MaxUncles \in Nat /\ MaxUncleHeightDelta \in Nat
ASSUME TipsAssumption ==
    /\ LocalTips \subseteq Headers /\ RemoteTips \subseteq Headers
    /\ \A x \in LocalTips : Ancestors[x] \cap Invalid = {}

VARIABLES
    known, htip,         \* headers of status Header or more, and the heaviest
    rejected,            \* headers of status Rejected
    blocks, btip,        \* blocks of status Block or more, and the heaviest
    index, rtip, stored, \* of a peer: hash at height, tip, blocks
    gone,                \* the peers the node has disconnected
    headerSync, blockSync,   \* the peer whose download is under way
    h,                   \* the header download
    todo,                \* the block download: hashes to ask for
    announced,           \* headers peers have adopted since they are connected
    moves, fails

local == <<known, htip, rejected, blocks, btip>>
remote == <<index, rtip, stored, announced, moves>>
vars == <<local, remote, gone, headerSync, blockSync, h, todo, fails>>

NoSync == [phase |-> "none", have |-> 0, donthave |-> 0, at |-> 0, max |-> 0,
           previous |-> None, received |-> <<>>, uncles |-> 0, quiet |-> TRUE]

TypeOK ==
    /\ known \subseteq Headers /\ blocks \subseteq known /\ htip \in known /\ btip \in blocks
    /\ \A x \in known \ {Genesis} : Parent[x] \in known
    /\ \A x \in blocks \ {Genesis} : Parent[x] \in blocks
    /\ rejected \subseteq Invalid /\ known \cap Invalid = {} /\ gone \subseteq Peers
    /\ index \in [Peers -> [Heights -> Headers \cup {None}]] /\ rtip \in [Peers -> Headers]
    /\ {headerSync, blockSync} \subseteq Peers \cup {None}
    /\ h.phase \in {"none", "first", "second", "search", "range", "put"}
    /\ h.phase = "none" <=> headerSync = None
    /\ h.uncles \in 0 .. MaxUncles
    /\ todo \in Seq(Headers)
    /\ moves \in 0 .. MaxMoves /\ fails \in 0 .. MaxFails

OnChain(x) == [k \in Heights |->
    IF k <= Height[x] THEN CHOOSE a \in Ancestors[x] : Height[a] = k ELSE None]

Init ==
    /\ htip \in LocalTips /\ known = Ancestors[htip]
    /\ btip = Genesis /\ blocks = {Genesis}
    /\ rejected = {} /\ gone = {}
    /\ rtip \in [Peers -> RemoteTips]
    /\ index = [p \in Peers |-> OnChain(rtip[p])]
    /\ headerSync = None /\ blockSync = None
    /\ h = NoSync /\ todo = <<>>
    /\ stored = [p \in Peers |-> Ancestors[rtip[p]]]
    /\ announced = {} /\ moves = 0 /\ fails = 0

-----------------------------------------------------------------------------
\* The peers.

\* The index keeps what it had above the new tip.
Reorganize(p, x) ==
    /\ moves < MaxMoves
    /\ Work[x] > Work[rtip[p]]
    /\ moves' = moves + 1
    /\ rtip' = [rtip EXCEPT ![p] = x]
    /\ index' = [index EXCEPT ![p] = [k \in Heights |-> IF k <= Height[x] THEN OnChain(x)[k] ELSE @[k]]]
    /\ stored' = [stored EXCEPT ![p] = @ \cup Ancestors[x]]
    /\ announced' = announced \cup (Ancestors[x] \ Ancestors[rtip[p]])
    /\ h' = [h EXCEPT !.quiet = @ /\ headerSync # p]
    /\ UNCHANGED <<local, gone, headerSync, blockSync, todo, fails>>

\* What the peer sends for a range: each block behind its uncles.
ByRange(p, from) ==
    LET up == IF from + MaxHeaders - 1 <= MaxHeight THEN from + MaxHeaders - 1 ELSE MaxHeight
        at == [i \in 1 .. up - from + 1 |-> index[p][from + i - 1]]
    IN  FlattenSeq([i \in DOMAIN at |-> IF at[i] = None THEN <<>> ELSE Append(Uncles[at[i]], at[i])])

-----------------------------------------------------------------------------
\* The node.

Connected(x) == Parent[x] \in known
\* What gets status Header, and with it a height; behind an unknown or rejected one nothing does.
Taken(x) == Connected(x) /\ x \notin Invalid

PutHeader(x) ==
    /\ known' = IF Taken(x) THEN known \cup {x} ELSE known
    /\ htip' = IF Taken(x) /\ Work[x] > Work[htip] THEN x ELSE htip
    /\ rejected' = IF Connected(x) /\ x \in Invalid THEN rejected \cup {x} ELSE rejected

\* The blocks of xs whose ancestors are blocks, or among xs.
PutBlocks(xs) ==
    LET new == {x \in xs \ Invalid : Ancestors[Parent[x]] \subseteq blocks \cup xs}
    IN  /\ blocks' = blocks \cup new
        /\ btip' = CHOOSE x \in new \cup {btip} : \A y \in new \cup {btip} : Work[x] >= Work[y]

\* A peer's broadcast, taken by putBlock if its parent is known.
Broadcast(x) ==
    /\ x \in announced /\ Connected(x) /\ x \notin known \cup rejected
    /\ PutHeader(x)
    /\ PutBlocks({x})
    /\ h' = [h EXCEPT !.quiet = FALSE]
    /\ UNCHANGED <<remote, gone, headerSync, blockSync, todo, fails>>

EndSync == headerSync' = None /\ h' = NoSync

Start(p) ==
    /\ headerSync = None /\ p \notin gone
    /\ Work[htip] < Work[rtip[p]]
    /\ headerSync' = p
    /\ h' = [NoSync EXCEPT !.phase = "first", !.at = Height[htip],
                           !.donthave = Height[rtip[p]], !.max = Height[rtip[p]]]
    /\ UNCHANGED <<local, remote, gone, blockSync, todo, fails>>

\* getHash: a request that fails answers like a height that the peer has not.
Answers(p, x) ==
    /\ \/ /\ x = IF h.at \in Heights THEN index[p][h.at] ELSE None
          /\ UNCHANGED fails
       \/ /\ x = None
          /\ fails < MaxFails /\ fails' = fails + 1
    /\ UNCHANGED <<local, remote, blockSync, todo>>

Middle(have, donthave) == (have + donthave) \div 2
Narrowed(s) == [s EXCEPT !.at = Middle(s.have, s.donthave)]

\* commonSearch asks for the height of its own header tip first, then for the one above.
First ==
    /\ h.phase = "first"
    /\ \E x \in Headers \cup {None} :
        /\ Answers(headerSync, x)
        /\ h' = LET s == [h EXCEPT !.quiet = @ /\ fails' = fails]
                IN  IF x \in known THEN [s EXCEPT !.phase = "second", !.have = h.at, !.at = @ + 1]
                    ELSE Narrowed([s EXCEPT !.phase = "search", !.donthave = h.at])
    /\ UNCHANGED <<headerSync, gone>>

Second ==
    /\ h.phase = "second"
    /\ \E x \in Headers \cup {None} :
        /\ Answers(headerSync, x)
        /\ h' = LET s == [h EXCEPT !.phase = "search", !.quiet = @ /\ fails' = fails]
                IN  Narrowed(IF x \in known THEN [s EXCEPT !.have = h.at]
                             ELSE [s EXCEPT !.donthave = h.at])
    /\ UNCHANGED <<headerSync, gone>>

MetTooEarly(have, donthave) == have + 2 >= donthave   \* mutant: off by one
Met(have, donthave) == have + 1 >= donthave

\* When the bounds have met the hash just asked for is the common one, whatever its
\* status.  Before that a rejected one costs the peer its connection: the range then
\* asked for fails, which ends the download.
Search ==
    /\ h.phase = "search"
    /\ \E x \in Headers \cup {None} :
        /\ Answers(headerSync, x)
        /\ IF x \in rejected /\ ~Met(h.have, h.donthave)
           THEN EndSync /\ gone' = gone \cup {headerSync}
           ELSE /\ h' = LET s == [h EXCEPT !.quiet = @ /\ fails' = fails]
                        IN  IF Met(h.have, h.donthave)
                            THEN [s EXCEPT !.phase = "range", !.previous = x, !.at = @ + 1]
                            ELSE Narrowed(IF x \in known THEN [s EXCEPT !.have = h.at]
                                          ELSE [s EXCEPT !.donthave = h.at])
                /\ UNCHANGED <<headerSync, gone>>

\* getHeaders: nothing received ends the download, and so does a request that fails.
AskRange ==
    /\ h.phase = "range"
    /\ \/ /\ ByRange(headerSync, h.at) # <<>>
          /\ h' = [h EXCEPT !.phase = "put", !.received = ByRange(headerSync, h.at), !.uncles = 0]
          /\ UNCHANGED <<fails, headerSync>>
       \/ /\ ByRange(headerSync, h.at) = <<>>
          /\ EndSync
          /\ UNCHANGED fails
       \/ /\ fails < MaxFails /\ fails' = fails + 1
          /\ EndSync
    /\ UNCHANGED <<local, remote, gone, blockSync, todo>>

\* After the last header of a packet: the next range, or the end.
FullPacketLeft(s) == s.at + MaxHeaders < s.max   \* mutant: the rest is not asked for
Left(s) == s.at < s.max

More(s) ==
    IF s.received # <<>> THEN s
    ELSE IF Left(s) THEN [s EXCEPT !.phase = "range"] ELSE NoSync

\* The next of the chain, of status Header at the height it has to have,
Continues(x) == Parent[x] = h.previous
Accepted(x) == Taken(x) /\ Height[x] = h.at
\* or an uncle, which has no height unless it is taken.
UncleAllowed(x) ==
    /\ h.uncles < MaxUncles
    /\ Taken(x) => h.at - Height[x] <= MaxUncleHeightDelta /\ Height[x] < h.at

Put ==
    /\ h.phase = "put"
    /\ LET x == Head(h.received)
           rest == [h EXCEPT !.received = Tail(@)]
           next == IF h.previous = None THEN NoSync
                   ELSE IF Continues(x)
                   THEN IF Accepted(x) THEN More([rest EXCEPT !.at = @ + 1, !.previous = x, !.uncles = 0])
                                       ELSE NoSync
                   ELSE IF UncleAllowed(x) THEN More([rest EXCEPT !.uncles = @ + 1]) ELSE NoSync
       IN  /\ PutHeader(x)
           /\ h' = next
           /\ headerSync' = IF next = NoSync THEN None ELSE headerSync
    /\ UNCHANGED <<blocks, btip, remote, gone, blockSync, todo, fails>>

-----------------------------------------------------------------------------
\* txSync

\* From the header tip down to the first block, the oldest of them.
Path == SetToSortSeq(Ancestors[htip] \ blocks, LAMBDA x, y : Height[x] < Height[y])
Fit == IF Len(Path) > MaxHeaders THEN MaxHeaders ELSE Len(Path)
Missing == SubSeq(Path, 1, Fit)

StartTx(p) ==
    /\ blockSync = None /\ p \notin gone
    /\ Work[btip] < Work[rtip[p]]
    /\ Missing # <<>>
    /\ blockSync' = p /\ todo' = Missing
    /\ UNCHANGED <<local, remote, gone, headerSync, h, fails>>

\* The first blocks of those asked for; a peer that lacks one of them does not answer.
GetTxBlocks ==
    /\ blockSync # None
    /\ LET n == IF Len(todo) < MaxTxBlocks THEN Len(todo) ELSE MaxTxBlocks
           xs == {todo[i] : i \in 1 .. n}
       IN  \/ /\ xs \subseteq stored[blockSync] /\ blockSync \notin gone
              /\ PutBlocks(xs) /\ UNCHANGED <<known, htip, rejected>>
              /\ todo' = IF xs \subseteq blocks' \ blocks THEN SubSeq(todo, n + 1, Len(todo)) ELSE <<>>
              /\ UNCHANGED fails
           \/ /\ ~ xs \subseteq stored[blockSync] \/ blockSync \in gone
              /\ todo' = <<>>
              /\ UNCHANGED <<local, fails>>
           \/ /\ fails < MaxFails /\ fails' = fails + 1
              /\ todo' = <<>>
              /\ UNCHANGED local
    /\ blockSync' = IF todo' = <<>> THEN None ELSE blockSync
    /\ UNCHANGED <<remote, gone, headerSync, h>>

Next ==
    \/ \E p \in Peers : Start(p) \/ StartTx(p) \/ \E x \in RemoteTips : Reorganize(p, x)
    \/ \E x \in Headers : Broadcast(x)
    \/ First \/ Second \/ Search \/ AskRange \/ Put
    \/ GetTxBlocks

\* A request ends (it is answered or times out), and every peer is polled again and
\* again, so that none finds a download of another under way each time.
Fairness ==
    /\ WF_vars(First \/ Second \/ Search \/ AskRange \/ Put)
    /\ WF_vars(GetTxBlocks)
    /\ \A p \in Peers : SF_vars(Start(p)) /\ SF_vars(StartTx(p))

Spec == Init /\ [][Next]_vars
FairSpec == Spec /\ Fairness

-----------------------------------------------------------------------------
\* Properties

\* What a peer's index still holds above its tip, from a longer and lighter branch,
\* is unknown to the node.
StaleEntriesAreUnknown ==
    \A p \in Peers : \A k \in Heights : k > Height[rtip[p]] => index[p][k] \notin known

\* When neither side moved and no request failed, the search ends at the highest
\* block of the peer's chain that the node knows (commonSearch).
CommonIsHighest ==
    [][h.phase = "search" /\ h'.phase = "range" /\ h'.quiet =>
        LET above == h'.at
        IN  /\ h'.previous \in known /\ index[headerSync][above - 1] = h'.previous
            /\ above <= Height[rtip[headerSync]] => index[headerSync][above] \notin known]_vars

\* As many uncles as a block may name, near it and lower than it.
UnclesAreLower ==
    \A x \in Headers :
        /\ Len(Uncles[x]) <= MaxUncles
        /\ \A i \in 1 .. Len(Uncles[x]) :
              LET u == Uncles[x][i]
              IN  u # Genesis /\ Height[u] < Height[x] /\ Height[x] - Height[u] <= MaxUncleHeightDelta

\* A header download that ends with a valid header, against a quiet peer, leaves at
\* most the last header of the peer's chain to the next one.
DownloadIsComplete ==
    [][h.phase = "put" /\ h'.phase = "none" /\ h.quiet /\ Head(h.received) \notin Invalid =>
        \A k \in 0 .. h.max - 1 : index[headerSync][k] \in known']_vars

\* getHeaders asks for the same range again when the peer's header there follows
\* neither what was received before nor any header that the node has: the peer has
\* gone over to a branch that leaves its old chain below.
GoesRound ==
    /\ h.phase = "range" /\ h.at < h.max
    /\ LET x == index[headerSync][h.at]
       IN  x # None /\ Parent[x] # h.previous /\ ~Taken(x)


=============================================================================
