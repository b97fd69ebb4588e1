---------------------------- MODULE PacketParser -----------------------------
(***************************************************************************)
(* How SocketParser puts packets together again from the chunks in which   *)
(* TCP delivers them.  A byte is known by its place in the stream, so that *)
(* what is delivered can be compared with what was sent; a number read     *)
(* from bytes that are not exactly its own is Garbage.                     *)
(***************************************************************************)
EXTENDS Integers, Sequences

CONSTANTS
    Bodies,        \* the lengths of the bodies that were sent, in order
    Start,         \* how many bytes precede a packet
    PrefixLength,  \* 4
    WordLength,    \* 4, of the route and of the body's length
    MaxPacketSize  \* 10 MB

Packets == 1 .. Len(Bodies)
HeaderLength == PrefixLength + 2 * WordLength

ASSUME LengthsAssumption == /\ PrefixLength \in Nat \ {0}
                            /\ WordLength \in Nat \ {0}
                            /\ MaxPacketSize \in Nat
ASSUME StreamAssumption ==
    /\ Bodies \in Seq(Nat \ {0})         \* an encoded message is never empty
    /\ Start \in [1 .. Len(Bodies) + 1 -> Nat]
    /\ Start[1] = 0
    /\ \A p \in Packets : Start[p + 1] = Start[p] + HeaderLength + Bodies[p]
    /\ \A p, q \in Packets : p < q => Start[p + 1] <= Start[q]

VARIABLES
    foreign,     \* packets with the prefix of another network; it differs in
                 \* the first byte
    pos,         \* bytes of the stream that were parsed
    end,         \* bytes of the stream that were received
    parseState,
    parseIndex,  \* bytes of the current field that were parsed
    scrap,       \* scrapBuffer: the first bytes of a number cut in two
    route,       \* the packet whose route was read
    size,        \* bodyBuffer.length
    body,        \* the bytes copied into bodyBuffer
    delivered,   \* what the packet callback was given
    open         \* the socket has not been destroyed

stream == <<end, foreign>>
parser == <<parseState, parseIndex, scrap, route, size, body>>
vars == <<pos, stream, parser, delivered, open>>

ParseStates == {"HeaderPrefix", "HeaderRoute", "HeaderBodyLength", "Body"}
Garbage == 0
Total == Start[Len(Bodies) + 1]

\* The bytes from place i on, n of them.
Bytes(i, n) == [k \in 1 .. n |-> i + k]

TypeOK ==
    /\ foreign \subseteq Packets
    /\ end \in 0 .. Total
    /\ pos \in 0 .. end
    /\ parseState \in ParseStates
    /\ parseIndex \in Nat
    /\ scrap \in Seq(1 .. Total) /\ Len(scrap) < WordLength
    /\ route \in Packets \cup {Garbage}
    /\ size \in Nat
    /\ body \in Seq(1 .. Total)
    /\ delivered \in Seq([route : Packets \cup {Garbage}, body : Seq(1 .. Total)])
    /\ open \in BOOLEAN

Init ==
    /\ foreign \in SUBSET Packets
    /\ pos = 0 /\ end = 0
    /\ parseState = "HeaderPrefix" /\ parseIndex = 0
    /\ scrap = <<>> /\ route = Garbage /\ size = 0 /\ body = <<>>
    /\ delivered = <<>>
    /\ open = TRUE

-----------------------------------------------------------------------------

Available == end - pos
AtMost(a, b) == IF a <= b THEN a ELSE b

\* The next data event; parse works through the whole chunk before another.
Receive ==
    /\ open
    /\ pos = end
    /\ \E n \in 1 .. Total - end : end' = end + n
    /\ UNCHANGED <<pos, foreign, parser, delivered, open>>

Destroy ==
    /\ open' = FALSE
    /\ pos' = end
    /\ UNCHANGED <<stream, parser, delivered>>

\* What is compared with headerPrefix is a prefix of this network.
PrefixMatches(n) ==
    \E p \in Packets \ foreign : pos = Start[p] + parseIndex /\ n <= PrefixLength - parseIndex

ParseHeaderPrefix ==
    /\ open
    /\ Available > 0
    /\ parseState = "HeaderPrefix"
    /\ LET n == AtMost(Available, PrefixLength - parseIndex)
       IN  \/ /\ ~PrefixMatches(n)
              /\ Destroy
           \/ /\ PrefixMatches(n)
              /\ pos' = pos + n
              /\ \/ /\ parseIndex + n = PrefixLength
                    /\ parseState' = "HeaderRoute"
                    /\ parseIndex' = 0
                 \/ /\ parseIndex + n < PrefixLength
                    /\ parseIndex' = parseIndex + n
                    /\ UNCHANGED parseState
              /\ UNCHANGED <<stream, scrap, route, size, body, delivered, open>>

\* Mutant of WholeWord: the bytes kept from the chunk before are forgotten.
WholeWordAlways == Available >= WordLength

\* A number that lies in one chunk is read in place, otherwise its bytes are
\* collected.
WholeWord == parseIndex = 0 /\ Available >= WordLength


WordBytes == IF WholeWord THEN WordLength ELSE AtMost(Available, WordLength - parseIndex)
Word == IF WholeWord THEN Bytes(pos, WordLength) ELSE scrap \o Bytes(pos, WordBytes)
WordIsComplete == Len(Word) = WordLength

PartialWord ==
    /\ ~WordIsComplete
    /\ pos' = pos + WordBytes
    /\ parseIndex' = parseIndex + WordBytes
    /\ scrap' = Word
    /\ UNCHANGED <<stream, parseState, route, size, body, delivered, open>>

\* The packet in whose header the number has this place, if there is one.
WordOwner(place) ==
    LET owners == {p \in Packets : Word = Bytes(Start[p] + place, WordLength)}
    IN  IF owners = {} THEN Garbage ELSE CHOOSE p \in owners : TRUE

ParseHeaderRoute ==
    /\ open
    /\ Available > 0
    /\ parseState = "HeaderRoute"
    /\ \/ PartialWord
       \/ /\ WordIsComplete
          /\ pos' = pos + WordBytes
          /\ route' = WordOwner(PrefixLength)
          /\ scrap' = <<>>
          /\ parseIndex' = 0
          /\ parseState' = "HeaderBodyLength"
          /\ UNCHANGED <<stream, size, body, delivered, open>>

LengthRead ==
    LET p == WordOwner(PrefixLength + WordLength) IN IF p = Garbage THEN 1 ELSE Bodies[p]

ParseHeaderBodyLength ==
    /\ open
    /\ Available > 0
    /\ parseState = "HeaderBodyLength"
    /\ \/ PartialWord
       \/ /\ WordIsComplete
          /\ LengthRead > MaxPacketSize
          /\ Destroy
       \/ /\ WordIsComplete
          /\ LengthRead <= MaxPacketSize
          /\ pos' = pos + WordBytes
          /\ size' = LengthRead
          /\ body' = <<>>
          /\ scrap' = <<>>
          /\ parseIndex' = 0
          /\ parseState' = "Body"
          /\ UNCHANGED <<stream, route, delivered, open>>

BodyBytesAll == Available                      \* mutant: the next packet's too

\* Buffer.copy takes what fits.
BodyBytes == AtMost(Available, size - parseIndex)

ParseBody ==
    /\ open
    /\ Available > 0
    /\ parseState = "Body"
    /\ pos' = pos + BodyBytes
    /\ LET copied == body \o Bytes(pos, BodyBytes)
       IN  \/ /\ parseIndex + BodyBytes < size
              /\ parseIndex' = parseIndex + BodyBytes
              /\ body' = copied
              /\ UNCHANGED <<parseState, delivered>>
           \/ /\ parseIndex + BodyBytes >= size
              /\ delivered' = Append(delivered, [route |-> route, body |-> copied])
              /\ parseIndex' = 0
              /\ parseState' = "HeaderPrefix"
              /\ body' = <<>>
    /\ UNCHANGED <<stream, scrap, route, size, open>>

Next == Receive \/ ParseHeaderPrefix \/ ParseHeaderRoute \/ ParseHeaderBodyLength \/ ParseBody

Spec == Init /\ [][Next]_vars

-----------------------------------------------------------------------------

Packet(p) == [route |-> p, body |-> Bytes(Start[p] + HeaderLength, Bodies[p])]

\* Wherever the stream is cut, the callback gets the packets that were sent,
\* whole, in order, each once and with its own route.
PacketsAreIntact ==
    /\ Len(delivered) <= Len(Bodies)
    /\ \A k \in DOMAIN delivered : delivered[k] = Packet(k)

\* Once a chunk has been worked through, every packet that is complete has been
\* delivered, up to the first one that is foreign or too large: there, and only
\* there, the connection is closed.
Acceptable(p) == p \notin foreign /\ Bodies[p] <= MaxPacketSize

NothingIsHeldBack ==
    pos = end =>
        \A p \in Packets :
            (\A q \in 1 .. p : Acceptable(q)) /\ Start[p + 1] <= end => Len(delivered) >= p

ClosedForAReason ==
    ~open => \E p \in Packets : ~Acceptable(p) /\ Len(delivered) = p - 1 /\ Start[p] < end

=============================================================================
