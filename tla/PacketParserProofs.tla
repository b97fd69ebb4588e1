--------------------------- MODULE PacketParserProofs ---------------------------
(***************************************************************************)
(* For every stream of packets and every way of cutting it into chunks,    *)
(* SocketParser delivers what was sent.  The inductive invariant says where *)
(* in the packet under way the parser is, and that scrapBuffer and         *)
(* bodyBuffer hold exactly the bytes before that place.                    *)
(***************************************************************************)
EXTENDS PacketParser, SequenceTheorems, TLAPS

Last == Len(Bodies)

\* The packet under way, and where it begins.
K == Len(delivered) + 1
Base == Start[K]

At(state, place) ==
    /\ parseState = state
    /\ pos = place + parseIndex

InPrefix ==
    /\ At("HeaderPrefix", Base)
    /\ parseIndex < PrefixLength
    /\ scrap = <<>>
    /\ body = <<>>

InRoute ==
    /\ At("HeaderRoute", Base + PrefixLength)
    /\ parseIndex < WordLength
    /\ K \in Packets \ foreign
    /\ scrap = Bytes(Base + PrefixLength, parseIndex)

InBodyLength ==
    /\ At("HeaderBodyLength", Base + PrefixLength + WordLength)
    /\ parseIndex < WordLength
    /\ K \in Packets \ foreign
    /\ route = K
    /\ scrap = Bytes(Base + PrefixLength + WordLength, parseIndex)

InBody ==
    /\ At("Body", Base + HeaderLength)
    /\ K \in Packets
    /\ Acceptable(K)
    /\ route = K
    /\ size = Bodies[K]
    /\ parseIndex < size
    /\ scrap = <<>>
    /\ body = Bytes(Base + HeaderLength, parseIndex)

Delivered == Len(delivered) <= Last /\ \A k \in 1 .. Len(delivered) : delivered[k] = Packet(k)

UnderWay == open => InPrefix \/ InRoute \/ InBodyLength \/ InBody

Closed == ~open => K \in Packets /\ ~Acceptable(K) /\ Base < end

ParserInv == TypeOK /\ Delivered /\ UnderWay /\ Closed

-----------------------------------------------------------------------------

LEMMA Constants ==
    /\ Last \in Nat
    /\ Packets = 1 .. Last
    /\ \A p \in Packets : Bodies[p] \in Nat \ {0}
    /\ \A p \in 1 .. Last + 1 : Start[p] \in Nat
    /\ Total \in Nat
    /\ PrefixLength \in Nat \ {0} /\ WordLength \in Nat \ {0}
    /\ HeaderLength = PrefixLength + 2 * WordLength
    /\ HeaderLength \in Nat
<1>1. Last \in Nat /\ Packets = 1 .. Last
  BY StreamAssumption, LenProperties DEF Last, Packets
<1>2. \A p \in Packets : Bodies[p] \in Nat \ {0}
  BY StreamAssumption, ElementOfSeq DEF Packets
<1>3. \A p \in 1 .. Last + 1 : Start[p] \in Nat
  BY StreamAssumption DEF Last
<1>4. Total \in Nat
  BY <1>1, <1>3 DEF Total, Last
<1> QED BY <1>1, <1>2, <1>3, <1>4, LengthsAssumption DEF HeaderLength

\* Packets do not overlap.
LEMMA StartGap ==
    ASSUME NEW p \in Packets, NEW q \in 1 .. Last + 1, p < q
    PROVE  Start[p + 1] <= Start[q]
<1>1. CASE q \in Packets
  BY <1>1, StreamAssumption DEF Packets
<1>2. CASE q \notin Packets /\ p = Last
  BY <1>2, Constants
<1>3. CASE q \notin Packets /\ p # Last
  <2>1. q = Last + 1 /\ p < Last /\ Last \in Packets
    BY <1>3, Constants
  <2>2. Start[p + 1] <= Start[Last]
    BY <2>1, StreamAssumption DEF Packets
  <2>3. Start[Last + 1] = Start[Last] + HeaderLength + Bodies[Last]
    BY <2>1, StreamAssumption
  <2>4. Start[p + 1] \in Nat /\ Start[Last] \in Nat /\ Bodies[Last] \in Nat
    BY <2>1, Constants
  <2> QED BY <2>1, <2>2, <2>3, <2>4, Constants
<1> QED BY <1>1, <1>2, <1>3

LEMMA PacketEnd ==
    ASSUME NEW p \in Packets
    PROVE  /\ Start[p + 1] = Start[p] + HeaderLength + Bodies[p]
           /\ Start[p] \in Nat
           /\ Start[p + 1] \in Nat
           /\ Start[p + 1] <= Total
<1>1. p \in 1 .. Last + 1 /\ p + 1 \in 1 .. Last + 1 /\ p < Last + 1 /\ Last + 1 \in 1 .. Last + 1
  BY Constants
<1>2. Start[p + 1] <= Start[Last + 1]
  BY <1>1, StartGap
<1> QED BY <1>1, <1>2, Constants, StreamAssumption DEF Total, Last

\* A place in the stream belongs to one packet only.
LEMMA StartInjective ==
    ASSUME NEW p \in Packets, NEW q \in 1 .. Last + 1, Start[p] = Start[q]
    PROVE  p = q
<1>1. CASE p < q
  <2>1. Start[p + 1] <= Start[q]
    BY <1>1, StartGap
  <2>2. Start[p] \in Nat /\ Start[p + 1] = Start[p] + HeaderLength + Bodies[p]
    BY PacketEnd
  <2> QED BY <2>1, <2>2, Constants
<1>2. CASE q < p
  <2>1. q \in Packets /\ p \in 1 .. Last + 1
    BY <1>2, Constants
  <2>2. Start[q + 1] <= Start[p]
    BY <1>2, <2>1, StartGap
  <2>3. Start[q] \in Nat /\ Start[q + 1] = Start[q] + HeaderLength + Bodies[q]
    BY <2>1, PacketEnd
  <2> QED BY <2>1, <2>2, <2>3, Constants
<1> QED BY <1>1, <1>2, Constants

-----------------------------------------------------------------------------

LEMMA BytesType ==
    ASSUME NEW i \in Nat, NEW n \in Nat, NEW m \in Nat, i + n <= m
    PROVE  Bytes(i, n) \in Seq(1 .. m) /\ Len(Bytes(i, n)) = n
<1>1. Bytes(i, n) \in [1 .. n -> 1 .. m]
  BY DEF Bytes
<1>2. Bytes(i, n) \in Seq(1 .. m)
  BY <1>1, SeqDef
<1> QED BY <1>1, <1>2, LenProperties

LEMMA BytesConcat ==
    ASSUME NEW i \in Nat, NEW m \in Nat, NEW n \in Nat
    PROVE  Bytes(i, m) \o Bytes(i + m, n) = Bytes(i, m + n)
<1> DEFINE S == 1 .. i + m + n
           left == Bytes(i, m) \o Bytes(i + m, n)
           right == Bytes(i, m + n)
<1>1. Bytes(i, m) \in Seq(S) /\ Len(Bytes(i, m)) = m
  <2>1. i + m + n \in Nat /\ i + m <= i + m + n
    OBVIOUS
  <2> QED BY <2>1, BytesType
<1>2. Bytes(i + m, n) \in Seq(S) /\ Len(Bytes(i + m, n)) = n
  <2>1. i + m \in Nat /\ i + m + n \in Nat /\ (i + m) + n <= i + m + n
    OBVIOUS
  <2> QED BY <2>1, BytesType
<1>3. right \in Seq(S) /\ Len(right) = m + n
  <2>1. m + n \in Nat /\ i + m + n \in Nat /\ i + (m + n) <= i + m + n
    OBVIOUS
  <2> QED BY <2>1, BytesType
<1>4. left \in Seq(S) /\ Len(left) = m + n
  BY <1>1, <1>2, ConcatProperties
<1>5. \A k \in 1 .. Len(left) : left[k] = right[k]
  <2> SUFFICES ASSUME NEW k \in 1 .. m + n PROVE left[k] = right[k]
    BY <1>4
  <2>1. left[k] = IF k <= m THEN Bytes(i, m)[k] ELSE Bytes(i + m, n)[k - m]
    BY <1>1, <1>2, ConcatProperties
  <2>2. right[k] = i + k
    BY DEF Bytes
  <2>3. CASE k <= m
    BY <2>1, <2>2, <2>3 DEF Bytes
  <2>4. CASE ~(k <= m)
    <3>1. k - m \in 1 .. n
      BY <2>4
    <3>2. Bytes(i + m, n)[k - m] = i + m + (k - m)
      BY <3>1 DEF Bytes
    <3>3. i + m + (k - m) = i + k
      OBVIOUS
    <3>4. left[k] = Bytes(i + m, n)[k - m]
      BY <2>1, <2>4
    <3> QED BY <2>2, <3>2, <3>3, <3>4
  <2> QED BY <2>3, <2>4
<1> QED BY <1>3, <1>4, <1>5, SeqEqual

LEMMA BytesEmpty == ASSUME NEW i \in Nat PROVE Bytes(i, 0) = <<>>
<1>1. Bytes(i, 0) \in Seq(1 .. i) /\ Len(Bytes(i, 0)) = 0
  BY BytesType
<1>2. <<>> \in Seq(1 .. i) /\ Len(<<>>) = 0
  BY EmptySeq
<1> QED BY <1>1, <1>2, SeqEqual

-----------------------------------------------------------------------------

\* A number cut into any pieces is the number that lies at its place.
LEMMA WordRead ==
    ASSUME NEW place \in Nat, pos \in Nat, end \in Nat, pos < end,
           parseIndex \in Nat, parseIndex < WordLength,
           pos = place + parseIndex, scrap = Bytes(place, parseIndex)
    PROVE  /\ WordBytes \in Nat \ {0}
           /\ pos + WordBytes <= end
           /\ parseIndex + WordBytes <= WordLength
           /\ Word = Bytes(place, parseIndex + WordBytes)
           /\ WordIsComplete <=> parseIndex + WordBytes = WordLength
<1>1. /\ WordBytes \in Nat \ {0}
      /\ pos + WordBytes <= end
      /\ parseIndex + WordBytes <= WordLength
      /\ WholeWord => parseIndex = 0 /\ WordBytes = WordLength
  BY Constants DEF WordBytes, WholeWord, AtMost, Available
<1>2. Word = Bytes(place, parseIndex + WordBytes)
  <2>1. CASE WholeWord
    BY <1>1, <2>1, Constants DEF Word
  <2>2. CASE ~WholeWord
    BY <1>1, <2>2, BytesConcat DEF Word
  <2> QED BY <2>1, <2>2
<1>3. Len(Word) = parseIndex + WordBytes
  <2>1. parseIndex + WordBytes \in Nat /\ place + (parseIndex + WordBytes) \in Nat
    BY <1>1
  <2> QED BY <1>2, <2>1, BytesType
<1> QED BY <1>1, <1>2, <1>3 DEF WordIsComplete

LEMMA OwnerFound ==
    ASSUME NEW p \in Packets, NEW place \in Nat, Word = Bytes(Start[p] + place, WordLength)
    PROVE  WordOwner(place) = p
<1> DEFINE owners == {q \in Packets : Word = Bytes(Start[q] + place, WordLength)}
<1>1. p \in owners
  OBVIOUS
<1>2. ASSUME NEW q \in owners PROVE q = p
  <2>1. 1 \in 1 .. WordLength
    BY Constants
  <2>2. Bytes(Start[p] + place, WordLength)[1] = Start[p] + place + 1
    BY <2>1 DEF Bytes
  <2>3. Bytes(Start[q] + place, WordLength)[1] = Start[q] + place + 1
    BY <2>1 DEF Bytes
  <2>4. Start[p] \in Nat /\ Start[q] \in Nat
    BY PacketEnd
  <2>5. Start[q] = Start[p]
    BY <2>2, <2>3, <2>4
  <2> QED BY <2>5, StartInjective, Constants
<1>3. owners = {p}
  BY <1>1, <1>2
<1> QED BY <1>3 DEF WordOwner

-----------------------------------------------------------------------------

\* The packet under way exists as soon as one of its bytes was received.
LEMMA Here ==
    ASSUME ParserInv, pos < end, open
    PROVE  /\ K \in Packets /\ K \in 1 .. Last + 1
           /\ Base \in Nat /\ Base <= pos
           /\ Start[K + 1] = Base + HeaderLength + Bodies[K]
           /\ Start[K + 1] <= Total
           /\ Bodies[K] \in Nat \ {0}
<1>1. /\ Len(delivered) \in 0 .. Last
      /\ K \in 1 .. Last + 1
  BY Constants, LenProperties DEF ParserInv, Delivered, TypeOK, K
<1>2. pos \in Nat /\ end \in Nat /\ end <= Total /\ parseIndex \in Nat
  BY Constants DEF ParserInv, TypeOK
<1>3. Base \in Nat
  BY <1>1, Constants DEF Base
<1>4. Base <= pos
  BY <1>2, <1>3, Constants DEF ParserInv, UnderWay, InPrefix, InRoute, InBodyLength, InBody, At
<1>5. K # Last + 1
  BY <1>2, <1>3, <1>4 DEF Base, Total, Last
<1>6. K \in Packets
  BY <1>1, <1>5, Constants
<1> QED BY <1>1, <1>3, <1>4, <1>6, PacketEnd, Constants DEF Base

LEMMA InitInv == Init => ParserInv
<1> SUFFICES ASSUME Init PROVE ParserInv
  OBVIOUS
<1>1. TypeOK
  BY Constants, EmptySeq DEF Init, TypeOK, ParseStates
<1>2. Len(delivered) = 0
  BY EmptySeq DEF Init
<1>3. Delivered
  BY <1>2, Constants DEF Delivered
<1>4. UnderWay
  BY <1>2, StreamAssumption, Constants DEF Init, UnderWay, InPrefix, At, Base, K
<1>5. Closed
  BY DEF Init, Closed
<1> QED BY <1>1, <1>3, <1>4, <1>5 DEF ParserInv

LEMMA ReceiveInv ==
    ASSUME ParserInv, Receive
    PROVE  ParserInv'
<1>1. /\ end' \in 0 .. Total /\ end <= end'
      /\ pos \in 0 .. end'
  BY Constants DEF ParserInv, TypeOK, Receive
<1>2. TypeOK'
  BY <1>1 DEF ParserInv, TypeOK, Receive, parser
<1>3. Delivered'
  BY DEF ParserInv, Delivered, Receive
<1>4. UnderWay'
  <2>1. /\ pos' = pos /\ parseState' = parseState /\ parseIndex' = parseIndex /\ open' = open
        /\ foreign' = foreign /\ scrap' = scrap /\ route' = route /\ size' = size /\ body' = body
        /\ K' = K /\ Base' = Base
    BY DEF Receive, parser, K, Base
  <2>2. CASE InPrefix
    BY <2>1, <2>2 DEF UnderWay, InPrefix, At
  <2>3. CASE InRoute
    BY <2>1, <2>3 DEF UnderWay, InRoute, At
  <2>4. CASE InBodyLength
    BY <2>1, <2>4 DEF UnderWay, InBodyLength, At
  <2>5. CASE InBody
    <3>1. Acceptable(K)'
      BY <2>1, <2>5 DEF InBody, Acceptable
    <3> QED BY <2>1, <2>5, <3>1 DEF UnderWay, InBody, At
  <2> QED BY <2>1, <2>2, <2>3, <2>4, <2>5 DEF ParserInv, UnderWay, Receive
<1>5. Closed'
  BY DEF ParserInv, Closed, Receive
<1> QED BY <1>2, <1>3, <1>4, <1>5 DEF ParserInv

\* The connection is closed at a packet that is not acceptable only.
LEMMA DestroyInv ==
    ASSUME ParserInv, open, pos < end, K \in Packets, ~Acceptable(K), Destroy
    PROVE  ParserInv'
<1>1. pos' \in 0 .. end'
  BY Constants DEF ParserInv, TypeOK, Destroy, stream
<1>2. TypeOK'
  BY <1>1 DEF ParserInv, TypeOK, Destroy, stream, parser
<1>3. Delivered'
  BY DEF ParserInv, Delivered, Destroy, stream, parser
<1>4. UnderWay' /\ K' = K /\ Base' = Base
  BY DEF UnderWay, Destroy, K, Base
<1>5. Base < end
  BY Here, Constants DEF ParserInv, TypeOK
<1>6. Closed'
  BY <1>4, <1>5 DEF Closed, Destroy, stream, Acceptable
<1> QED BY <1>2, <1>3, <1>4, <1>6 DEF ParserInv

LEMMA PrefixInv ==
    ASSUME ParserInv, ParseHeaderPrefix
    PROVE  ParserInv'
<1> DEFINE n == AtMost(Available, PrefixLength - parseIndex)
<1>1. open /\ pos \in Nat /\ end \in Nat /\ end <= Total /\ pos < end /\ parseIndex \in Nat
  BY Constants DEF ParserInv, TypeOK, ParseHeaderPrefix, Available
<1>2. InPrefix
  BY <1>1 DEF ParserInv, UnderWay, InRoute, InBodyLength, InBody, At, ParseHeaderPrefix
<1>3. K \in Packets /\ K \in 1 .. Last + 1 /\ Base \in Nat
  BY <1>1, Here
<1>4. /\ n \in Nat \ {0} /\ n <= PrefixLength - parseIndex
      /\ pos + n <= end
      /\ parseIndex + n \in Nat
  BY <1>1, <1>2, Constants DEF AtMost, Available, InPrefix
<1>5. PrefixMatches(n) <=> K \notin foreign
  <2>1. ASSUME NEW p \in Packets, pos = Start[p] + parseIndex PROVE p = K
    <3>1. Start[p] = Start[K]
      BY <1>1, <1>2, <1>3, <2>1, PacketEnd DEF InPrefix, At, Base
    <3> QED BY <1>3, <3>1, StartInjective
  <2> QED BY <1>2, <1>3, <1>4, <2>1 DEF PrefixMatches, InPrefix, At, Base
<1>6. CASE ~PrefixMatches(n)
  <2>1. Destroy
    BY <1>6 DEF ParseHeaderPrefix
  <2>2. ~Acceptable(K)
    BY <1>5, <1>6 DEF Acceptable
  <2> QED BY <1>1, <1>3, <2>1, <2>2, DestroyInv
<1>7. CASE PrefixMatches(n)
  <2>1. /\ pos' = pos + n /\ UNCHANGED <<stream, scrap, route, size, body, delivered, open>>
        /\ \/ parseIndex + n = PrefixLength /\ parseState' = "HeaderRoute" /\ parseIndex' = 0
           \/ /\ parseIndex + n < PrefixLength
              /\ parseIndex' = parseIndex + n /\ UNCHANGED parseState
    BY <1>7 DEF ParseHeaderPrefix
  <2>2. pos' \in 0 .. end' /\ parseIndex' \in Nat /\ parseState' \in ParseStates
    BY <1>1, <1>4, <2>1 DEF ParserInv, TypeOK, ParseStates, stream
  <2>3. TypeOK'
    BY <2>1, <2>2 DEF ParserInv, TypeOK, stream
  <2>4. Delivered' /\ Closed' /\ K' = K /\ Base' = Base
    BY <1>1, <2>1 DEF ParserInv, Delivered, Closed, K, Base
  <2>5. CASE parseIndex + n = PrefixLength
    <3>1. parseState' = "HeaderRoute" /\ parseIndex' = 0
      BY <1>1, <1>4, <2>1, <2>5, Constants
    <3>2. pos' = Base + PrefixLength + parseIndex'
      <4>1. pos' = pos + n /\ pos = Base + parseIndex
        BY <1>2, <2>1 DEF InPrefix, At
      <4>2. PrefixLength \in Nat
        BY Constants
      <4> HIDE DEF n
      <4> QED BY <1>1, <1>3, <1>4, <2>5, <3>1, <4>1, <4>2
    <3>3. scrap' = Bytes(Base + PrefixLength, 0)
      BY <1>2, <1>3, <2>1, BytesEmpty, Constants DEF InPrefix
    <3>4. K \in Packets \ foreign'
      BY <1>3, <1>5, <1>7, <2>1 DEF stream
    <3> QED BY <2>3, <2>4, <3>1, <3>2, <3>3, <3>4, Constants DEF ParserInv, UnderWay, InRoute, At
  <2>6. CASE parseIndex + n < PrefixLength
    <3>1. parseState' = "HeaderPrefix" /\ parseIndex' = parseIndex + n
      BY <1>1, <1>2, <1>4, <2>1, <2>6, Constants DEF InPrefix, At
    <3>2. pos' = Base + parseIndex'
      BY <1>1, <1>2, <1>3, <1>4, <2>1, <3>1 DEF InPrefix, At
    <3> QED BY <1>2, <2>1, <2>3, <2>4, <2>6, <3>1, <3>2 DEF ParserInv, UnderWay, InPrefix, At
  <2> QED BY <2>1, <2>5, <2>6
<1> QED BY <1>6, <1>7

LEMMA RouteInv ==
    ASSUME ParserInv, ParseHeaderRoute
    PROVE  ParserInv'
<1> DEFINE place == Base + PrefixLength
<1>1. open /\ pos \in Nat /\ end \in Nat /\ end <= Total /\ pos < end /\ parseIndex \in Nat
  BY Constants DEF ParserInv, TypeOK, ParseHeaderRoute, Available
<1>2. InRoute
  BY <1>1 DEF ParserInv, UnderWay, InPrefix, InBodyLength, InBody, At, ParseHeaderRoute
<1>3. K \in Packets /\ K \notin foreign /\ Base \in Nat /\ place \in Nat
  BY <1>1, <1>2, Here, Constants DEF InRoute
<1>4. /\ WordBytes \in Nat \ {0}
      /\ pos + WordBytes <= end
      /\ parseIndex + WordBytes <= WordLength
      /\ Word = Bytes(place, parseIndex + WordBytes)
      /\ WordIsComplete <=> parseIndex + WordBytes = WordLength
  BY <1>1, <1>2, <1>3, WordRead DEF InRoute, At
<1>5. pos = place + parseIndex /\ pos + WordBytes \in 0 .. end /\ parseIndex + WordBytes \in Nat
  BY <1>1, <1>2, <1>4 DEF InRoute, At
<1> HIDE DEF place
<1>6. CASE PartialWord
  <2>1. /\ pos' = pos + WordBytes /\ parseIndex' = parseIndex + WordBytes /\ scrap' = Word
        /\ UNCHANGED <<stream, parseState, route, size, body, delivered, open>>
        /\ parseIndex + WordBytes # WordLength
    BY <1>4, <1>6 DEF PartialWord
  <2>2. scrap' \in Seq(1 .. Total) /\ Len(scrap') < WordLength
    <3>1. place + (parseIndex + WordBytes) <= Total
      BY <1>1, <1>3, <1>4, <1>5, Constants
    <3>2. Word \in Seq(1 .. Total) /\ Len(Word) = parseIndex + WordBytes
      BY <1>3, <1>4, <1>5, <3>1, BytesType, Constants
    <3> QED BY <1>4, <1>5, <2>1, <3>2, Constants
  <2>3. TypeOK'
    BY <1>5, <2>1, <2>2 DEF ParserInv, TypeOK, stream
  <2>4. Delivered' /\ Closed' /\ K' = K /\ Base' = Base /\ place' = place
    BY <1>1, <2>1 DEF ParserInv, Delivered, Closed, K, Base, place
  <2>5. pos' = place + parseIndex' /\ parseIndex' < WordLength
    BY <1>1, <1>3, <1>4, <1>5, <2>1, Constants
  <2>6. InRoute'
    BY <1>2, <1>4, <2>1, <2>4, <2>5 DEF InRoute, At, stream, place
  <2> QED BY <2>3, <2>4, <2>6 DEF ParserInv, UnderWay
<1>7. CASE ~PartialWord
  <2>1. /\ WordIsComplete
        /\ pos' = pos + WordBytes /\ route' = WordOwner(PrefixLength) /\ scrap' = <<>>
        /\ parseIndex' = 0 /\ parseState' = "HeaderBodyLength"
        /\ UNCHANGED <<stream, size, body, delivered, open>>
    BY <1>7 DEF ParseHeaderRoute
  <2>2. route' = K
    <3>1. Word = Bytes(Start[K] + PrefixLength, WordLength)
      BY <1>4, <2>1 DEF place, Base
    <3> QED BY <1>3, <2>1, <3>1, OwnerFound, Constants
  <2>3. TypeOK'
    <3>1. scrap' \in Seq(1 .. Total) /\ Len(scrap') < WordLength
      BY <2>1, EmptySeq, Constants
    <3>2. pos' \in 0 .. end' /\ parseIndex' \in Nat /\ parseState' \in ParseStates
      BY <1>5, <2>1 DEF ParseStates, stream
    <3> QED BY <1>3, <2>1, <2>2, <3>1, <3>2 DEF ParserInv, TypeOK, stream
  <2>4. Delivered' /\ Closed' /\ K' = K /\ Base' = Base
    BY <1>1, <2>1 DEF ParserInv, Delivered, Closed, K, Base
  <2>5. pos' = Base + PrefixLength + WordLength + parseIndex'
    BY <1>1, <1>3, <1>4, <1>5, <2>1, Constants DEF place
  <2>6. scrap' = Bytes(Base + PrefixLength + WordLength, parseIndex')
    <3>1. Base + PrefixLength + WordLength \in Nat
      BY <1>3, Constants
    <3> QED BY <2>1, <3>1, BytesEmpty
  <2>7. InBodyLength'
    BY <1>3, <2>1, <2>2, <2>4, <2>5, <2>6, Constants DEF InBodyLength, At, stream
  <2> QED BY <2>3, <2>4, <2>7 DEF ParserInv, UnderWay
<1> QED BY <1>6, <1>7

LEMMA BodyLengthInv ==
    ASSUME ParserInv, ParseHeaderBodyLength
    PROVE  ParserInv'
<1> DEFINE place == Base + PrefixLength + WordLength
<1>1. open /\ pos \in Nat /\ end \in Nat /\ end <= Total /\ pos < end /\ parseIndex \in Nat
  BY Constants DEF ParserInv, TypeOK, ParseHeaderBodyLength, Available
<1>2. InBodyLength
  BY <1>1 DEF ParserInv, UnderWay, InPrefix, InRoute, InBody, At, ParseHeaderBodyLength
<1>3. K \in Packets /\ K \notin foreign /\ Base \in Nat /\ place \in Nat
      /\ Bodies[K] \in Nat \ {0}
  BY <1>1, <1>2, Here, Constants DEF InBodyLength
<1>4. /\ WordBytes \in Nat \ {0}
      /\ pos + WordBytes <= end
      /\ parseIndex + WordBytes <= WordLength
      /\ Word = Bytes(place, parseIndex + WordBytes)
      /\ WordIsComplete <=> parseIndex + WordBytes = WordLength
  BY <1>1, <1>2, <1>3, WordRead DEF InBodyLength, At
<1>5. pos = place + parseIndex /\ pos + WordBytes \in 0 .. end /\ parseIndex + WordBytes \in Nat
  BY <1>1, <1>2, <1>4 DEF InBodyLength, At
<1> HIDE DEF place
<1>6. CASE PartialWord
  <2>1. /\ pos' = pos + WordBytes /\ parseIndex' = parseIndex + WordBytes /\ scrap' = Word
        /\ UNCHANGED <<stream, parseState, route, size, body, delivered, open>>
        /\ parseIndex + WordBytes # WordLength
    BY <1>4, <1>6 DEF PartialWord
  <2>2. scrap' \in Seq(1 .. Total) /\ Len(scrap') < WordLength
    <3>1. place + (parseIndex + WordBytes) <= Total
      BY <1>1, <1>3, <1>4, <1>5, Constants
    <3>2. Word \in Seq(1 .. Total) /\ Len(Word) = parseIndex + WordBytes
      BY <1>3, <1>4, <1>5, <3>1, BytesType, Constants
    <3> QED BY <1>4, <1>5, <2>1, <3>2, Constants
  <2>3. TypeOK'
    BY <1>5, <2>1, <2>2 DEF ParserInv, TypeOK, stream
  <2>4. Delivered' /\ Closed' /\ K' = K /\ Base' = Base /\ place' = place
    BY <1>1, <2>1 DEF ParserInv, Delivered, Closed, K, Base, place
  <2>5. pos' = place + parseIndex' /\ parseIndex' < WordLength
    BY <1>1, <1>3, <1>4, <1>5, <2>1, Constants
  <2>6. InBodyLength'
    BY <1>2, <1>4, <2>1, <2>4, <2>5 DEF InBodyLength, At, stream, place
  <2> QED BY <2>3, <2>4, <2>6 DEF ParserInv, UnderWay
<1>7. ASSUME WordIsComplete PROVE LengthRead = Bodies[K]
  <2>1. Word = Bytes(Start[K] + (PrefixLength + WordLength), WordLength)
    <3>1. place = Start[K] + (PrefixLength + WordLength)
      BY <1>3, Constants DEF place, Base
    <3> QED BY <1>4, <1>7, <3>1
  <2>2. WordOwner(PrefixLength + WordLength) = K
    <3>1. PrefixLength + WordLength \in Nat
      BY Constants
    <3> QED BY <1>3, <2>1, <3>1, OwnerFound
  <2> QED BY <1>3, <2>2, Constants DEF LengthRead, Garbage
<1>8. CASE WordIsComplete /\ LengthRead > MaxPacketSize
  <2>1. Destroy
    <3>1. ~(LengthRead <= MaxPacketSize)
      BY <1>3, <1>7, <1>8, LengthsAssumption
    <3>2. ~PartialWord
      BY <1>8 DEF PartialWord
    <3> QED BY <3>1, <3>2 DEF ParseHeaderBodyLength
  <2>2. ~Acceptable(K)
    BY <1>3, <1>7, <1>8, LengthsAssumption DEF Acceptable
  <2> QED BY <1>1, <1>3, <2>1, <2>2, DestroyInv
<1>9. CASE WordIsComplete /\ ~(LengthRead > MaxPacketSize)
  <2>1. /\ pos' = pos + WordBytes /\ size' = Bodies[K] /\ body' = <<>> /\ scrap' = <<>>
        /\ parseIndex' = 0 /\ parseState' = "Body"
        /\ UNCHANGED <<stream, route, delivered, open>>
    BY <1>7, <1>9 DEF ParseHeaderBodyLength, PartialWord
  <2>2. TypeOK'
    <3>1. scrap' \in Seq(1 .. Total) /\ Len(scrap') < WordLength /\ body' \in Seq(1 .. Total)
      BY <2>1, EmptySeq, Constants
    <3>2. pos' \in 0 .. end' /\ parseIndex' \in Nat /\ parseState' \in ParseStates /\ size' \in Nat
      BY <1>3, <1>5, <2>1 DEF ParseStates, stream
    <3> QED BY <2>1, <3>1, <3>2 DEF ParserInv, TypeOK, stream
  <2>3. Delivered' /\ Closed' /\ K' = K /\ Base' = Base
    BY <1>1, <2>1 DEF ParserInv, Delivered, Closed, K, Base
  <2>4. pos' = Base + HeaderLength + parseIndex'
    BY <1>1, <1>3, <1>4, <1>5, <1>9, <2>1, Constants DEF place
  <2>5. body' = Bytes(Base + HeaderLength, parseIndex')
    <3>1. Base + HeaderLength \in Nat
      BY <1>3, Constants
    <3> QED BY <2>1, <3>1, BytesEmpty
  <2>6. Acceptable(K)'
    BY <1>3, <1>7, <1>9, <2>1, <2>3, LengthsAssumption DEF Acceptable, stream
  <2>7. InBody'
    BY <1>2, <1>3, <2>1, <2>3, <2>4, <2>5, <2>6 DEF InBodyLength, InBody, At
  <2> QED BY <2>2, <2>3, <2>7 DEF ParserInv, UnderWay
<1> QED BY <1>6, <1>8, <1>9 DEF ParseHeaderBodyLength

LEMMA BodyInv ==
    ASSUME ParserInv, ParseBody
    PROVE  ParserInv'
<1> DEFINE place == Base + HeaderLength
           copied == body \o Bytes(pos, BodyBytes)
<1>1. open /\ pos \in Nat /\ end \in Nat /\ end <= Total /\ pos < end /\ parseIndex \in Nat
  BY Constants DEF ParserInv, TypeOK, ParseBody, Available
<1>2. InBody
  BY <1>1 DEF ParserInv, UnderWay, InPrefix, InRoute, InBodyLength, At, ParseBody
<1>3. /\ K \in Packets /\ K \in 1 .. Last + 1 /\ Base \in Nat /\ place \in Nat
      /\ Bodies[K] \in Nat \ {0} /\ size = Bodies[K]
      /\ Start[K + 1] = place + Bodies[K] /\ Start[K + 1] <= Total
  BY <1>1, <1>2, Here, Constants DEF InBody
<1>4. /\ BodyBytes \in Nat \ {0}
      /\ pos + BodyBytes <= end
      /\ parseIndex + BodyBytes <= size
  BY <1>1, <1>2, <1>3 DEF InBody, BodyBytes, AtMost, Available
<1>5. pos = place + parseIndex /\ pos + BodyBytes \in 0 .. end /\ parseIndex + BodyBytes \in Nat
  BY <1>1, <1>2, <1>4 DEF InBody, At
<1>6. copied = Bytes(place, parseIndex + BodyBytes)
  <2>1. body = Bytes(place, parseIndex) /\ pos = place + parseIndex
    BY <1>2, <1>5 DEF InBody
  <2>2. BodyBytes \in Nat
    BY <1>4
  <2>3. place \in Nat /\ parseIndex \in Nat
    BY <1>1, <1>3
  <2>4. copied = Bytes(place, parseIndex) \o Bytes(place + parseIndex, BodyBytes)
    BY <2>1
  <2> HIDE DEF place, copied
  <2> QED BY <2>2, <2>3, <2>4, BytesConcat
<1> HIDE DEF place, copied
<1>7. copied \in Seq(1 .. Total)
  <2>1. place + (parseIndex + BodyBytes) <= Total
    BY <1>1, <1>3, <1>4, <1>5, Constants
  <2> QED BY <1>3, <1>5, <1>6, <2>1, BytesType, Constants
<1>8. pos' = pos + BodyBytes /\ UNCHANGED <<stream, scrap, route, size, open>>
  BY DEF ParseBody
<1>9. CASE parseIndex + BodyBytes < size
  <2>1. parseIndex' = parseIndex + BodyBytes /\ body' = copied /\ UNCHANGED <<parseState, delivered>>
    BY <1>3, <1>4, <1>5, <1>9 DEF ParseBody, copied
  <2>2. TypeOK'
    BY <1>5, <1>7, <1>8, <2>1 DEF ParserInv, TypeOK, stream
  <2>3. Delivered' /\ Closed' /\ K' = K /\ Base' = Base
    BY <1>1, <1>8, <2>1 DEF ParserInv, Delivered, Closed, K, Base
  <2>4. pos' = place + parseIndex'
    BY <1>1, <1>3, <1>4, <1>5, <1>8, <2>1
  <2>5. Acceptable(K)'
    BY <1>2, <1>8, <2>3 DEF InBody, Acceptable, stream
  <2>6. InBody'
    BY <1>2, <1>6, <1>8, <1>9, <2>1, <2>3, <2>4, <2>5 DEF InBody, At, place
  <2> QED BY <2>2, <2>3, <2>6 DEF ParserInv, UnderWay
<1>10. CASE ~(parseIndex + BodyBytes < size)
  <2> DEFINE packet == [route |-> route, body |-> copied]
             Callbacks == [route : Packets \cup {Garbage}, body : Seq(1 .. Total)]
  <2>1. /\ delivered' = Append(delivered, packet)
        /\ parseIndex' = 0 /\ parseState' = "HeaderPrefix" /\ body' = <<>>
    BY <1>3, <1>5, <1>10 DEF ParseBody, copied
  <2>2. parseIndex + BodyBytes = size
    BY <1>3, <1>4, <1>5, <1>10
  <2>3. packet = Packet(K)
    BY <1>2, <1>3, <1>6, <2>2 DEF Packet, InBody, place, Base
  <2>4. packet \in Callbacks /\ delivered \in Seq(Callbacks)
    BY <1>2, <1>3, <1>7 DEF ParserInv, TypeOK, InBody
  <2>5. /\ delivered' \in Seq(Callbacks)
        /\ Len(delivered') = Len(delivered) + 1
        /\ delivered'[Len(delivered) + 1] = packet
        /\ \A k \in 1 .. Len(delivered) : delivered'[k] = delivered[k]
    BY <2>1, <2>4
  <2>6. TypeOK'
    <3>1. body' \in Seq(1 .. Total)
      BY <2>1, EmptySeq
    <3>2. pos' \in 0 .. end' /\ parseIndex' \in Nat /\ parseState' \in ParseStates
      BY <1>5, <1>8, <2>1 DEF ParseStates, stream
    <3> QED BY <1>8, <2>5, <3>1, <3>2 DEF ParserInv, TypeOK, stream
  <2>7. Delivered'
    <3>1. Len(delivered) \in Nat
      BY <2>4, LenProperties
    <3>2. Len(delivered') <= Last
      BY <1>3, <2>5, <3>1, Constants DEF K
    <3>3. ASSUME NEW k \in 1 .. Len(delivered') PROVE delivered'[k] = Packet(k)
      <4>1. k \in 1 .. Len(delivered) \/ k = K
        BY <2>5, <3>1 DEF K
      <4> QED BY <2>3, <2>5, <4>1 DEF ParserInv, Delivered, K
    <3> QED BY <3>2, <3>3 DEF Delivered, Packet
  <2>8. K' = K + 1 /\ Base' = Start[K + 1]
    BY <2>5 DEF K, Base
  <2>9. pos' = Base' + parseIndex'
    BY <1>1, <1>3, <1>4, <1>5, <1>8, <2>1, <2>2, <2>8
  <2>10. InPrefix'
    BY <1>2, <1>8, <2>1, <2>9, Constants DEF InBody, InPrefix, At
  <2> QED BY <1>1, <1>8, <2>6, <2>7, <2>10 DEF ParserInv, UnderWay, Closed
<1> QED BY <1>9, <1>10

-----------------------------------------------------------------------------

LEMMA NextInv == ParserInv /\ [Next]_vars => ParserInv'
<1> SUFFICES ASSUME ParserInv, [Next]_vars PROVE ParserInv'
  OBVIOUS
<1>1. CASE Receive
  BY <1>1, ReceiveInv
<1>2. CASE ParseHeaderPrefix
  BY <1>2, PrefixInv
<1>3. CASE ParseHeaderRoute
  BY <1>3, RouteInv
<1>4. CASE ParseHeaderBodyLength
  BY <1>4, BodyLengthInv
<1>5. CASE ParseBody
  BY <1>5, BodyInv
<1>6. CASE UNCHANGED vars
  BY <1>6 DEF vars, stream, parser, ParserInv, TypeOK, Delivered, UnderWay, Closed, InPrefix,
              InRoute, InBodyLength, InBody, At, K, Base, Acceptable
<1> QED BY <1>1, <1>2, <1>3, <1>4, <1>5, <1>6 DEF Next

\* However the stream is cut, the packet callback is given the packets that were
\* sent, whole, in order, each once and with its own route.
THEOREM PacketsStayIntact == Spec => []PacketsAreIntact
<1>1. ParserInv => PacketsAreIntact
  BY Constants, LenProperties DEF ParserInv, TypeOK, Delivered, PacketsAreIntact, Last
<1> QED BY <1>1, InitInv, NextInv, PTL DEF Spec

\* The connection is closed at the first packet that is foreign or too large,
\* after everything before it was delivered.
THEOREM ClosesForAReason == Spec => []ClosedForAReason
<1>1. ParserInv => ClosedForAReason
  <2> SUFFICES ASSUME ParserInv, ~open PROVE ClosedForAReason
    BY DEF ClosedForAReason
  <2>1. K \in Packets /\ ~Acceptable(K) /\ Start[K] < end
    BY DEF ParserInv, Closed, Base
  <2>2. Len(delivered) = K - 1
    BY LenProperties DEF ParserInv, TypeOK, K
  <2> QED BY <2>1, <2>2 DEF ClosedForAReason
<1> QED BY <1>1, InitInv, NextInv, PTL DEF Spec

\* Between two chunks no complete packet is kept back.
THEOREM NothingStaysBehind == Spec => []NothingIsHeldBack
<1>1. ParserInv => NothingIsHeldBack
  <2> SUFFICES ASSUME ParserInv, pos = end, NEW p \in Packets,
                      \A q \in 1 .. p : Acceptable(q), Start[p + 1] <= end,
                      ~(Len(delivered) >= p)
               PROVE  FALSE
    BY DEF NothingIsHeldBack
  <2>1. Len(delivered) \in Nat /\ pos \in Nat /\ end \in Nat /\ parseIndex \in Nat
    BY LenProperties, Constants DEF ParserInv, TypeOK
  <2>2. K \in 1 .. p /\ K \in Packets
    BY <2>1, Constants DEF K
  <2>3. open
    BY <2>2 DEF ParserInv, Closed
  <2>4. Start[K + 1] = Base + HeaderLength + Bodies[K] /\ Base \in Nat /\ Bodies[K] \in Nat \ {0}
        /\ Start[K + 1] \in Nat /\ Start[p + 1] \in Nat
    BY <2>2, PacketEnd, Constants DEF Base
  <2>5. pos < Start[K + 1]
    BY <2>1, <2>3, <2>4, Constants
       DEF ParserInv, UnderWay, InPrefix, InRoute, InBodyLength, InBody, At
  <2>6. Start[K + 1] <= Start[p + 1]
    <3>1. CASE K = p
      BY <2>4, <3>1
    <3>2. CASE K # p
      BY <2>2, <2>4, <3>2, StartGap, PacketEnd, Constants
    <3> QED BY <3>1, <3>2
  <2> QED BY <2>1, <2>4, <2>5, <2>6
<1> QED BY <1>1, InitInv, NextInv, PTL DEF Spec

=============================================================================
