----------------------------- MODULE MCWorldState -----------------------------
(***************************************************************************)
(* Addresses of three bytes, so that nodes split at every depth.           *)
(***************************************************************************)
EXTENDS BlockRecords

CONSTANT nobody

A == <<0, 0, 0>>
B == <<0, 1, 0>>
C == <<0, 1, 1>>
D == <<1, 0, 0>>

Tx(from, to, amount, fee, nonce) == [from |-> from, to |-> to, amount |-> amount, fee |-> fee, nonce |-> nonce]

Pay == Tx(A, C, 2, 1, 1)
PayOn == Tx(C, D, 2, 0, 1)
Burn == Tx(A, nobody, 1, 1, 2)
Back == Tx(A, B, 1, 0, 1)
Gap == Tx(B, A, 1, 0, 2)
Huge == Tx(B, D, 15, 1, 1)
Same == Tx(A, A, 1, 0, 1)

Funded(a, b) ==
    [NoChanges EXCEPT ![a] = Account(4, 0), ![b] = Account(IF b = D THEN 3 ELSE 4, 0)]

MCExodus == {Funded(A, B), Funded(A, D)}
MCSelf == D
MCMiners == {C}
MCUncleLists == {<<>>, <<[miner |-> B, delta |-> 1], [miner |-> C, delta |-> 2]>>}
MCUncleReward == <<2, 1>>
MCOffers == {<<Pay, PayOn, Burn>>}
MCPools == {<<PayOn, Huge, Back, Same, Burn, Gap, Pay>>}
=============================================================================
