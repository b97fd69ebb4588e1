---------------------------- MODULE MCPacketParser ----------------------------
(* Four packets, the last one too large; any of them may be foreign.          *)
EXTENDS PacketParser

MCBodies == <<1, 3, 2, 4>>
MCStart[p \in 1 .. Len(MCBodies) + 1] ==
    IF p = 1 THEN 0 ELSE MCStart[p - 1] + PrefixLength + 2 * WordLength + MCBodies[p - 1]
=============================================================================
