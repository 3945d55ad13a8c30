-------------------------- MODULE MCPacketCustody ---------------------------
(***************************************************************************)
(* A packet of three chunks, the first and the last with the same payload, *)
(* one payload that belongs to no chunk, and two fragments in flight.      *)
(***************************************************************************)
EXTENDS PacketCustody

CONSTANTS a, b, junk
MCPayloads == {a, b, junk}
MCContent == [i \in 0 .. 2 |-> IF i = 1 THEN b ELSE a]
MCLength == [p \in {a, b, junk} |-> IF p = b THEN 1 ELSE 2]
=============================================================================
