------------------------------- MODULE Framing -------------------------------
(***************************************************************************)
(* Packets in a stream of bytes: gnw_nextPacket of src/lib/GraphNetwork.c  *)
(* and packet_shift of src/lib/packet.c, which the receive loops of the    *)
(* router and of the node are built from.                                  *)
(*                                                                         *)
(* A header is Header bytes long: the magic byte first, the version        *)
(* second, the length of the payload last.  The type and the source lie    *)
(* between and are not looked at here, and the length is one byte wide.    *)
(* The code computes the size in 32 bits; payloads here are shorter than   *)
(* 2^32 - 11 bytes, as all are that the programs of the repository send.   *)
(***************************************************************************)
EXTENDS Integers, Sequences

CONSTANTS Byte, Magic, Version, Header

ASSUME FramingAssumption ==
    /\ Byte \subseteq Nat
    /\ Magic \in Byte /\ Version \in Byte
    /\ Header \in Nat /\ Header >= 3

\* The size of the packet at the front of b; 0 while it is incomplete; negative
\* when no packet starts there.
NextPacket(b) ==
    IF Len(b) < Header THEN 0
    ELSE IF b[1] # Magic THEN -1
    ELSE IF b[2] # Version THEN -2
    ELSE LET size == Header + b[Header]
         IN  IF size <= Len(b) THEN size ELSE 0

\* packet_shift on the first `size' bytes of b: k of them go, the others move
\* down, and the bytes behind stay as they were.
Shifted(b, size, k) ==
    [i \in 1..Len(b) |-> IF i <= size - k THEN b[i + k] ELSE b[i]]

=============================================================================
