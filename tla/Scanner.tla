------------------------------- MODULE Scanner -------------------------------
(***************************************************************************)
(* What a receive loop promises: it finds the packets that one scan over   *)
(* the whole stream finds, however the reads cut it.                       *)
(***************************************************************************)
EXTENDS Framing

VARIABLES
    input,   \* the stream, from its first byte to its last
    pos,     \* how many bytes of it have been passed
    found    \* the packets found, in order

scan == <<input, pos, found>>

Rest == SubSeq(input, pos + 1, Len(input))

SInit == input \in Seq(Byte) /\ pos = 0 /\ found = <<>>

\* No packet starts here: the next one is looked for one byte further.
Skip ==
    /\ NextPacket(Rest) < 0
    /\ pos' = pos + 1
    /\ UNCHANGED <<input, found>>

Take ==
    /\ NextPacket(Rest) > 0
    /\ found' = Append(found, SubSeq(Rest, 1, NextPacket(Rest)))
    /\ pos' = pos + NextPacket(Rest)
    /\ UNCHANGED input

SNext == Skip \/ Take

SSpec == SInit /\ [][SNext]_scan

=============================================================================
