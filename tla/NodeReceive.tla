----------------------------- MODULE NodeReceive -----------------------------
(***************************************************************************)
(* How the node receives packets from the router: handleRemoteData of      *)
(* src/GraphWrap.c, one step for the read and one for each turn of the     *)
(* loop behind it.                                                         *)
(***************************************************************************)
EXTENDS Framing

CONSTANTS
    Inputs,    \* the streams the router may send
    Capacity   \* size of the local buffer: 20 * mtu

ASSUME ReceiveAssumption ==
    /\ Inputs \subseteq Seq(Byte)
    /\ Capacity \in Nat /\ Capacity >= Header

VARIABLES
    input,   \* what the router sends
    wire,    \* the bytes of it that have not been read
    buffer,  \* the local buffer, from head to tail
    state,   \* "waiting" in poll, "scanning" the buffer, "closed" after the
             \* end of the stream, "full" after a read with no room for a byte
    pos,     \* history: bytes shifted out of the buffer
    found    \* history: packets given to handlePacket

vars == <<input, wire, buffer, state, pos, found>>

Init ==
    /\ input \in Inputs
    /\ wire = input
    /\ buffer = <<>>
    /\ state = "waiting"
    /\ pos = 0
    /\ found = <<>>

\* Mutant: what is in the buffer already is not counted.
RoomOfEmpty == Capacity

Room == Capacity - Len(buffer)

\* read returns some of the bytes there are, at most as many as fit.
Read ==
    /\ state = "waiting"
    /\ \E n \in 1..Len(wire) :
          /\ n <= Room
          /\ buffer' = buffer \o SubSeq(wire, 1, n)
          /\ wire' = SubSeq(wire, n + 1, Len(wire))
    /\ state' = "scanning"
    /\ UNCHANGED <<input, pos, found>>

\* read fails: the router has closed the connection, or it was reset with bytes
\* on the way.  The node shuts down.
StreamEnds ==
    /\ state = "waiting"
    /\ state' = "closed"
    /\ buffer' = <<>>
    /\ UNCHANGED <<input, wire, pos, found>>

\* read returns 0 because there is no room for a byte.  The node takes it for the
\* end of the stream and shuts down.
BufferIsFull ==
    /\ state = "waiting"
    /\ Room = 0 /\ wire # <<>>
    /\ state' = "full"
    /\ buffer' = <<>>
    /\ UNCHANGED <<input, wire, pos, found>>


DesyncKeepsTail ==
    /\ state = "scanning"
    /\ NextPacket(buffer) < 0
    /\ buffer' = Shifted(buffer, Len(buffer), 1)
    /\ pos' = pos + 1
    /\ UNCHANGED <<input, wire, state, found>>

DesyncClearsAll ==
    /\ state = "scanning"
    /\ NextPacket(buffer) < 0
    /\ buffer' = <<>>
    /\ pos' = pos + Len(buffer)
    /\ UNCHANGED <<input, wire, state, found>>

\* No packet starts at the head: one byte is shifted out and the tail moves.
Desync ==
    /\ state = "scanning"
    /\ NextPacket(buffer) < 0
    /\ buffer' = Tail(buffer)
    /\ pos' = pos + 1
    /\ UNCHANGED <<input, wire, state, found>>

TakePacket ==
    /\ state = "scanning"
    /\ NextPacket(buffer) > 0
    /\ LET size == NextPacket(buffer)
       IN  /\ found' = Append(found, SubSeq(buffer, 1, size))
           /\ buffer' = SubSeq(buffer, size + 1, Len(buffer))
           /\ pos' = pos + size
    /\ UNCHANGED <<input, wire, state>>

\* Mutant: the loop ends on an error too.
ScannedOrLost ==
    /\ state = "scanning"
    /\ NextPacket(buffer) <= 0
    /\ state' = "waiting"
    /\ UNCHANGED <<input, wire, buffer, pos, found>>

\* Nothing whole is left: back to poll.
Scanned ==
    /\ state = "scanning"
    /\ NextPacket(buffer) = 0
    /\ state' = "waiting"
    /\ UNCHANGED <<input, wire, buffer, pos, found>>

NodeStep == Read \/ BufferIsFull \/ Desync \/ TakePacket \/ Scanned

Next == NodeStep \/ StreamEnds

\* The node reads whenever poll reports bytes; it is the router that closes.
Spec == Init /\ [][Next]_vars /\ WF_vars(NodeStep)

-----------------------------------------------------------------------------

ReceiveTypeOK ==
    /\ input \in Seq(Byte) /\ wire \in Seq(Byte)
    /\ buffer \in Seq(Byte) /\ Len(buffer) <= Capacity
    /\ state \in {"waiting", "scanning", "closed", "full"}
    /\ pos \in Nat /\ pos <= Len(input)
    /\ found \in Seq(Seq(Byte))

Stopped == state \in {"closed", "full"}

(***************************************************************************)
(* The buffer and the socket hold the rest of the stream, nothing missing  *)
(* and nothing twice, at every step of the loop.                           *)
(***************************************************************************)
BufferIsStream ==
    ~Stopped => buffer \o wire = SubSeq(input, pos + 1, Len(input))

(***************************************************************************)
(* The node gives up with a full buffer only for a packet that would not   *)
(* fit into it - not for garbage, and not for packets it had yet to serve. *)
(***************************************************************************)
FullOnlyForLongFrames ==
    state = "full" =>
        LET rest == SubSeq(input, pos + 1, Len(input))
        IN  /\ Len(rest) > Capacity
            /\ rest[1] = Magic /\ rest[2] = Version
            /\ Header + rest[Header] > Capacity

(***************************************************************************)
(* The packets found are those of one scan over the stream: they do not    *)
(* depend on how reads cut it, and after bytes that are not a packet the   *)
(* node finds the next one that is.                                        *)
(***************************************************************************)
S == INSTANCE Scanner
ScansTheStream == S!SSpec


=============================================================================
