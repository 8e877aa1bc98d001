---------------------------- MODULE RouterReceive ----------------------------
(***************************************************************************)
(* How the router receives packets from one client: handle_event of        *)
(* src/GraphRouter.c, one step for the read and one for each turn of the   *)
(* search behind it.  The bytes of the local buffer are those up to        *)
(* buffer_tail; the search works on the first buffer_size of them.         *)
(***************************************************************************)
EXTENDS Framing, SequencesExt

CONSTANTS
    RouterInputs,   \* the streams the client may send
    Mtu,            \* most bytes of one read
    RouterCapacity  \* size of the local buffer: 20 * mtu

ASSUME RouterReceiveAssumption ==
    /\ RouterInputs \subseteq Seq(Byte)
    /\ Mtu \in Nat
    /\ RouterCapacity \in Nat \ {0}

VARIABLES
    rInput,        \* what the client sends
    rWire,         \* the bytes of it that have not been read
    rBuffer,       \* the local buffer, up to buffer_tail
    buffer_size,   \* how many bytes of it the search still works on
    rState,        \* "polling", "searching", or "failed": an assertion
    rPos,          \* history: bytes shifted out of the buffer
    rFound         \* history: packets given to handle_packet

routerVars == <<rInput, rWire, rBuffer, buffer_size, rState, rPos, rFound>>

RouterInit ==
    /\ rInput \in RouterInputs
    /\ rWire = rInput
    /\ rBuffer = <<>>
    /\ buffer_size = 0
    /\ rState = "polling"
    /\ rPos = 0
    /\ rFound = <<>>

RouterRoom == RouterCapacity - Len(rBuffer)

RouterRead ==
    /\ rState = "polling"
    /\ \E n \in 1..Min({Mtu, Len(rWire)}) :
          /\ n < RouterRoom
          /\ rBuffer' = rBuffer \o SubSeq(rWire, 1, n)
          /\ buffer_size' = Len(rBuffer')
          /\ rWire' = SubSeq(rWire, n + 1, Len(rWire))
    /\ rState' = "searching"
    /\ UNCHANGED <<rInput, rPos, rFound>>

Overflow ==
    /\ rState = "polling"
    /\ \E n \in 1..Min({Mtu, Len(rWire)}) :
          /\ n >= RouterRoom
          /\ rWire' = SubSeq(rWire, n + 1, Len(rWire))
    /\ rState' = "failed"
    /\ UNCHANGED <<rInput, rBuffer, buffer_size, rPos, rFound>>

Searched == SubSeq(rBuffer, 1, buffer_size)

\* No packet starts at the front: one byte is shifted out of what is searched,
\* and buffer_tail stays where it was.
RouterDesync ==
    /\ rState = "searching"
    /\ NextPacket(Searched) < 0
    /\ rBuffer' = Shifted(rBuffer, buffer_size, 1)
    /\ buffer_size' = buffer_size - 1
    /\ rPos' = rPos + 1
    /\ UNCHANGED <<rInput, rWire, rState, rFound>>

\* Mutants: the tail does not move back; the packet is copied out after the shift.
TakeKeepsTail ==
    /\ rState = "searching"
    /\ NextPacket(Searched) > 0
    /\ LET size == NextPacket(Searched)
       IN  /\ rFound' = Append(rFound, SubSeq(rBuffer, 1, size))
           /\ rBuffer' = Shifted(rBuffer, buffer_size, size)
           /\ buffer_size' = 0
           /\ rPos' = rPos + size
    /\ rState' = "polling"
    /\ UNCHANGED <<rInput, rWire>>
TakeAfterShift ==
    /\ rState = "searching"
    /\ NextPacket(Searched) > 0
    /\ LET size == NextPacket(Searched)
           rest == Shifted(rBuffer, buffer_size, size)
       IN  /\ rFound' = Append(rFound, SubSeq(rest, 1, size))
           /\ rBuffer' = SubSeq(rest, 1, Len(rBuffer) - size)
           /\ buffer_size' = 0
           /\ rPos' = rPos + size
    /\ rState' = "polling"
    /\ UNCHANGED <<rInput, rWire>>

\* One packet is taken out, and that ends the call.
RouterTakePacket ==
    /\ rState = "searching"
    /\ NextPacket(Searched) > 0
    /\ LET size == NextPacket(Searched)
       IN  /\ rFound' = Append(rFound, SubSeq(rBuffer, 1, size))
           /\ rBuffer' = SubSeq(Shifted(rBuffer, buffer_size, size),
                               1, Len(rBuffer) - size)
           /\ buffer_size' = 0
           /\ rPos' = rPos + size
    /\ rState' = "polling"
    /\ UNCHANGED <<rInput, rWire>>

NothingFound ==
    /\ rState = "searching"
    /\ NextPacket(Searched) = 0
    /\ rState' = "polling"
    /\ buffer_size' = 0
    /\ UNCHANGED <<rInput, rWire, rBuffer, rPos, rFound>>

RouterNext ==
    RouterRead \/ Overflow \/ RouterDesync \/ RouterTakePacket \/ NothingFound

RouterSpec == RouterInit /\ [][RouterNext]_routerVars

-----------------------------------------------------------------------------

RouterTypeOK ==
    /\ rInput \in Seq(Byte) /\ rWire \in Seq(Byte)
    /\ rBuffer \in Seq(Byte) /\ Len(rBuffer) < RouterCapacity
    /\ buffer_size \in 0..Len(rBuffer)
    /\ rState \in {"polling", "searching", "failed"}
    /\ rPos \in Nat
    /\ rFound \in Seq(Seq(Byte))

(***************************************************************************)
(* What handle_packet is given begins with a header of the right magic and *)
(* version and is as long as that header says (its length not wrapping the *)
(* sum, as in Framing) - also after garbage, when stale bytes may make up  *)
(* the rest of it.  gnw_parse_header asserts the first two                 *)
(* (GraphNetwork.c:251-252), and a failed assertion ends the router.       *)
(***************************************************************************)
FoundAreFrames ==
    /\ RouterTypeOK
    /\ \A i \in DOMAIN rFound : NextPacket(rFound[i]) = Len(rFound[i])

(***************************************************************************)
(* As long as no byte has had to be dropped, the packets found are those   *)
(* of one scan over the stream, however the reads cut it; and the first    *)
(* byte to be dropped is one the scan drops too.  So streams of packets    *)
(* arrive as they were sent, which is what module RouterLoop builds on.    *)
(* After that byte nothing of the kind holds: Desync leaves the tail where *)
(* it was, and stale bytes are searched again behind the next read.        *)
(***************************************************************************)
Scan == INSTANCE Scanner WITH input <- rInput, pos <- rPos, found <- rFound

Dropped == rPos - Len(FlattenSeq(rFound))

CleanStreamsAreScanned == [][Dropped = 0 => Scan!SNext]_(Scan!scan)

=============================================================================
