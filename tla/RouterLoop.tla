----------------------------- MODULE RouterLoop -----------------------------
(***************************************************************************)
(* The router process: router_process and handle_event of                  *)
(* src/GraphRouter.c around the packet handler of module Router, with the  *)
(* kernel's sockets and the clients at their other end.  Clients act       *)
(* between any two steps of the router.                                    *)
(*                                                                         *)
(* A client writes packets; the bytes of a packet are cells, so that a     *)
(* read can end inside one.  Client streams are well formed: what the      *)
(* router does with bytes that are not a packet is in RouterReceive.       *)
(***************************************************************************)
EXTENDS Router

CONSTANTS
    Nil,       \* no connection
    Conn,      \* connections, each made at most once
    Script,    \* the packets each connection's client writes, in order
    Slots,     \* MAX_MONITOR_FDS - 1: slot 0 of poll_list is the listening one
    Backlog,   \* ROUTER_BACKLOG
    Mtu,       \* config.network_mtu, in cells
    Capacity,  \* size of a local buffer, in cells (20 * mtu)
    DataCells  \* cells of a data packet; every other packet is one cell

ASSUME LoopAssumption ==
    /\ Nil \notin Conn
    /\ Script \in [Conn -> Seq(Input)]
    /\ {Slots, Backlog, Mtu, DataCells} \subseteq Nat \ {0}
    /\ Capacity \in Nat /\ Capacity > Mtu
    /\ IsFiniteSet(Fd) /\ Cardinality(Fd) > Slots

Slot == 1..Slots
NoFd == -1                                  \* poll_list[i].fd of an empty slot

Cells(p) == IF p.kind = "data" THEN DataCells ELSE 1

\* Cell k of the n-th packet that c writes.
Cell == [conn : Conn, packet : Nat, part : Nat]
PacketCells(c, n) ==
    [k \in 1..Cells(Script[c][n]) |-> [conn |-> c, packet |-> n, part |-> k]]

(***************************************************************************)
(* The state of a connection, seen from its client:                        *)
(*   "new"       not made yet                                              *)
(*   "up"        made; accepted or in the backlog                          *)
(*   "closed"    the client has closed it: the router will read an end of  *)
(*               file after what is still in the socket                    *)
(*   "answered"  closed, and the router has written to it since: a reset   *)
(*               is on its way back                                        *)
(*   "reset"     the reset has arrived                                     *)
(*   "dropped"   the router has closed its end                             *)
(***************************************************************************)
Peer == {"new", "up", "closed", "answered", "reset", "dropped"}

VARIABLES
    peer,          \* the state of each connection
    sent,          \* how many packets of its script each client has written
    wire,          \* cells written by each client and not yet read
    inbox,         \* history: what the router wrote to each connection
    taken,         \* history: the packets of each connection handled so far
    backlog,       \* connections waiting for accept
    descriptor,    \* the connection behind each open descriptor of the router
    poll_list,     \* the descriptor each slot monitors
    ready,         \* revents of the slots of this poll still to be served
    local_buffer   \* the bytes kept for each descriptor, between reads

kernel == <<peer, sent, wire, inbox, backlog, descriptor>>
loop   == <<taken, poll_list, ready, local_buffer>>
loopVars == <<vars, kernel, loop>>

-----------------------------------------------------------------------------
(* Clients and the network.                                                *)

Made(c) ==
    /\ peer[c] = "new" /\ Len(backlog) < Backlog
    /\ peer' = [peer EXCEPT ![c] = "up"]
    /\ backlog' = Append(backlog, c)
    /\ UNCHANGED <<vars, loop, sent, wire, inbox, descriptor>>

Writes(c) ==
    /\ peer[c] = "up" /\ sent[c] < Len(Script[c])
    /\ sent' = [sent EXCEPT ![c] = @ + 1]
    /\ wire' = [wire EXCEPT ![c] = @ \o PacketCells(c, sent'[c])]
    /\ UNCHANGED <<vars, loop, peer, inbox, backlog, descriptor>>

\* A client that closes with data it has not read resets the connection.
Closes(c) ==
    /\ peer[c] = "up"
    /\ peer' \in {[peer EXCEPT ![c] = s] :
                    s \in {"closed"} \cup IF inbox[c] = <<>> THEN {}
                                          ELSE {"reset"}}
    /\ UNCHANGED <<vars, loop, sent, wire, inbox, backlog, descriptor>>

ResetArrives(c) ==
    /\ peer[c] = "answered"
    /\ peer' = [peer EXCEPT ![c] = "reset"]
    /\ UNCHANGED <<vars, loop, sent, wire, inbox, backlog, descriptor>>

-----------------------------------------------------------------------------
(* The poll loop.                                                          *)

\* The last poll's events are all served: poll is called again.
Scanned == DOMAIN ready = {}

Free == {fd \in Fd : descriptor[fd] = Nil}
NewFd == Min(Free)                      \* accept gives the lowest free number,
                                        \* or fails when there is none
EmptySlots == {i \in Slot : poll_list[i] = NoFd}

\* A pending connection has priority over every other event: poll is called
\* again after each accept.
Accept ==
    /\ status = "running" /\ Scanned
    /\ backlog # <<>> /\ Free # {}
    /\ backlog' = Tail(backlog)
    /\ EmptySlots # {}
    /\ descriptor' = [descriptor EXCEPT ![NewFd] = Head(backlog)]
    /\ poll_list' = [poll_list EXCEPT ![Min(EmptySlots)] = NewFd]
    /\ UNCHANGED <<vars, peer, sent, wire, inbox, taken, ready, local_buffer>>

\* Mutant: with every slot in use the connection is left to wait.
WaitForSlot ==
    /\ status = "running" /\ Scanned
    /\ backlog # <<>> /\ EmptySlots = {}
    /\ UNCHANGED loopVars

\* With every slot in use the search ends past the array, and the new socket is
\* closed unless what it reads there happens to be the new descriptor.
AcceptWhenFull ==
    /\ status = "running" /\ Scanned
    /\ backlog # <<>> /\ Free # {}
    /\ backlog' = Tail(backlog)
    /\ EmptySlots = {}
    /\ \/ /\ peer' = [peer EXCEPT ![Head(backlog)] = "dropped"]
          /\ UNCHANGED descriptor
       \/ /\ descriptor' = [descriptor EXCEPT ![NewFd] = Head(backlog)]
          /\ UNCHANGED peer
    /\ UNCHANGED <<vars, loop, sent, wire, inbox>>

\* revents of the connection: POLLHUP needs a reset, POLLIN data or its end.
Revents(c) ==
    IF peer[c] = "reset" THEN "hup"
    ELSE IF wire[c] # <<>> \/ peer[c] # "up" THEN "in"
    ELSE "none"

Event(i) == IF poll_list[i] = NoFd THEN "none"
            ELSE Revents(descriptor[poll_list[i]])

\* Mutant: the scan ends one slot early.
EventsButLast == {i \in 1..(Slots - 1) : Event(i) # "none"}
Events == {i \in Slot : Event(i) # "none"}

Poll ==
    /\ status = "running" /\ Scanned
    /\ backlog = <<>>
    /\ Events # {}
    /\ ready' = [i \in Events |-> Event(i)]
    /\ UNCHANGED <<vars, kernel, taken, poll_list, local_buffer>>

-----------------------------------------------------------------------------
(* One slot of the scan, lowest first.  What poll saw there is ready[i];   *)
(* the connection may have changed since.                                  *)

Serve(i, fd, c) ==
    /\ status = "running"
    /\ i \in DOMAIN ready /\ \A j \in DOMAIN ready : i <= j
    /\ fd = poll_list[i]
    /\ c = descriptor[fd]
    /\ ready' = [j \in DOMAIN ready \ {i} |-> ready[j]]

\* Mutants of DropClient: the slot keeps the closed descriptor; the buffer is not
\* killed.
DropKeepsSlot(i, fd, c) ==
    /\ local_buffer' = [f \in DOMAIN local_buffer \ {fd} |-> local_buffer[f]]
    /\ descriptor' = [descriptor EXCEPT ![fd] = Nil]
    /\ peer' = [peer EXCEPT ![c] = "dropped"]
    /\ UNCHANGED <<vars, sent, wire, inbox, taken, backlog, poll_list>>
DropKeepsBuffer(i, fd, c) ==
    /\ descriptor' = [descriptor EXCEPT ![fd] = Nil]
    /\ peer' = [peer EXCEPT ![c] = "dropped"]
    /\ poll_list' = [poll_list EXCEPT ![i] = NoFd]
    /\ UNCHANGED <<vars, sent, wire, inbox, taken, backlog, local_buffer>>

\* The buffer and the slot are freed and the descriptor closed; address_table
\* keeps whatever is bound to it.
DropClient(i, fd, c) ==
    /\ local_buffer' = [f \in DOMAIN local_buffer \ {fd} |-> local_buffer[f]]
    /\ descriptor' = [descriptor EXCEPT ![fd] = Nil]
    /\ peer' = [peer EXCEPT ![c] = "dropped"]
    /\ poll_list' = [poll_list EXCEPT ![i] = NoFd]
    /\ UNCHANGED <<vars, sent, wire, inbox, taken, backlog>>

HangUp == \E i \in Slot, fd \in Fd, c \in Conn :
    /\ Serve(i, fd, c)
    /\ ready[i] = "hup"
    /\ DropClient(i, fd, c)

\* Mutant: a read of nothing at the end of a stream is no error.
EndIsNoError == \E i \in Slot, fd \in Fd, c \in Conn :
    /\ Serve(i, fd, c)
    /\ ready[i] = "in"
    /\ wire[c] = <<>>
    /\ UNCHANGED <<vars, kernel, taken, poll_list, local_buffer>>

ReadFails == \E i \in Slot, fd \in Fd, c \in Conn :
    /\ Serve(i, fd, c)
    /\ ready[i] = "in"
    /\ wire[c] = <<>>
    /\ DropClient(i, fd, c)

Buffer(fd) == IF fd \in DOMAIN local_buffer THEN local_buffer[fd] ELSE <<>>

\* gnw_nextPacket: the size of the packet at the front, 0 while it is partial.
NextPacket(bytes) ==
    LET size == Cells(Script[bytes[1].conn][bytes[1].packet])
    IN  IF Len(bytes) < size THEN 0 ELSE size

\* Mutant: the tail of the buffer does not move back with what was shifted out.
LeftoverWithOldTail(bytes, size) ==
    SubSeq(bytes, size + 1, Len(bytes))
        \o SubSeq(bytes, Len(bytes) - size + 1, Len(bytes))

\* packet_shift takes the packet out; the tail moves back.
Leftover(bytes, size) == SubSeq(bytes, size + 1, Len(bytes))

\* read and append to the local buffer, which is made on the first read.
ReadBytes(i, fd, c, n) ==
    /\ Serve(i, fd, c)
    /\ ready[i] = "in"
    /\ n <= Len(wire[c])
    /\ wire' = [wire EXCEPT ![c] = SubSeq(@, n + 1, Len(@))]
    /\ UNCHANGED <<sent, backlog, descriptor, poll_list>>

StoreBuffer(fd, bytes) ==
    local_buffer' = [f \in DOMAIN local_buffer \cup {fd} |->
                        IF f = fd THEN bytes ELSE local_buffer[f]]

Overflow == \E i \in Slot, fd \in Fd, c \in Conn, n \in 1..Mtu :
    /\ ReadBytes(i, fd, c, n)
    /\ n >= Capacity - Len(Buffer(fd))
    /\ AssertFails
    /\ StoreBuffer(fd, Buffer(fd))
    /\ UNCHANGED <<peer, inbox, taken>>

ReadPart == \E i \in Slot, fd \in Fd, c \in Conn, n \in 1..Mtu :
    /\ ReadBytes(i, fd, c, n)
    /\ n < Capacity - Len(Buffer(fd))
    /\ LET bytes == Buffer(fd) \o SubSeq(wire[c], 1, n)
       IN  /\ NextPacket(bytes) = 0
           /\ StoreBuffer(fd, bytes)
    /\ UNCHANGED <<vars, peer, inbox, taken>>

-----------------------------------------------------------------------------
(* Where the packets that handle_packet writes end up.                     *)

Receiver(e) == IF e.fd \in Fd THEN descriptor[e.fd] ELSE Nil

Broken(out) == {e \in out : Receiver(e) # Nil /\ peer[Receiver(e)] = "reset"}

\* The writes happen in the order of the edges.  The one that raises SIGPIPE is
\* the last; a write to a reset socket may also only return the pending error.
WrittenOut(out, written) ==
    IF status' = "sigpipe"
    THEN \E last \in Broken(out) : written = {e \in out : e.edge < last.edge}
    ELSE written = out

ByEdge(out) ==
    CHOOSE q \in [1..Cardinality(out) -> out] :
        \A i, j \in DOMAIN q : i < j => q[i].edge < q[j].edge

\* All the writes of one call are one step: a client that resets between two of
\* them is seen to have reset before the call, or after it.
Deliver(c, n, written) ==
    LET to(d)  == {e \in written : Receiver(e) = d}
        copy(e) == [conn |-> c, packet |-> n, edge |-> e.edge, to |-> e.to]
        queue(d) == [k \in 1..Cardinality(to(d)) |-> copy(ByEdge(to(d))[k])]
    IN  /\ inbox' = [d \in Conn |-> IF peer[d] = "up"
                                    THEN inbox[d] \o queue(d) ELSE inbox[d]]
        /\ peer' = [d \in Conn |-> IF peer[d] = "closed" /\ to(d) # {}
                                   THEN "answered" ELSE peer[d]]

\* Whatever is left in the buffer waits for the next read of this descriptor,
\* even when it holds another whole packet.
ReadPacket == \E i \in Slot, fd \in Fd, c \in Conn, n \in 1..Mtu :
    /\ ReadBytes(i, fd, c, n)
    /\ n < Capacity - Len(Buffer(fd))
    /\ LET bytes == Buffer(fd) \o SubSeq(wire[c], 1, n)
           size  == NextPacket(bytes)
           first == bytes[1].packet
       IN  /\ size > 0
           /\ StoreBuffer(fd, Leftover(bytes, size))
           /\ HandlePacket(fd, Script[c][first])
           /\ taken' = [taken EXCEPT ![c] = Append(@, first)]
           /\ \E written \in SUBSET emitted' :
                 /\ WrittenOut(emitted', written)
                 /\ Deliver(c, first, written)

-----------------------------------------------------------------------------

LoopInit ==
    /\ Init
    /\ peer = [c \in Conn |-> "new"]
    /\ sent = [c \in Conn |-> 0]
    /\ wire = [c \in Conn |-> <<>>]
    /\ inbox = [c \in Conn |-> <<>>]
    /\ taken = [c \in Conn |-> <<>>]
    /\ backlog = <<>>
    /\ descriptor = [fd \in Fd |-> Nil]
    /\ poll_list = [i \in Slot |-> NoFd]
    /\ ready = [i \in {} |-> "in"]
    /\ local_buffer = [fd \in {} |-> <<>>]

RouterStep ==
    \/ Accept
    \/ AcceptWhenFull
    \/ Poll
    \/ HangUp
    \/ ReadFails
    \/ Overflow
    \/ ReadPart
    \/ ReadPacket

ClientStep == \E c \in Conn :
    \/ Made(c)
    \/ Writes(c)
    \/ Closes(c)
    \/ ResetArrives(c)

LoopNext == RouterStep \/ ClientStep

\* The router is about to write to a client that is still there, and a write waits
\* for as long as that client does not read (GraphNetwork.c:124).
MayWait == ENABLED (ReadPacket /\ inbox' # inbox)

\* The router waits in poll and in such a write: otherwise its process runs.
LoopSpec ==
    LoopInit /\ [][LoopNext]_loopVars /\ WF_loopVars(~MayWait /\ RouterStep)

-----------------------------------------------------------------------------
(* What the loop promises.                                                 *)

\* A copy on its way: packet number `packet' of `conn', written for `to'.
Delivery == [conn : Conn, packet : Nat, edge : Nat, to : Addr]

LoopTypeOK ==
    /\ peer \in [Conn -> Peer]
    /\ sent \in [Conn -> Nat]
    /\ wire \in [Conn -> Seq(Cell)]
    /\ taken \in [Conn -> Seq(Nat)]
    /\ inbox \in [Conn -> Seq(Delivery)]
    /\ backlog \in Seq(Conn)
    /\ descriptor \in [Fd -> Conn \cup {Nil}]
    /\ poll_list \in [Slot -> Fd \cup {NoFd}]
    /\ DOMAIN local_buffer \subseteq Fd
    /\ local_buffer \in [DOMAIN local_buffer -> Seq(Cell)]
    /\ DOMAIN ready \subseteq Slot
    /\ ready \in [DOMAIN ready -> {"in", "hup"}]

(***************************************************************************)
(* The three tables, of the types above, agree: no descriptor is in two    *)
(* slots, no connection is on two descriptors, every slot holds an open    *)
(* descriptor, every buffer belongs to a slot, and the slots still to be   *)
(* served are in use: serving one takes no other away.                     *)
(***************************************************************************)
TablesAgree ==
    /\ LoopTypeOK
    /\ \A i, j \in Slot : poll_list[i] = poll_list[j] /\ poll_list[i] # NoFd
          => i = j
    /\ \A f, g \in Fd : descriptor[f] = descriptor[g] /\ descriptor[f] # Nil
          => f = g
    /\ \A i \in Slot : poll_list[i] # NoFd => descriptor[poll_list[i]] # Nil
    /\ \A f \in DOMAIN local_buffer : \E i \in Slot : poll_list[i] = f
    /\ \A i \in DOMAIN ready : poll_list[i] # NoFd

(***************************************************************************)
(* Nothing of a client's stream is lost, repeated or reordered while its   *)
(* connection is open, and nothing of another connection - an earlier one  *)
(* on the same descriptor, say - gets into it: the packets handled, the    *)
(* bytes buffered and the bytes still in the socket are what it wrote.     *)
(***************************************************************************)
Stream(c, packets) ==
    FlattenSeq([k \in DOMAIN packets |-> PacketCells(c, packets[k])])

StreamIntact ==
    status # "assert" =>
        \A fd \in Fd : LET c == descriptor[fd] IN c # Nil =>
            Stream(c, taken[c]) \o Buffer(fd) \o wire[c]
                = Stream(c, [n \in 1..sent[c] |-> n])

(***************************************************************************)
(* What one client sends to another arrives in the order it was sent: of   *)
(* two copies from the same connection, the earlier packet (or, of one     *)
(* packet, the earlier edge) comes first, and none comes twice.            *)
(***************************************************************************)
InOrderDelivery ==
    \A d \in Conn : \A i, j \in DOMAIN inbox[d] :
        LET x == inbox[d][i]
            y == inbox[d][j]
        IN  (i < j /\ x.conn = y.conn) =>
                \/ x.packet < y.packet
                \/ x.packet = y.packet /\ x.edge < y.edge

\* What ends every promise that something is done in time: the end of the process,
\* and a write that waits for ever for a client to read.
Held == status # "running" \/ []MayWait

(***************************************************************************)
(* Every connection that waits to be accepted is accepted, however many    *)
(* slots are in use and whatever the others send, as long as they read:    *)
(* nothing but a client that does not read what is written to it keeps the *)
(* loop away from its listening socket.                                    *)
(***************************************************************************)
PendingIsAccepted == backlog # <<>> ~> (backlog = <<>> \/ Held)

Monitored(c) == \E i \in Slot :
    poll_list[i] # NoFd /\ descriptor[poll_list[i]] = c

(***************************************************************************)
(* No slot starves while clients read, although accepts go first and slots *)
(* are scanned in order: what clients write (scripts are finite) is all    *)
(* read in time, and those that have left give their slots back.           *)
(***************************************************************************)
BytesAreRead ==
    LET unread == \E c \in Conn : Monitored(c) /\ wire[c] # <<>>
    IN  unread ~> (~unread \/ Held)

DepartedIsReclaimed ==
    LET departed == \E c \in Conn :
                        Monitored(c) /\ peer[c] \in {"closed", "answered", "reset"}
    IN  departed ~> (~departed \/ Held)

(***************************************************************************)
(* A copy for an address reaches only clients that were told the address   *)
(* is theirs - or that sit on a descriptor which an earlier, dropped       *)
(* client claimed the address on: closing a descriptor leaves bound_fd.    *)
(***************************************************************************)
Owns(c, a) == \E k \in DOMAIN inbox[c] : inbox[c][k].edge = 0 /\ inbox[c][k].to = a

\* Kept after the connection is gone: a claim of `a' handled for d.
Claimed(d, a) == \E k \in DOMAIN taken[d] :
    LET p == Script[d][taken[d][k]]
    IN  p.kind = "new_address" /\ p.address \in {a, AnyAddress}

StrangersOnlyAfterReuse ==
    \A c \in Conn : \A k \in DOMAIN inbox[c] :
        LET a == inbox[c][k].to
        IN  Owns(c, a) \/ \E d \in Conn \ {c} : peer[d] = "dropped" /\ Claimed(d, a)

\* The packet that the router handled last is for address a, or claims it.
Concerns(a) ==
    \/ handled.kind = "new_address" /\ handled.address \in {a, AnyAddress}
    \/ /\ handled.kind = "data" /\ handled.source \in Known(address_table)
       /\ a \in Range(address_table[handled.source].forward)

(***************************************************************************)
(* A client may reset its connection between poll and a write to it, and   *)
(* SIGPIPE ends the router for all.  Only one that the packet was for can  *)
(* do so: that had claimed the address, or sits on the descriptor that a   *)
(* dropped client claimed it on.                                           *)
(***************************************************************************)
OnlyReceiversBreakPipes ==
    status = "sigpipe" =>
        \E c \in Conn, a \in Addr :
            /\ peer[c] = "reset" /\ Concerns(a)
            /\ \/ Claimed(c, a)
               \/ \E d \in Conn \ {c} : peer[d] = "dropped" /\ Claimed(d, a)

-----------------------------------------------------------------------------
(* What comments and messages of src/GraphRouter.c say of the loop, and    *)
(* the code does not do.                                                   *)

(***************************************************************************)
(* assert( length < remaining_buffer, "BUFFER OVERFLOW" ), line 571: a     *)
(* local buffer has room for twenty reads, and the router stops if it      *)
(* does not.                                                               *)
(***************************************************************************)
BufferNeverOverflows == status # "assert"

(***************************************************************************)
(* "Essentially 'binds' the address to the fd the request came from", line *)
(* 292, and "packets will be dropped anyway" when the destination is       *)
(* missing, line 422: data for an address reaches a client that claimed it *)
(* or nobody.                                                              *)
(***************************************************************************)
OnlyOwnersReceive ==
    \A c \in Conn : \A k \in DOMAIN inbox[c] : Owns(c, inbox[c][k].to)

=============================================================================
