------------------------------ MODULE GraphNode ------------------------------
(***************************************************************************)
(* A node: main, its poll loop and its handlers, of src/GraphWrap.c.  The  *)
(* node forwards what it reads from stdin and from its children to the     *)
(* router, one packet per line, and gives data from the router to a child  *)
(* for the stream it belongs to, which it starts on demand.                *)
(*                                                                         *)
(* Packets from the router arrive whole here; NodeReceive is about how     *)
(* they are found in a stream of bytes.  The mux policy has no effect:     *)
(* both modes send under arg_address.  Payloads from the router are        *)
(* numbers, what is read locally are sequences of bytes.                   *)
(***************************************************************************)
EXTENDS NodeOptions

CONSTANTS
    Config,      \* what a node may start with: its options, what its stdin is (of no
                 \* interest unless it is watched), and whether a router is there
    Source,      \* addresses that data may come from
    Issued,      \* the address the router gives to a node that asks for any
    Inner,       \* the addresses of getNextLocalAddress, in their order
    Script,      \* what stdin, or a child, writes: a sequence of chunks
    Streams,     \* MAX_INPUT_STREAMS
    Capacity,    \* size of a local buffer: 20 * mtu
    Mtu,         \* config.network_mtu
    PipeSize,    \* most bytes of one read
    MaxData      \* bound: data packets from the router

\* Descriptors: stdin, the socket, and the output of each child.
IgnoreFd == -1
Stdin == 0
RouterFd == 1
Child == 1..(MaxData + 1)
Out(c) == RouterFd + c
Local == {Stdin} \cup {Out(c) : c \in Child}

ASSUME NodeAssumption ==
    /\ Config \subseteq [address : {0} \cup Source, watched : Nat,
                         echo : BOOLEAN, immediate : BOOLEAN,
                         mux : {"noop", "merge"}, demux : {"noop", "spawn", "merge"},
                         delimiter : Nat, quits : {FALSE},
                         input : {"none", "pipe", "file"}, router : BOOLEAN]
    /\ \A o \in Config : /\ o.echo => o.demux = "merge"
                         /\ o.watched = 0 <=> o.input = "none"
    \* every start finds its slots: nobody gives -i a few hundred times
    /\ \A o \in Config :
          o.watched + (IF o.router THEN 1 ELSE 0) + (IF o.immediate THEN 1 ELSE 0)
              <= Streams
    /\ Source \subseteq Nat \ {0} /\ Issued \in Source
    /\ Inner \in Seq(Source) /\ Inner # <<>>
    /\ Script \in [Local -> Seq(Seq(Nat))]
    /\ {Streams, Capacity, Mtu, PipeSize, MaxData} \subseteq Nat \ {0}
    /\ 2 * Mtu <= Capacity

VARIABLES
    config,            \* the options, fixed at the start
    router_fd,         \* the socket, IgnoreFd while there is none
    arg_address,       \* the address of the node; 0 until it has one
    nextLocalAddress,  \* how many inner addresses have been taken
    stream_fd,         \* the descriptor each slot watches
    sinkTable,         \* the child that serves each stream
    input_buffer,      \* bytes read from each local descriptor and not sent
    pending,           \* packets of the read that handleRemoteData works on
    fate               \* "running", "shutdown", or what has killed the node

node == <<config, router_fd, arg_address, nextLocalAddress, stream_fd, sinkTable,
          input_buffer, pending, fate>>

VARIABLES
    pipe,        \* each local stream: bytes on the way, chunks written, open
    spawned,     \* children started
    owed,        \* claims the router has still to answer
    fromRouter,  \* packets on the way from the router, and whether it is there: has
                 \* the connection open or, when there is none, listens
    sent,        \* data packets the router has sent
    forwarded,   \* history: data packets for the router, by what they were read
                 \* from (without a socket, they are lost)
    received,    \* history: bytes read from each local descriptor
    delivered    \* history: data packets given to children

outside == <<pipe, spawned, owed, fromRouter, sent>>
history == <<forwarded, received, delivered>>
nodeVars == <<node, outside, history>>

-----------------------------------------------------------------------------
(* The start: stdin is watched first, then the router.  Assertions are     *)
(* only reported: a node without a router goes on, with nothing to watch   *)
(* in its place and its claim lost, and an immediate one without an        *)
(* address starts its child under address 0.                               *)

Start(o) ==
    [k \in 1..o.watched |-> Stdin] \o (IF o.router THEN <<RouterFd>> ELSE <<>>)
        \o (IF o.immediate THEN <<Out(1)>> ELSE <<>>)

NodeInit ==
    /\ config \in Config
    /\ router_fd = IF config.router THEN RouterFd ELSE IgnoreFd
    /\ arg_address = config.address
    /\ nextLocalAddress = 0
    /\ stream_fd = [i \in 1..Streams |-> IF i <= Len(Start(config))
                                         THEN Start(config)[i] ELSE IgnoreFd]
    /\ spawned = IF config.immediate THEN 1 ELSE 0
    /\ sinkTable = [a \in (IF config.immediate THEN {arg_address} ELSE {}) |-> 1]
    /\ input_buffer = [fd \in Local |-> <<>>]
    /\ pending = <<>>
    /\ fate = "running"
    /\ pipe = [fd \in Local |-> [bytes |-> IF fd = Stdin /\ config.input = "file"
                                           THEN FlattenSeq(Script[Stdin]) ELSE <<>>,
                                 written |-> 0,
                                 open |-> fd # Stdin \/ config.input = "pipe"]]
    /\ owed = IF ~config.router THEN <<>>
              ELSE <<IF arg_address = 0 THEN Issued ELSE arg_address>>
    /\ fromRouter = [packets |-> <<>>, open |-> config.router]
    /\ sent = 0
    /\ forwarded = [fd \in Local |-> <<>>]
    /\ received = [fd \in Local |-> <<>>]
    /\ delivered = <<>>

-----------------------------------------------------------------------------
(* The poll loop serves the first slot that has an event, and polls again. *)

\* revents # 0.  At its end a pipe raises POLLHUP; a file is always ready.
Event(fd) ==
    CASE fd = IgnoreFd -> FALSE
      [] fd = RouterFd -> fromRouter.packets # <<>> \/ ~fromRouter.open
      [] OTHER         -> pipe[fd].bytes # <<>> \/ ~pipe[fd].open

\* getRouterFD, before any event is served: it connects if it has not, but neither
\* watches the socket nor claims an address.
Connects == router_fd' = IF fromRouter.open THEN RouterFd ELSE router_fd

\* A write to the socket of a router that has closed it brings a reset back, which
\* discards what has not been read; after that it raises SIGPIPE.
WriteToRouter ==
    IF fromRouter.open \/ router_fd = IgnoreFd THEN UNCHANGED <<fate, fromRouter>>
    ELSE /\ fate' \in {fate, "sigpipe"}
         /\ fromRouter' \in {fromRouter, [fromRouter EXCEPT !.packets = <<>>]}

Served(i) ==
    /\ fate = "running" /\ pending = <<>>
    /\ Event(stream_fd[i])
    /\ \A j \in 1..(i - 1) : ~Event(stream_fd[j])

-----------------------------------------------------------------------------
(* Data from the router.                                                   *)

\* A read completes some of the packets on the way, and all of them are handled
\* before the next poll.
ReadRemote == \E i \in 1..Streams :
    /\ Served(i) /\ stream_fd[i] = RouterFd
    /\ \E n \in 1..Len(fromRouter.packets) :
          /\ pending' = SubSeq(fromRouter.packets, 1, n)
          /\ fromRouter' = [fromRouter EXCEPT !.packets =
                              SubSeq(@, n + 1, Len(@))]
    /\ UNCHANGED <<config, router_fd, arg_address, nextLocalAddress, stream_fd,
                   sinkTable, input_buffer, fate, pipe, spawned, owed, sent,
                   history>>

RouterGone == \E i \in 1..Streams :
    /\ Served(i) /\ stream_fd[i] = RouterFd
    /\ fromRouter.packets = <<>>
    /\ fate' = "shutdown"
    /\ stream_fd' = [stream_fd EXCEPT ![i] = IgnoreFd]
    /\ UNCHANGED <<config, router_fd, arg_address, nextLocalAddress, sinkTable,
                   input_buffer, pending, outside, history>>

NextPending == fate = "running" /\ pending # <<>> /\ pending' = Tail(pending)

HandleCommand ==
    /\ NextPending
    /\ Head(pending).kind = "address"
    /\ arg_address' = IF arg_address = 0 THEN Head(pending).address
                      ELSE arg_address
    /\ UNCHANGED <<config, router_fd, nextLocalAddress, stream_fd, sinkTable,
                   input_buffer, fate, outside, history>>

\* With -o the payload goes to stdout.
Echo ==
    /\ NextPending
    /\ Head(pending).kind = "data" /\ config.echo
    /\ UNCHANGED <<config, router_fd, arg_address, nextLocalAddress, stream_fd,
                   sinkTable, input_buffer, fate, outside, history>>

\* Mutant: merged streams keep their source.
SourceOnly(source) == source

\* The stream a packet belongs to.
Stream(source) == IF config.demux = "merge" THEN arg_address ELSE source

\* The payload is written to the child.  If that has ended, SIGPIPE ends the node.
GiveToSink ==
    /\ NextPending
    /\ Head(pending).kind = "data" /\ ~config.echo
    /\ Stream(Head(pending).source) \in DOMAIN sinkTable
    /\ LET c == sinkTable[Stream(Head(pending).source)]
       IN  IF pipe[Out(c)].open
           THEN /\ delivered' = Append(delivered, [packet |-> Head(pending),
                                                  child |-> c])
                /\ UNCHANGED fate
           ELSE fate' = "sigpipe" /\ UNCHANGED delivered
    /\ UNCHANGED <<config, router_fd, arg_address, nextLocalAddress, stream_fd,
                   sinkTable, input_buffer, outside, forwarded, received>>

FreeSlots == {i \in 1..Streams : stream_fd[i] = IgnoreFd}

WithSink(a, c) ==
    [x \in DOMAIN sinkTable \cup {a} |-> IF x = a THEN c ELSE sinkTable[x]]

\* getNextLocalAddress: the inner addresses in turn.
NextInner == Inner[(nextLocalAddress % Len(Inner)) + 1]

Spawns ==
    /\ fate = "running" /\ pending # <<>>
    /\ Head(pending).kind = "data" /\ ~config.echo
    /\ Stream(Head(pending).source) \notin DOMAIN sinkTable

\* No child serves the stream: one is started and watched, and the packet is then
\* of the stream it serves.  With "spawn" that is an inner address, which is claimed
\* at the router.
SpawnSink ==
    /\ Spawns /\ FreeSlots # {}
    /\ spawned' = spawned + 1
    /\ LET a == IF config.demux = "spawn" THEN NextInner
                ELSE Stream(Head(pending).source)
       IN  /\ sinkTable' = WithSink(a, spawned')
           /\ pending' = [pending EXCEPT ![1].source = a]
    /\ IF config.demux = "spawn"
       THEN /\ nextLocalAddress' = nextLocalAddress + 1
            /\ owed' = Append(owed, NextInner)
            /\ WriteToRouter
       ELSE UNCHANGED <<nextLocalAddress, owed, fate, fromRouter>>
    /\ stream_fd' = [stream_fd EXCEPT ![Min(FreeSlots)] = Out(spawned')]
    /\ UNCHANGED <<config, router_fd, arg_address, input_buffer, pipe, sent,
                   history>>

\* With every slot in use addNewWatch searches on past the table.
SpawnPastTable ==
    /\ Spawns /\ FreeSlots = {}
    /\ fate' = "undefined"
    /\ UNCHANGED <<config, router_fd, arg_address, nextLocalAddress, stream_fd,
                   sinkTable, input_buffer, pending, outside, history>>

-----------------------------------------------------------------------------
(* Data for the router.                                                    *)

\* Mutant: a byte is compared with the wrong sign.
NothingDelimits(byte) == FALSE

\* arg_delimiter is a signed char and is compared with unsigned bytes: from 128 on
\* it equals none.
Delimits(byte) == byte = config.delimiter /\ byte < 128

\* The numbers of a finite set, from the least on.
Ascending(S) ==
    CHOOSE q \in [1..Cardinality(S) -> S] :
        \A i, j \in DOMAIN q : i < j => q[i] < q[j]

\* Mutant: the delimiter goes with the line before it, and one by itself is a line.
LinesAfterDelimiter(bytes) ==
    LET cuts == Ascending({1} \cup {i + 1 : i \in {j \in 1..(Len(bytes) - 1) :
                                                Delimits(bytes[j])}})
    IN  [k \in DOMAIN cuts |->
            SubSeq(bytes, cuts[k],
                   IF k = Len(cuts) THEN Len(bytes) ELSE cuts[k + 1] - 1)]

\* What the cursor finds: each delimiter starts a line, and the last line is still
\* being written.
Lines(bytes) ==
    LET cuts == Ascending({1} \cup {i \in DOMAIN bytes : Delimits(bytes[i])})
    IN  [k \in DOMAIN cuts |->
            SubSeq(bytes, cuts[k],
                   IF k = Len(cuts) THEN Len(bytes) ELSE cuts[k + 1] - 1)]

Kept(lines) == Last(lines)

Packets(lines) ==
    [k \in 1..(Len(lines) - 1) |-> [source |-> arg_address, payload |-> lines[k]]]

\* Bytes that a read of a local descriptor may return.
Reads(fd) ==
    LET most == IF fd = Stdin /\ config.input = "file" THEN Capacity ELSE PipeSize
    IN  1..Min({Len(pipe[fd].bytes), most, Capacity - Len(input_buffer[fd])})

\* Less than one mtu of the buffer is left after n more bytes.
Full(fd, n) == Capacity - (Len(input_buffer[fd]) + n) < Mtu

TakeBytes(fd, n) ==
    /\ pipe' = [pipe EXCEPT ![fd].bytes = SubSeq(@, n + 1, Len(@))]
    /\ received' = [received EXCEPT ![fd] = @ \o SubSeq(pipe[fd].bytes, 1, n)]

ReadLocal == \E i \in 1..Streams, fd \in Local :
    /\ Served(i) /\ stream_fd[i] = fd /\ Connects
    /\ arg_address # 0
    /\ \E n \in Reads(fd) :
          LET lines == Lines(input_buffer[fd] \o SubSeq(pipe[fd].bytes, 1, n))
          IN  /\ TakeBytes(fd, n)
              /\ ~Full(fd, n)
              /\ IF Len(lines) = 1 THEN UNCHANGED <<fate, fromRouter>>
                 ELSE WriteToRouter
              /\ forwarded' = [forwarded EXCEPT ![fd] = @ \o Packets(lines)]
              /\ input_buffer' = [input_buffer EXCEPT ![fd] = Kept(lines)]
    /\ UNCHANGED <<config, arg_address, nextLocalAddress, stream_fd, sinkTable,
                   pending, spawned, owed, sent, delivered>>

\* The emergency send of a buffer that is nearly full passes a pointer as the
\* length; no such memory can be had, and the node ends.
EmergencySend == \E i \in 1..Streams, fd \in Local :
    /\ Served(i) /\ stream_fd[i] = fd /\ Connects
    /\ arg_address # 0
    /\ \E n \in Reads(fd) : TakeBytes(fd, n) /\ Full(fd, n)
    /\ fate' = "segv"
    /\ UNCHANGED <<config, arg_address, nextLocalAddress, stream_fd, sinkTable,
                   input_buffer, pending, spawned, owed, fromRouter, sent,
                   forwarded, delivered>>

\* events has POLLHUP: at the end of a pipe, and never for a file.
HangsUp(fd) == fd = Stdin => config.input = "pipe"

\* Mutant: the sink of the child stays in the table.
SinksWithEnded(fd) == sinkTable

SinksWithout(fd) ==
    [a \in {x \in DOMAIN sinkTable : Out(sinkTable[x]) # fd} |-> sinkTable[a]]

\* POLLHUP and nothing left to read.  At the end of a file the
\* handler returns with the slot as it was, and it is the first one ready again.
LocalEnds == \E i \in 1..Streams, fd \in Local :
    /\ Served(i) /\ stream_fd[i] = fd /\ Connects
    /\ arg_address # 0
    /\ pipe[fd].bytes = <<>>
    /\ HangsUp(fd)
    /\ fate' = IF fd = Stdin THEN "shutdown" ELSE fate
    /\ sinkTable' = SinksWithout(fd)
    /\ input_buffer' = [input_buffer EXCEPT ![fd] = <<>>]
    /\ stream_fd' = [stream_fd EXCEPT ![i] = IgnoreFd]
    /\ UNCHANGED <<config, arg_address, nextLocalAddress, pending, outside,
                   history>>

\* Nothing is done about a local event without an address, or at the end of a file:
\* it is there again at the next poll.
PassesOver == \E i \in 1..Streams, fd \in Local :
    /\ Served(i) /\ stream_fd[i] = fd /\ Connects
    /\ arg_address = 0 \/ (pipe[fd].bytes = <<>> /\ ~HangsUp(fd))
    /\ UNCHANGED <<config, arg_address, nextLocalAddress, stream_fd, sinkTable,
                   input_buffer, pending, fate, outside, history>>

-----------------------------------------------------------------------------
(* The router, the children, and who writes to stdin.                      *)

\* The router answers claims in order.
Answers ==
    /\ owed # <<>> /\ fromRouter.open
    /\ fromRouter' = [fromRouter EXCEPT !.packets =
                        Append(@, [kind |-> "address", address |-> Head(owed)])]
    /\ owed' = Tail(owed)
    /\ UNCHANGED <<node, pipe, spawned, sent, history>>

\* Data may come before any answer: for an address that an earlier client has left
\* on the descriptor of this node.
SendsData == \E a \in Source :
    /\ config.router
    /\ sent < MaxData /\ fromRouter.open
    /\ sent' = sent + 1
    /\ fromRouter' = [fromRouter EXCEPT !.packets =
                        Append(@, [kind |-> "data", source |-> a, origin |-> a,
                                   number |-> sent'])]
    /\ UNCHANGED <<node, pipe, spawned, owed, history>>

RouterCloses ==
    /\ fromRouter.open
    /\ fromRouter' = [fromRouter EXCEPT !.open = FALSE]
    /\ UNCHANGED <<node, pipe, spawned, owed, sent, history>>

RouterStarts ==
    /\ router_fd = IgnoreFd /\ ~fromRouter.open
    /\ fromRouter' = [fromRouter EXCEPT !.open = TRUE]
    /\ UNCHANGED <<node, pipe, spawned, owed, sent, history>>

Writers ==
    {Out(c) : c \in 1..spawned} \cup
    (IF config.input = "pipe" THEN {Stdin} ELSE {})

Writes == \E fd \in Writers :
    /\ pipe[fd].open /\ pipe[fd].written < Len(Script[fd])
    /\ pipe' = [pipe EXCEPT ![fd].written = @ + 1,
                            ![fd].bytes = @ \o Script[fd][pipe[fd].written + 1]]
    /\ UNCHANGED <<node, spawned, owed, fromRouter, sent, history>>

Ends == \E fd \in Writers :
    /\ pipe[fd].open
    /\ pipe' = [pipe EXCEPT ![fd].open = FALSE]
    /\ UNCHANGED <<node, spawned, owed, fromRouter, sent, history>>

NodeStep ==
    \/ ReadRemote \/ RouterGone
    \/ HandleCommand \/ Echo \/ GiveToSink \/ SpawnSink \/ SpawnPastTable
    \/ ReadLocal \/ EmergencySend \/ LocalEnds \/ PassesOver

OutsideStep ==
    Answers \/ SendsData \/ RouterCloses \/ RouterStarts \/ Writes \/ Ends

NodeNext == NodeStep \/ OutsideStep

\* While it has something to do the node does it, and the router answers claims.
\* Writes return: GraphSystem is about those that wait.
NodeSpec ==
    NodeInit /\ [][NodeNext]_nodeVars /\ WF_nodeVars(NodeStep) /\ WF_nodeVars(Answers)
-----------------------------------------------------------------------------
(* What the node promises.                                                 *)

NodeTypeOK ==
    /\ config \in Config
    /\ arg_address \in {0} \cup Source
    /\ nextLocalAddress \in Nat
    /\ stream_fd \in [1..Streams -> {IgnoreFd, RouterFd} \cup Local]
    /\ router_fd \in {IgnoreFd, RouterFd}
    /\ DOMAIN sinkTable \subseteq {0} \cup Source
    /\ Range(sinkTable) \subseteq 1..spawned
    /\ spawned \in {0} \cup Child
    /\ \A fd \in Local : Len(input_buffer[fd]) <= Capacity - Mtu
    /\ fate \in {"running", "shutdown", "sigpipe", "segv", "undefined"}

(***************************************************************************)
(* With the types above: every child that serves a stream is watched, by   *)
(* one slot: the table of sinks and the slots are changed by different     *)
(* handlers, and a child that has ended leaves both.                       *)
(***************************************************************************)
SinksAreWatched ==
    /\ NodeTypeOK
    /\ fate = "running" =>
        \A a \in DOMAIN sinkTable :
            Cardinality({i \in 1..Streams : stream_fd[i] = Out(sinkTable[a])}) = 1

PayloadsFrom(fd) == [k \in DOMAIN forwarded[fd] |-> forwarded[fd][k].payload]

Watched(fd) == \E i \in 1..Streams : stream_fd[i] = fd

(***************************************************************************)
(* Packets are lines, whatever the reads were: nothing of a stream is lost *)
(* or repeated between its packets and the buffer, a packet is never empty *)
(* and never holds part of two lines, and only the first may begin without *)
(* a delimiter.                                                            *)
(***************************************************************************)
PacketsAreLines ==
    \A fd \in Local :
        LET sent_out == PayloadsFrom(fd)
        IN  /\ (Watched(fd) /\ fate = "running") =>
                   FlattenSeq(sent_out) \o input_buffer[fd] = received[fd]
            /\ \A k \in DOMAIN sent_out :
                   /\ sent_out[k] # <<>>
                   /\ k > 1 => sent_out[k][1] = config.delimiter
                   /\ \A i \in 2..Len(sent_out[k]) : sent_out[k][i] # config.delimiter

(***************************************************************************)
(* What is read from a pipe overflows the buffer only for one long line,   *)
(* however many short ones there are at once.  (A delimiter from 128 on is *)
(* never found: all the bytes together are one line.)                      *)
(***************************************************************************)
OnlyLongLinesOverflow ==
    (fate = "segv" /\ config.input # "file" /\ config.delimiter < 128) =>
        \E fd \in Local :
            /\ Len(input_buffer[fd]) > Capacity - Mtu - PipeSize
            /\ \A i \in 2..Len(input_buffer[fd]) :
                   input_buffer[fd][i] # config.delimiter

SameStream(p, q) == config.demux = "merge" \/ p.origin = q.origin

\* A stream is looked for under the same name at any time.
NamesStay ==
    config.demux = "noop" \/ (config.demux = "merge" /\ config.address # 0)

(***************************************************************************)
(* Where the names of streams stay, the data of a stream goes to one       *)
(* child, in order, and moves to another only after that has ended; with   *)
(* "noop" a child is given one stream only.                                *)
(***************************************************************************)
OneChildPerStream ==
    NamesStay => \A i, j \in DOMAIN delivered :
        LET d == delivered[i]
            e == delivered[j]
        IN  i < j =>
              /\ d.packet.number < e.packet.number
              /\ (SameStream(d.packet, e.packet) /\ d.child # e.child)
                    => ~pipe[Out(d.child)].open
              /\ d.child = e.child => SameStream(d.packet, e.packet)

-----------------------------------------------------------------------------
(* What the source says of the node, and it does not do.                   *)

(***************************************************************************)
(* "Run in input bridge mode; take and input on stdin and forward to the   *)
(* GraphRouter", the help text of -i: without -a, bytes on stdin before    *)
(* the answer of the router are never handled, and keep the loop from the  *)
(* answer that they wait for.                                              *)
(***************************************************************************)
InputIsForwarded ==
    pipe[Stdin].bytes # <<>> ~> (pipe[Stdin].bytes = <<>> \/ fate # "running")

(***************************************************************************)
(* "Working in DEMUX_SPAWN mode, new streams will spawn new processes.",   *)
(* line 760: a stream that has a process gets no other.  The sink is       *)
(* entered under the inner address and looked for under the source, so     *)
(* every packet of a stream spawns one.                                    *)
(***************************************************************************)
OnlyNewStreamsSpawn ==
    config.demux = "spawn" => \A i, j \in DOMAIN delivered :
        (i < j /\ SameStream(delivered[i].packet, delivered[j].packet)
               /\ delivered[i].child # delivered[j].child)
            => ~pipe[Out(delivered[i].child)].open

(***************************************************************************)
(* "Unable to connect to the router, STOP." and "Tried to start a new node *)
(* in immediate mode without a valid address! STOP.", lines 853 and 874: a *)
(* node that starts so handles no data.  Nothing makes a failed assertion  *)
(* end this program: lines are taken and lost, or sent to a router that    *)
(* comes later and has been told of no address; and a second child is      *)
(* started beside the first for the very address that it was to serve.     *)
(***************************************************************************)
AssertionsStop ==
    /\ ~config.router => \A fd \in Local : forwarded[fd] = <<>>
    /\ config.immediate /\ config.address = 0 => delivered = <<>>

=============================================================================
