# A TLA+ model of GraphIPC

GraphIPC connects processes into a graph of pipes.  A router (`GraphRouter`)
accepts TCP connections on port 19000; nodes (`Graph`, built from
`GraphWrap.c`) wrap a process or a file, claim an address, and send what they
read from it as data packets under that address.  Commands tell the router
which address forwards to which, and under which policy.

## The system

| part | state | operations | interacts with |
|---|---|---|---|
| packet handler (`GraphRouter.c` `handle_packet`) | `address_table`: for each address its forward list, policy, bound descriptor and counters | claim an address, connect, set a policy, forward data | called by the loop; writes to descriptors |
| router process (`router_process`, `handle_event`) | `poll_list` (128 slots), `local_buffer` per descriptor, the listening socket | accept, poll, drop a client, read, find a packet and hand it on | kernel sockets; the packet handler |
| router command line (`main`), scripts (`bash/`) | options | connect, send one command packet, close | the router, as a client |
| wire protocol (`lib/GraphNetwork.c`, `lib/packet.c`) | none | write packets, find a packet in a buffer, parse a header | router and nodes |
| node (`GraphWrap.c`) | options, watch table, local buffers, sinks, addresses | read local bytes and send them, read packets and write their payload, spawn a child for a new source | router; local files, pipes and children |
| the whole | sockets and pipes of bounded size between the processes | blocking reads and writes | |
| hash table (`lib/klib/khash.h`) | buckets, flags, counts | put, get, delete, resize, clear, walk | the router's two tables, and the node's |
| ring buffer (`lib/RingBuffer.c`) | start, end, head, tail, a semaphore | write, read, peek, length, capacity, destroy | unit tests only |
| forward table, index table, node table (`src/`), AVL tree (`lib/avl.c`) | lists and trees, locks | add, remove, find, walk, iterate, destroy | not used by the programs of the present build |

Both programs are single threaded around one `poll`; the concurrency is between
processes: the router, the nodes, and the commands, which the scripts start next
to nodes that already send (`bash/RoundRobinTest.sh` even starts the commands
themselves in the background, in no order at all).  What is hard in this system:

* commands and data reach the router in any order, and the handler keeps no
  notion of an address being ready;
* clients leave, by closing or by a reset, between any two steps of the router,
  and their descriptor numbers and slots are given to the next client;
* packets are cut by reads at any byte, and the buffers that put them together
  again are bounded;
* no descriptor is non-blocking, so two processes can write to each other for ever;
* round robin has no cursor of its own;
* a failed assertion is only reported;
* the tables are balanced trees and open hashing, with iterators and threads that
  look at them while they change.

PROJECT.json lists the hazards one by one, at the line where each bites, with
the properties about it.  What makes the parts correct:

* handler: copies go along edges, to the owner of the target; the table only
  grows; round robin takes turns; no call ends the process (true only under an
  order of calls that clients must keep);
* loop: the three tables agree; nothing of a client's stream is lost, repeated
  or mixed with another's; every client is accepted, read and reclaimed in
  time, as long as clients read; one client cannot stop the others (false: see the findings);
* commands: a script has the effect that its lines say (false: see the findings);
* wire protocol: a whole packet is found wherever the reads cut the stream, and
  the search recovers after garbage;
* node: lines are sent whole, in order and once; data of a stream goes to one
  child (not under the spawn policy); what the router sends is read (not always: see the
  findings);
* the whole: no line is lost on its way, and lines do not stop between the processes;
* tables: each is a map, and each walk goes through all of it once; calls return (not those
  of the forward table: see the findings);
* ring buffer: a bounded queue of bytes.

## The modules

### The packet handler

**Router** is `handle_packet`.  One step is one call: `NewAddress`, `Connect`,
`SetPolicy`, `Forward` for the calls that do something, `Ignored` for those that
only log, `BadLookup` and `DivideByZero` for those that end the process.  The
table is a function on the addresses that have a context; a packet is a record
that keeps what the handler tells apart (kind, addresses, policy) and drops the
payload.  What the call writes is the value of `emitted` after the step: a set
of records with the descriptor, the source, the target and the number of the
edge, and edge 0 for the reply to a claim.  `status` says what ended the process:
`sigpipe` may follow any write, since nothing handles the signal.  Two history
variables record what the state forgets: `claims`, every binding ever made, and
`picks`, the edges that round robin took since the edges or the policy of the
source last changed.

Three behaviours of the build that the model keeps:
`kh_exist` on the `kh_end` of a table without storage reads through NULL; on a
table of more than `SmallTable` keys (6: eight buckets) it reads past the flag
words, so anything may follow (`undefined`); and a policy byte without a name
indexes past the array of names (`undefined`, or nothing when it does no harm).
That the number of keys decides this is what `SizeFollowsEntries` of KHash shows.

**Fabric** is the abstract specification: owners, edges, a fan-out of all, one
or none, and what each step carries.  **RouterFabric** maps the table to it and
states `ImplementsFabric`.

**RouterContract** states the order of calls under which the handler does not
fault (an address sends once it is known, gets a policy that divides once it has
an edge, and no policy without a name).

### The router process

**RouterLoop** extends Router with the loop around it.  Slots, descriptors,
local buffers and the backlog are functions and sequences; bytes are *cells*, so
that a data packet can take more cells than a read returns.  `Poll` takes a
snapshot of the slots with events (`ready`) and each step that serves a slot
takes the least of them; clients move between any two of these steps, so what
poll saw may be stale.  `Accept` has priority, as line 719 gives it.
`DropClient` is both copies of the code that drops a client (lines 515-532 and
771-788).  `ReadPacket` takes one packet out of the buffer and calls
`HandlePacket`; `Deliver` puts what was written into the inboxes of the
connections behind the descriptors *of that moment*.

The environment is the kernel and the clients: a client makes its connection,
writes the packets of its script, and closes or resets at any time; a write to a
closed connection brings a reset back, and a write to a reset one raises
SIGPIPE or returns an error.  All writes of one call are one step: a client that resets
between two copies of one broadcast is seen to have reset before the call or after it, so the
router may survive here where SIGPIPE at the second copy would end it.

`MayWait` is a write to a client that is there: it waits for as long as that client does not
read, and the router with it.  Nothing of the loop is promised in that time.

The loop calls the handler and changes nothing else of its state, so that what holds of any
sequence of packets holds in the loop by the way it is put together; it is the lemma
`LoopImplementsRouter`, and no property of its own.

**CommandLine** is the option loop of the router's `main`, as a fold: options act in their
order, so an address behind the command it was meant for is not seen, and a command sends
its packet and ends the program.  **Commands** runs a script of such lines, each a client
of RouterLoop, one after the other as the shell does, among clients of other kinds.
A program ends once its packet is in the socket, long before the router reads it;
`ScriptTakesEffect` compares the table in the end with the fold of the script's packets: it does
not hold, not even of a script that is alone with the router.

### Packets in a stream of bytes

**Framing** is `gnw_nextPacket` and `packet_shift` on bytes.  A header keeps what
the search looks at: the magic byte, the version, the length; a stream is any
sequence of bytes, packets or not.

Two loops search their buffers with it, and they differ.  **NodeReceive** is
`handleRemoteData` of the node: `Read` appends what a read returned, `Desync` drops
one byte, `TakePacket` takes a packet out, and both repeat until `Scanned` finds
nothing whole.  `BufferIsFull` is the read with no room left, which returns 0 and
is taken for the end of the stream; `StreamEnds` is the real end.
**RouterReceive** is `handle_event` of the router: one packet ends the search, and
`Desync` shifts the bytes and counts `buffer_size` down but leaves the tail where it
was, so the buffer and the part of it that is searched are two things.

**Scanner** is the abstract specification of both: one scan over the whole
stream, with the position and the packets found.  `pos` and `found` are history in the
two loops, and they are all that the refinement looks at.  The node implements it
(`ScansTheStream`); the router does as long as the stream holds nothing but packets
(`CleanStreamsAreScanned`), which is what RouterLoop, whose clients send packets only,
takes for granted.

### The node

**NodeOptions** is the option loop of the node's `main`, as a fold over its command line.

**GraphNode** is the rest of `main`: the start, the poll loop, both
data handlers, the demux policies, the children and the delimiter scan.
`stream_fd` is the watch table (slots in the order in which they are polled),
`sinkTable` the child for each stream, `input_buffer` what was read and not sent.
A configuration is a parsed command line, what stdin is, and whether a router is there
when the node starts.  Assertions are only reported (`bailOnAssertFail` is false, and the
node never sets it): a node without a router goes on, and `Connects`, which is
`getRouterFD` before each local event, opens the socket once there is one, without
watching it and without a claim; an immediate node without an address starts its child
under address 0.

`Served` is the loop: only the first slot with an event, then poll again.  A read
from the router completes some packets (`ReadRemote`), and the handlers take them
one by one from `pending` before the next poll: `HandleCommand`, `Echo`,
`GiveToSink`, and `SpawnSink`, which starts a child, watches it, and leaves
the packet to `GiveToSink` under the address that the new sink has.  `ReadLocal` is one read of stdin or of
a child with the whole scan behind it: `Lines` cuts the buffer before each delimiter, all
but the last line become packets.  `EmergencySend` is what happens instead when less than one
mtu of the buffer is left: the call passes `buffer->tail` as the length, so `malloc` gets a
pointer, fails, and the `memset` behind it ends the node.  `LocalEnds` drops a child or
stdin; `PassesOver` is an event that nothing is done about.

The environment is the router (`Answers` claims in order, sends data at any time - before its
first answer, too, as it does through a descriptor that was another client's - closes, starts
late), the children and whoever writes to stdin, which write the chunks of a script and end
at any time.  A write to a child that has ended raises SIGPIPE, and so may one to a router
that has closed.  The mux policy changes nothing, as both modes send under
`arg_address`, so it is parsed and then not looked at.

### The whole

**GraphSystem** puts nodes, router and children over sockets and pipes that hold a few
lines.  A process does one thing at a time, and a write of it waits for room.
What it adds to the modules above is what they leave to it: blocking writes, and lines on
their way through all the processes.  A line is the number it has at its origin; claims and
links are made already, and no client leaves.  `Handled` keeps that the router takes one packet
out of its buffer per read, whatever else is in it, and `Overflow` that a buffer without
room for a read ends the router: `alive` is false from then on, and the system at rest, since
what nodes do without a router is GraphNode's.  `ready` is the set of nodes that poll has found,
served from the lowest slot up.  `Stopped` says of each process what it waits for when it does
nothing - room (`HasRoom`), somebody to hear (`Heard`), data; such a system may only `Rest`, so
that TLC's deadlock check shows that there is no other way to stop.

### Tables

**AddressMap** is the abstract specification of a table of addresses: a map, with the
answer of each operation and the order of each walk.  Whether a `Put` keeps the data that are
there or takes the new ones is open: the tree keeps them, and `node_table_add` says it
overwrites.  `Overwrite` is `avl_replace` and the put of the hash table, which do.

**AvlTree** is the algorithms of `lib/avl.c` on a heap of nodes: probe with its rotations,
delete with its splice and the loop over the stack, for any comparison.  The mirror images
that the code spells out are one.  **IndexTable** is `IndexTable.c` and `NodeTable.c` on
it, with a traverser that moves through a tree that changes (`avl_t_*`, `trav_refresh`), and
`avl_destroy`, which turns the tree into a list as it frees it.  `compareAddress32` is the
difference of two unsigned numbers as an `int`: a circle, not an order.

**KHash** is `khash.h` for integer keys: open addressing with triangular steps, deletion by
mark, and the resize that rehashes in place by kicking entries out.  A resize is a loop in a
loop in the code and a step for each of its moves here (`TakeOut`, `PutIn`, `Resized`); `move`
holds its local state, and `awaiting` the pair of the `kh_put` that is to go on after it.  The
router's `address_table` and `local_buffer` are such tables.

**ForwardTable** is `ForwardTable.c` with threads: a lock for the table, one for each list,
and iterators, which look their entry up without the first and hold the second until
released.  A call takes a step from one place where it may wait, or be seen, to the next.
`broken` is what has gone wrong so far.

**BoundedQueue** is a queue of bytes with a bound, where a block that would just fill it may be
put in or refused (`lib/RingBuffer.h` says that it fits, and the code refuses it);
**RingBuffer** is the code under a writing and a reading thread.  What runs under the semaphore is a step, but for
`ringbuffer_read`, where the tail is beyond the end between two lines;
`ringbuffer_length`, which takes no lock, is a step per line.

Two modules put parts that do not act on each other side by side, so that a behaviour is about
one of them, its subject, and the rest stays as it began: **MCHandlers** the packet handler (with
every packet, or with clients that keep to RouterContract) and the node; **MCParts** the two receive
loops and the four data structures.  **MCRouter**, **MCGraphNode**, **MCIndexTable** and
**MCForwardTable** hold their instances; **MCRouterLoop**, **MCCommands** and **MCGraphSystem**
are run by themselves.

## The runs

| run | instance | what it shows |
|---|---|---|
| `handlers` | *handler, any order*: 2 addresses, 2 descriptors, all packets about them, 2 edges and 1 data packet per source. *Handler, in the order of RouterContract*: one source takes turns, 3 edges, 4 data packets. *Node*: 11 command lines (each demux policy, echo, immediate, stdin from a pipe or a file, an address or none, with and without a router), 3 slots, 2 data packets, buffer of 6, mtu of 2, a short and a long line on stdin | routing, bindings, growth of the table, the fabric; no fault under the contract; turns under policy changes and new edges: 4 packets go round three edges with a change in between; lines are sent whole, streams keep their child, sinks are watched |
| `parts` | *receive loops*: all streams of 7 bytes over 3 byte values, into the node (buffer of 6) and into the router (buffer of 7, reads up to 4), header of 3. *Tables*: six addresses across the wrap of a range of 16, and three in a circle; 5 keys of which 3 collide in every table of up to 4 buckets; 3 threads with a call each on 3 sources; a ring of five bytes with blocks of 0 to 2 | the scan, nothing lost or repeated, when a full buffer ends the node, the loop comes to an end; clean streams are scanned by the router, and only whole packets with a valid header are handed on; the tree is balanced, ordered, and loses no node; traversers go on to the neighbour; index and hash tables are maps; entries of the forward table have edges; the ring is a queue, its unlocked length is safe |
| `loop` | a receiver, a source that links itself to it and a late client, 3 descriptors, 2 slots, data packets of 2 cells, reads of 1 or 2 | streams, order, tables, descriptor reuse, who can end the router by a reset; and nobody waits for ever while clients read |
| `system` | a fan of two inputs and two outputs, an input linked to one of two outputs twice, chains with one and two filters, a node linked to itself; sockets and pipes of 2 lines, router buffers of 4, 3, 5 or 6 lines | along a single link no line is lost, doubled or overtaken while the router runs; when a full buffer ends it; when every process waits, no line is on its way but what the router keeps, or two processes write to each other, and in which systems they never do; when lines come to rest |
| `overflow`, `owners`, `commands`, `node_input`, `node_asserts`, `spawn`, `lookups`, `calls` | as small as the disagreement needs | a line of the source that the code does not keep, one finding each |

Bounds.  `MaxEdges` and `MaxPackets` bound the two things that grow, `FewEdges` and `FewPackets` the same
where every packet comes in every order. Two addresses
suffice for the routing properties: each speaks of one source and one target.  A buffer
of 4 cells against reads of 2 stands for twenty reads: the overflow needs only that a
client writes more packets than it causes reads. Three descriptors for two slots let a
number be reused while another client is there.  The commands have three slots, one
each, so that a full poll table refuses none of them, and are alone with the router: it is the end of the
first command that makes a lower slot free.  The three byte values are the magic,
the version and a third, and each also serves as a length: the two smaller ones make
packets that fit the buffer, 5 one that does not; the node's buffer holds two packets at
once, and seven bytes hold two with garbage before, between or behind them.  Three slots
for up to three children fill the watch table; two data packets are enough for a stream
to find its child or a second one, and for a child to end in between; the script on
stdin has a line shorter than what the buffer can hold below its last mtu and one
longer, which a run of reads of two bytes and of single ones reaches in every way.
Six addresses make trees of three levels in every shape, with single and double rotations
at and below the root and a deletion that splices a successor from below; `Copies` lets a
circle hold an address twice, as its comparison may miss it.  Five keys fill a table of four
buckets beyond its upper bound and so force it to grow; marks make it rehash at its size.
Three threads on three sources let one wait for a lock that another holds while a third
turns the tree.  The ring of five wraps under blocks of two at each of its indices; `Word` is more than
twice the size, so that a number below zero is beyond any length.  In `system`, 5 lines are
one less than 2 x 2 + 2 of a socket in both directions and the two processes at its ends,
and 6 are as many; a router's buffer of 4 lines is filled by a burst of 6 that is read two at a
time, and not by one of 5.  Runs that do not check deadlock stop on a fault, when a script is over,
or at a bound.  `system` checks it: a system that stops has `Rest` to do.

Fairness.  `LoopSpec` is weakly fair in the router's own steps except while `MayWait`: its
process is scheduled, and it blocks in `poll`, which returns when there is an event, and in `write`
(`GraphNetwork.c:124`), which returns when the client has read.  Clients owe nothing, so
`PendingIsAccepted`, `BytesAreRead` and `DepartedIsReclaimed` hold unless the process has ended or a write
waits for ever (`Held`).  They speak of all clients at once: somebody is always served, scripts are
finite, and so in the end everybody is.  `CommandsSpec` is fair in the router in the same way and in
the commands, which run to their end without waiting for an answer.
In `parts` the node is fair in its steps of the receive loop and not in `StreamEnds`: the router may keep
the connection open for ever; neither it nor the tables have another liveness property there.
`GraphNode` is fair in the node's steps, whenever it has something to do, and in `Answers`: the router
answers a claim at once.  Writes of the node return in that module; those that wait are GraphSystem's.
Its one liveness property, `InputIsForwarded`, is violated under this fairness, which takes
more for granted than the code gives.  That a pipe on stdin which never pauses keeps the node from reading
what the router sends is the same loop (`GraphWrap.c:910-925`).
`SystemSpec` is fair in each process by itself.  In `calls` each thread of
ForwardTable goes on when it need not wait; a mutex is not fair, and a thread could be passed
over for ever by others that call without end, so the number of calls is finite.

## What the source says, and the models keep otherwise

Eight sentences of the source have a violated run each (`findings` in PROJECT.json).  These are
not kept either; no run is spent on them:

* the status listing says "{drop} to {∅}" of a source without edges
  (`GraphRouter.c:655`), but anycast and round robin divide by zero for it
  (`DivideByZero`; `NeverFaults` needs a contract for this reason);
* "Just drop the message, if we don't have a known, bound address for this"
  (`GraphRouter.c:395`) stands before a `kh_exist` whose index may be `kh_end`
  (`BadLookup`), and before no test of `bound_fd` at all;
* "If the socket is gone, just drop the fd and continue the scan"
  (`GraphRouter.c:768`): a write to that client earlier in the same scan raises
  SIGPIPE and ends the router (`Broken`);
* packets that one read completes beyond the first wait in the router's buffer for the next
  read of their client, for ever if there is none, which is the slow side of the `overflow` finding; in
  `system`, `Settled` leaves them where they are;
* a router that waits in a write for one client serves no other (`MayWait`);
* after garbage the router's `Desync` leaves the tail where it was, so a packet behind it is
  not found where it stands (`CleanStreamsAreScanned` speaks of clean streams only);
* a merging node without an address of its own that is given data before its first claim is answered
  looks for their sink under address 0, and then under its new address: a second child
  (`NamesStay` leaves such nodes out of `OneChildPerStream`);
* "Emergency send! About to blow off the end of the buffer!" (`GraphWrap.c:543`) sends
  nothing (`EmergencySend`);
* a node that both sends and receives can stop together with the router: as many lines at once as
  fill both directions of its socket and both processes (`RouterCircle`), and so with a child
  and its pipes (`ChildCircle`);
* `--mux` takes "noop" for merge and the rest for noop, as both `strcmp` tests are inverted;
  nothing looks at the result.  `-i` twice watches stdin twice.  Options of the inner binary
  are taken for the node's own unless `--` stands before them;
* a router line without a command goes on as a second router and keeps its socket to the first;
* with all slots in use, a client's socket may be left open and never looked at again, as what stands
  behind the end of the poll table decides whether it is closed (`AcceptWhenFull`);
* the ring takes two bytes less than it was made with: one to tell full from empty and one
  because a write asks for more room than it needs, so what `ringbuffer_capacity` returns cannot be
  written (`Refuse`), although `RingBuffer.h` calls it the "number of available bytes" (64) and refuses
  a block only if the capacity is smaller (116-117).  BoundedQueue leaves such a block open.  `ringbuffer_destroy` never refuses.  A peek at the byte that stands at the start of the ring
  reads behind its end, and the byte at `offset` is in no `ringbuffer_peek32`: the fourth of its peeks
  asks for `offset + 3` again;
* `node_table_add` warns that an address "overwrites" the one there; it keeps the old and loses
  the entry made for the new;
* `forward_table_remove` of a source that is not there follows NULL, and an iterator whose release
  looks its entry up while the tree is turned leaves the list locked ("release missed");
* a put of a key that a full hash table holds already makes it grow (`SizeFollowsEntries` speaks
  of tables that only new keys were put into).

## The proofs

**RouterProofs** proves with TLAPS, for all sets of addresses, descriptors and
inputs and all bounds, under `RouterAssumption` only (addresses and descriptors
are numbers, inputs are packets):

* `TypeCorrect`: `TypeOK` is inductive by itself;
* `RoutesAreClaimed` and `BindingsAreClaims`: `CopiesFollowEdges` is not
  inductive, since a copy goes to the descriptor of an old claim; together with
  `BoundIsClaimed` it is;
* `GrowsForever`: each action extends forward lists and keeps addresses;
* `RoundRobinIsFair`: `RoundRobinTakesTurns` speaks of the history only.  `TurnsInv`
  ties it to the counter: the i-th last pick is the counter's value i packets
  ago, modulo the number of edges.  Values less than k apart differ modulo k
  (`RemaindersDiffer`), which is the property;
* `ContractHolds`: `NeverFaults` under the contract, which the run checks as `ContractKept`; the inductive invariant is `DividesOverEdges`, that a policy
  which divides has an edge to choose;
* `RouterImplementsFabric`: initial states map to initial states and each action
  to the action of the fabric with the same effect, `Ignored`, faults and the end
  of the process to `Idle` or a packet that is carried nowhere.

Lemmas on the operators (`BindTable`, `LinkTable`, `CountOutTable`,
`SelectionsAreEdges`, ...) say what each does to a table; the step proofs cite
them and never expand the nested updates.

**ReceiveProofs** proves about the node's receive loop, for any bytes, any
header of three bytes or more, any buffer that holds a header and any streams:

* `ReceiveTypeCorrect`, `BufferHoldsStream` and
  `OnlyLongFramesFill`: the three invariants of the run are inductive together with
  `NothingLeftBehind`, that a node in `poll` has found nothing whole in its buffer.
  `FullOnlyForLongFrames` needs the others: a buffer that is full is the front
  of the stream, and nothing is found in it, so its front is a header
  whose packet does not fit;
* `ReceiveScansTheStream`: the refinement.  What `NextPacket` finds does not
  change when more bytes arrive (`NextExtends`), and buffer and socket are the
  rest of the stream, so a packet found in the buffer is the packet of the scan.

`ReadKeepsStream` and `ShiftKeepsStream` are the lemmas about sequences they rest on;
and about the router's, for any bytes a client may send and any sizes.  Lengths are numbers in both,
and do not wrap as the 32-bit sum of `GraphNetwork.c:231` does:

* `OnlyFramesAreFound`: only whole packets with a valid header are handed on, and the buffer never
  grows beyond its room.  Stale bytes may be part of such a packet.  The invariant is inductive
  by itself: what `NextPacket` finds is a frame wherever it is found;
* `PacketStreamsAreScanned`: `CleanStreamsAreScanned`.  It needs `StreamInBuffer`: as long as no
  byte was dropped, what was found, the buffer and the socket make up the stream, and the part
  that is searched is the whole buffer.  One dropped byte breaks the second half, and
  with it the refinement.

**RingBufferProofs** proves about the ring, for every size above 2, any bytes and any blocks:

* `RingTypeCorrect`: head and tail inside the ring.  The type alone is not inductive; `Indices`
  adds that a tail beyond the end stands for a place at or before the head, and `Lines`
  what each line of `ringbuffer_length` still knows when the other thread has moved its index:
  once the reader has found the head below the tail, the head cannot leave from there, since a
  write never reaches the tail;
* `RingEstimates`: with these, each line answers a length that is at most the one there is, or
  a number below zero;
* `RingImplementsQueue`: `Queue` reads the ring from the tail on.  A write changes
  only places that the queue does not use, and a read copies from its front, whether it is cut at the
  seam or not.

**RouterLoopProofs** proves about the loop around the handler, for all scripts of packets, numbers
of descriptors and slots, sizes of buffer and read:

* `TablesAlwaysAgree`, `StreamsStayIntact`, `DeliveryIsInOrder`, `StrangersNeedReuse` and
  `PipesBreakAtReceivers`: the five invariants of the run, with one inductive invariant, `LoopInv`.  To
  four of them it adds what keeps
  them apart from a client that leaves or a descriptor that is given again: a connection waits once, and
  on no descriptor (`Waiting`); nothing of it is read while it waits
  (`UnreadWhileWaiting`); what was handled of it is the front of its script
  (`TakenInOrder`), so a delivery can only name a packet handled before
  (`DeliveredInOrder`); and an address is bound to the descriptor of a client that
  claimed it and knows, or to that of one that is gone (`BoundToClaimants`), which
  is why strangers need a descriptor that is used again - and why the only resets that SIGPIPE may
  come of are those of clients that a packet is for, or that sit on such a descriptor;
* `LoopKeepsTheContract` carries what RouterProofs proved of the handler to the process, by the
  lemma `LoopImplementsRouter`: every step of the loop is a call of the handler or leaves its state alone;
* `ScriptsRunTheLoop`: a script of Commands takes steps of the loop and no others, so the same is
  promised of every shell script that configures a running router.

That the packet found at the front of a buffer is the next one of its client's script, and that what
is left behind it is intact again, is the lemma `FirstPacket`: a stream of packets that is cut
after one of them, and read on, begins with the next.

**GraphNodeProofs** proves about the node, for all command lines, scripts and sizes that
`NodeAssumption` allows, with the inductive invariant `NodeInv`:

* `SinksStayWatched`: a slot is found for a new child only while one is free, and no child is in
  two slots or two sinks (`SlotsAndSinks`); that no packet starts two children needs the
  numbers of the packets in both queues (`DataInOrder`);
* `LinesAreSentWhole`: what was sent and what is kept are what was read, and what is kept holds a
  delimiter at its start only (`BuffersAreLines`).  That the scan cuts bytes into such lines is
  a lemma on its operator (`LinesFacts` of StreamLemmas);
* `ShortLinesNeverOverflow`: as the buffer is left with no delimiter behind its first byte, a read
  that ends beyond the last mtu has one long line in it.  The proof found that this needs a
  delimiter below 128, which the property now says: one from 128 on is never found;
* `StreamsHaveOneChild`: while the child of a stream lives, it is the stream's sink (`AllServed`), and what it was
  given came before what is still queued (`DeliveredInOrder`).  It is about nodes whose names for streams
  stay (`NamesStay`): the `spawn` finding shows what becomes of the others, and data may come before the
  first answer.

**TableProofs** proves about the forward table, for all threads, sources, targets, calls and
lists to begin with:

* `EntriesAlwaysHaveEdges`: `EntriesHaveEdges`.  The invariant, `TableInv`, says who holds
  `forward_table_lock`: the thread that is between its lock and its unlock, and nobody else
  (`TableIsHeld`).  Of the steps in between, three may leave an entry without edges (`HalfDone`): put and
  not yet given its first, found to be given one, and unlinked but not yet pruned.  All other
  entries have edges (`OthersHaveEdges`); the thread's own is in the table until
  it prunes it (`HoldersHaveEntries`).  Locks of lists do not matter to it: `find_edge_to`, which
  reads a list without its lock, is safe because every writer has the lock of the table.

and about the hash table, for all keys, pairs and sizes asked for:

* `HashIsSound`: `SoundHash`.  A probe that goes on for ever would have to find every bucket that
  it comes to used.  In one round it comes to different ones (`ProbesDiffer`): two steps i < j that
  meet make n divide j(j+1)/2 - i(i+1)/2, so 2n divides (j - i)(j + i + 1), of which one factor
  is odd and both are too small; that a power of two which divides such a product divides the even
  factor is shown by a least counterexample (`OddCancels`).  So n buckets would be used
  (`FreeBucket`), and the upper bound, which counts those marked deleted too, allows fewer.  While
  pairs move, those that have moved and the one in hand are together no more than fit, so `kh_resize`,
  whose probe looks for nothing but an empty bucket, finds one (`FreeForHand`);
* `HashIsAMap`: `HashImplementsMap`.  The invariant, `HashInv`, says that each live pair is
  reached by the probe of its key over used buckets only (`TableFinds`): a mark deletes no
  bucket from the way of another key, and `kh_put`, which takes the last mark that it passed,
  stays on its own way.  Of a resize it says that the pairs that have moved, those that have not
  and the one in hand are those of the old table, each once (`MoveKeeps`), and that those that have
  moved are found by the new flags.  Taking out, putting in and kicking out keep this, and the end of the move
  is a table of the same pairs, so the whole resize is one of the steps that the map does not see.
  `GrowsWithEntries` ties the size of the table to the number of its pairs, for `SizeFollowsEntries`.

**GraphSystemProofs** proves about the whole, for all nodes, links, bursts and sizes of the sockets,
pipes and router buffers, up to the moment in which a full buffer ends the router:

* `LinesAreNeverLost`: `NothingIsLost`, of the time in which the router runs.  It is inductive with three facts (`SystemInv`): the types; that a line
  stays with the node it is from until the router has handled it (`OwnLines`), for the copies
  go along the edges of the line's origin, and a line among another's would leave the count of
  its own; and that only filters have children (`OnlyFiltersHaveChildren`), for what comes from
  a child would otherwise be counted among the lines of stdin.  Each action moves a line from one of the
  eight places between its origin and its destination to the next (`Three`, `Four`); that
  the lines of one node among others keep their order is the lemma `OfCat`, and that a packet
  becomes one copy for each node that its source is linked to once is `CopiesFacts`.

* `StopsAreCircles`: `StopsOnlyInCircles`.  Who waits for whom is short (`WaitsForNode`,
  `WaitsInPoll`, `WaitsForChild`), and rests on `StopInv`: no queue is longer than its
  socket or pipe; poll has found only nodes with something to read; copies go along links
  (`CopiesAreLinked`) and nodes that only write to stdout send nothing, so that there is no circle where
  links lead from inputs to outputs.  In a chain it counts: the lines under way, summed over
  all the queues of all nodes and what the router is writing, are no more than were read from
  stdin (`NoMoreThanRead`), and a circle needs 2 x `Socket` + 2 or 2 x `Pipe` + 2 of them.  The sum is a
  function of partial sums (`IsSum`), whose change and lower bound are lemmas (`SumChanges`,
  `SumAtLeast`);

* `OverflowNeedsBursts`: `BurstsOverflow`, when it is that the router ends.  Each read of up to `Socket` lines leaves all
  but one in the buffer, so of the lines of a node that have left its socket, those that are still in its buffer
  are at most the share (`Socket` - 1) / `Socket` (`BurstsBehind`); a node that gets its lines through one by
  one has none there.

The attempt at `LinesAreNeverLost` found that the property had to say *once*: `link` adds an edge each time, and a node linked
to another twice sends it every line twice, in two packets one behind the other.  The run
has such a system.  The attempt at `StopsAreCircles` found that it is not enough for `OneWay` that every
node is an input or an output: an input that another is linked to is sent lines while it writes
its own, and a long burst closes the circle with the router.

**StreamLemmas** holds what several of these use: the order that `Ascending` picks for a
set of numbers, the places where bytes are cut into lines, and concatenation
(`Cat`, a name that keeps `\o` closed to the provers where only its laws are needed).

Liveness is model-checked only.  `StopsOnlyInCircles` speaks of `Stopped` and not of ENABLED,
which the prover does not know; that a system without a step is always `Stopped` is what TLC's deadlock
check shows.
AvlTree and IndexTable use RECURSIVE
operators, which the prover does not support, and what their recursion computes would need
induction over data.  `LookupsFindHeld` of IndexTable, and `ScriptTakesEffect` of Commands and `CallsReturn` of ForwardTable, which are
liveness, are what the code does not keep.

## What is not modelled, and what comes next

Next: the balance of the AVL tree (`SoundTree`).  Its probe and its delete are loops over a stack,
and as steps, like those of the hash table's resize, they could be proved about; the heights of
subtrees, which the balances stand for, are recursive.

The numbers of the hash table are without bound: a table of 2^31 buckets or more, at which `kroundup32` and
`size << 1` wrap, would need as many addresses.

Numbers: the 32-bit sum in `gnw_nextPacket` (`GraphNetwork.c:231`) wraps for payloads of
2^32 - 11 bytes or more, which no program here sends; a failed write adds -1 to the byte
counter (`GraphNetwork.c:125`), which is only printed; `--policy` with a name that is none makes a packet
one byte short, whose last byte the router reads from behind it.  A receive queue of which the kernel has
lost nothing is assumed throughout: sockets are TCP and pipes.

Left out for good: the status and DOT listings, logging and formatting (output only); the
linked list, which nothing calls (`ll_prepend` makes the first element of a list its own
successor, and `ll_length` counts one less than there are); the peeks of the ring at single bytes, which
nothing calls either; `avl_copy` and the macros of klib that
no program calls; the other headers and sources of klib but `kvec.h`, whose vectors are sequences here; `archive/`,
`GraphWrap_old.c` and `temp.c` (built by nothing); the test programs, which were read
for what they say.  Most lines of the repository are of this kind: klib's unused sources alone
are more than the programs and their libraries together.
