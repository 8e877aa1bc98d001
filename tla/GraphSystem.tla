---------------------------- MODULE GraphSystem ----------------------------
(***************************************************************************)
(* The router and its nodes together, once addresses are claimed and       *)
(* linked: lines go from a stdin or a child through a node, a socket, the  *)
(* router, another socket and another node to a child or a stdout.         *)
(* Every process does one thing at a time, and every write of it waits for *)
(* room: no descriptor is set to non-blocking.  Sockets and pipes hold a   *)
(* few lines; what Router, RouterLoop and GraphNode tell apart within a    *)
(* process is left to them.                                                *)
(***************************************************************************)
EXTENDS Integers, FiniteSets, Sequences, SequencesExt

CONSTANTS
    System,     \* the systems: records of kind, edges and lines
    Socket,     \* lines that a socket holds in one direction, and a read takes
    Buffer,     \* lines that fill the router's buffer for a client: 20 * mtu
    Pipe        \* lines that a pipe to or from a child holds

\* What a node is run for: -i, -o, both of them, or a child that answers every
\* line that it reads with one.
Kind == {"input", "output", "bridge", "filter"}

ASSUME SystemAssumption ==
    /\ {Socket, Buffer, Pipe} \subseteq Nat \ {0}
    /\ \A s \in System :
          /\ s.kind \in Seq(Kind)      \* in the order of their slots
          /\ s.edges \in [DOMAIN s.kind -> Seq(DOMAIN s.kind)]
          /\ s.lines \in [DOMAIN s.kind -> Nat]

VARIABLES
    system,     \* which of the systems this is
    alive,      \* the router runs; what nodes do without it is in GraphNode
    read,       \* lines read from the stdin of each node
    going,      \* what a node is writing to the router, and has still to write
    upward,     \* each socket, from the node
    local,      \* the local buffer of the router for each node
    ready,      \* the nodes that poll has found for the router, still to be served
    emitting,   \* what handle_packet is writing, and has still to write
    downward,   \* each socket, to the node
    coming,     \* what a node has read from the router, and not yet passed on
    toChild, working, fromChild,    \* the pipes of a filter, and what is between
    got,        \* history: what each node has passed on
    answered    \* history: lines that each filter has answered

systemVars == <<system, alive, read, going, upward, local, ready, emitting,
                downward, coming, toChild, working, fromChild, got, answered>>

Nodes == DOMAIN system.kind
Inputs(n) == system.kind[n] \in {"input", "bridge"}
Filters(n) == system.kind[n] = "filter"

Line(n, k) == [of |-> n, number |-> k]

\* Mutant: a socket or a pipe counts as full one line early.
HasRoomEarlyFull(queue, size) == Len(queue) + 1 < size

\* A write waits until there is room.
HasRoom(queue, size) == Len(queue) < size

-----------------------------------------------------------------------------
(* A node serves the first of stdin, the router and its child that has     *)
(* something, and before that finishes what it is writing.                 *)

Idle(n) == going[n] = <<>> /\ coming[n] = <<>>
StdinHasLines(n) == Inputs(n) /\ read[n] < system.lines[n]

ReadStdin(n) ==
    /\ alive /\ Idle(n) /\ StdinHasLines(n)
    /\ \E k \in 1..(system.lines[n] - read[n]) :
          /\ read' = [read EXCEPT ![n] = @ + k]
          /\ going' = [going EXCEPT ![n] = [i \in 1..k |-> Line(n, read[n] + i)]]
    /\ UNCHANGED <<system, alive, upward, local, ready, emitting, downward,
                   coming, toChild, working, fromChild, got, answered>>

ReadRouter(n) ==
    /\ alive /\ Idle(n) /\ ~StdinHasLines(n)
    /\ \E k \in DOMAIN downward[n] :
          /\ coming' = [coming EXCEPT ![n] = SubSeq(downward[n], 1, k)]
          /\ downward' = [downward EXCEPT ![n] = SubSeq(@, k + 1, Len(@))]
    /\ UNCHANGED <<system, alive, read, going, upward, local, ready, emitting,
                   toChild, working, fromChild, got, answered>>

ReadChild(n) ==
    /\ alive /\ Idle(n) /\ downward[n] = <<>>
    /\ \E k \in DOMAIN fromChild[n] :
          /\ going' = [going EXCEPT ![n] = SubSeq(fromChild[n], 1, k)]
          /\ fromChild' = [fromChild EXCEPT ![n] = SubSeq(@, k + 1, Len(@))]
    /\ UNCHANGED <<system, alive, read, upward, local, ready, emitting,
                   downward, coming, toChild, working, got, answered>>

WriteRouter(n) ==
    /\ alive /\ going[n] # <<>> /\ HasRoom(upward[n], Socket)
    /\ upward' = [upward EXCEPT ![n] = Append(@, Head(going[n]))]
    /\ going' = [going EXCEPT ![n] = Tail(@)]
    /\ UNCHANGED <<system, alive, read, local, ready, emitting, downward,
                   coming, toChild, working, fromChild, got, answered>>

\* Data packets go to the child, or to stdout, which takes them all.
PassOn(n) ==
    /\ alive /\ coming[n] # <<>>
    /\ Filters(n) => HasRoom(toChild[n], Pipe)
    /\ toChild' = IF Filters(n)
                  THEN [toChild EXCEPT ![n] = Append(@, Head(coming[n]))] ELSE toChild
    /\ got' = [got EXCEPT ![n] = Append(@, Head(coming[n]))]
    /\ coming' = [coming EXCEPT ![n] = Tail(@)]
    /\ UNCHANGED <<system, alive, read, going, upward, local, ready, emitting,
                   downward, working, fromChild, answered>>

-----------------------------------------------------------------------------
(* A child: reads a line, writes a line.                                   *)

ChildReads(n) ==
    /\ alive /\ toChild[n] # <<>> /\ working[n] = <<>>
    /\ working' = [working EXCEPT ![n] = <<Head(toChild[n])>>]
    /\ toChild' = [toChild EXCEPT ![n] = Tail(@)]
    /\ UNCHANGED <<system, alive, read, going, upward, local, ready, emitting,
                   downward, coming, fromChild, got, answered>>

ChildWrites(n) ==
    /\ alive /\ working[n] # <<>> /\ HasRoom(fromChild[n], Pipe)
    /\ answered' = [answered EXCEPT ![n] = @ + 1]
    /\ fromChild' = [fromChild EXCEPT ![n] = Append(@, Line(n, answered'[n]))]
    /\ working' = [working EXCEPT ![n] = <<>>]
    /\ UNCHANGED <<system, alive, read, going, upward, local, ready, emitting,
                   downward, coming, toChild, got>>

-----------------------------------------------------------------------------
(* The router.                                                             *)

\* Mutant: a node whose buffer holds something is not polled.
HeardEmptyBuffers == {n \in Nodes : upward[n] # <<>> /\ local[n] = <<>>}

\* The nodes that poll finds.
Heard == {n \in Nodes : upward[n] # <<>>}

Poll ==
    /\ alive /\ emitting = <<>> /\ ready = {}
    /\ Heard # {}
    /\ ready' = Heard
    /\ UNCHANGED <<system, alive, read, going, upward, local, emitting,
                   downward, coming, toChild, working, fromChild, got,
                   answered>>

\* Mutants: the packet handled is the last that was read; it stays in the buffer.
HandledLast(bytes) == [packet |-> Last(bytes), rest |-> Front(bytes)]
HandledStays(bytes) == [packet |-> Head(bytes), rest |-> bytes]

\* One packet is handled per read, whatever else is in the buffer.
Handled(bytes) == [packet |-> Head(bytes), rest |-> Tail(bytes)]

\* Broadcast: a copy along each edge, in turn.
Copies(packet) ==
    [i \in DOMAIN system.edges[packet.of] |->
        [to |-> system.edges[packet.of][i], line |-> packet]]

\* A read of k lines from the lowest slot that poll has found.
Reads(n, k) ==
    /\ alive /\ emitting = <<>>
    /\ n \in ready /\ \A m \in ready : n <= m
    /\ upward' = [upward EXCEPT ![n] = SubSeq(@, k + 1, Len(@))]
    /\ ready' = ready \ {n}

Serve(n) == \E k \in DOMAIN upward[n] :
    /\ Reads(n, k)
    /\ k < Buffer - Len(local[n])
    /\ LET handled == Handled(local[n] \o SubSeq(upward[n], 1, k))
       IN  /\ local' = [local EXCEPT ![n] = handled.rest]
           /\ emitting' = Copies(handled.packet)
    /\ UNCHANGED <<system, alive, read, going, downward, coming, toChild, working,
                   fromChild, got, answered>>

\* assert( length < remaining_buffer ): the router ends.
Overflow(n) == \E k \in DOMAIN upward[n] :
    /\ Reads(n, k)
    /\ k >= Buffer - Len(local[n])
    /\ alive' = FALSE
    /\ UNCHANGED <<system, read, going, local, emitting, downward, coming, toChild,
                   working, fromChild, got, answered>>

\* gnw_emitPacket.
Emit ==
    LET copy == Head(emitting) IN
    /\ alive /\ emitting # <<>>
    /\ HasRoom(downward[copy.to], Socket)
    /\ downward' = [downward EXCEPT ![copy.to] = Append(@, copy.line)]
    /\ emitting' = Tail(emitting)
    /\ UNCHANGED <<system, alive, read, going, upward, local, ready, coming,
                   toChild, working, fromChild, got, answered>>

-----------------------------------------------------------------------------
(* What each process waits for when it does nothing.                       *)

\* poll, or a write to the router or to the child.
NodeWaits(n) ==
    /\ going[n] # <<>> => ~HasRoom(upward[n], Socket)
    /\ coming[n] # <<>> => Filters(n) /\ ~HasRoom(toChild[n], Pipe)
    /\ Idle(n) => ~StdinHasLines(n) /\ downward[n] = <<>> /\ fromChild[n] = <<>>

ChildWaits(n) ==
    /\ working[n] = <<>> => toChild[n] = <<>>
    /\ working[n] # <<>> => ~HasRoom(fromChild[n], Pipe)

\* A write to a node, a read from the first that poll has found, or poll.
RouterWaits ==
    /\ emitting # <<>> => ~HasRoom(downward[Head(emitting).to], Socket)
    /\ emitting = <<>> /\ ready = {} => Heard = {}
    /\ emitting = <<>> =>
          \A n \in ready : (\A m \in ready : n <= m) => upward[n] = <<>>

Stopped == RouterWaits /\ \A n \in Nodes : NodeWaits(n) /\ ChildWaits(n)

Rest == (Stopped \/ ~alive) /\ UNCHANGED systemVars

-----------------------------------------------------------------------------

SystemInit ==
    /\ system \in System
    /\ alive = TRUE
    /\ read = [n \in Nodes |-> 0]
    /\ ready = {}
    /\ emitting = <<>>
    /\ answered = [n \in Nodes |-> 0]
    /\ LET nothing == [n \in Nodes |-> <<>>] IN
       /\ going = nothing /\ upward = nothing /\ local = nothing
       /\ downward = nothing /\ coming = nothing /\ got = nothing
       /\ toChild = nothing /\ working = nothing /\ fromChild = nothing

NodeStep(n) ==
    ReadStdin(n) \/ ReadRouter(n) \/ ReadChild(n) \/ WriteRouter(n) \/ PassOn(n)
ChildStep(n) == ChildReads(n) \/ ChildWrites(n)
RouterStep == Poll \/ Emit \/ \E n \in Nodes : Serve(n) \/ Overflow(n)

SystemNext == RouterStep \/ (\E n \in Nodes : NodeStep(n) \/ ChildStep(n)) \/ Rest

\* Every process that is not waiting for room or for data goes on.
SystemFairness ==
    /\ WF_systemVars(RouterStep)
    /\ \A n \in UNION {DOMAIN s.kind : s \in System} :
          WF_systemVars(n \in Nodes /\ NodeStep(n))
          /\ WF_systemVars(n \in Nodes /\ ChildStep(n))

SystemSpec == SystemInit /\ [][SystemNext]_systemVars /\ SystemFairness

-----------------------------------------------------------------------------
(* What the whole promises.                                                *)

\* What of the lines s comes from node n.
Of(s, n) == FlattenSeq([i \in DOMAIN s |-> IF s[i].of = n THEN <<s[i]>> ELSE <<>>])

\* The line of n that handle_packet has still to write to node d, if it has.
CopiesFor(n, d) ==
    FlattenSeq([i \in DOMAIN emitting |->
        IF emitting[i].to = d /\ emitting[i].line.of = n
        THEN <<emitting[i].line>> ELSE <<>>])

\* What a node has passed on, and what is behind it, as far as the router.
Sent(d) == got[d] \o coming[d] \o downward[d]

\* The lines of node n that the router has not handled.
Unhandled(n) == local[n] \o upward[n] \o going[n] \o fromChild[n]

Begun(n) == IF Filters(n) THEN answered[n] ELSE read[n]

OnlyLink(n, i) ==
    \A j \in DOMAIN system.edges[n] :
        system.edges[n][j] = system.edges[n][i] => j = i

KeepsLines ==
    \A n \in Nodes : \A i \in DOMAIN system.edges[n] :
        OnlyLink(n, i) =>
            LET d == system.edges[n][i]
            IN  Of(Sent(d), n) \o CopiesFor(n, d) \o Unhandled(n)
                    = [k \in 1..Begun(n) |-> Line(n, k)]

(***************************************************************************)
(* From the stdin or the child that a line comes from to each node that it *)
(* is linked to, nothing is lost, doubled or overtaken while the router    *)
(* runs: what a node has passed on, and what is between, is what was read, *)
(* in that order.  (Two links to the same node carry each line twice.)     *)
(***************************************************************************)
NothingIsLost == alive => KeepsLines

(***************************************************************************)
(* The router ends on a full buffer only if a node writes in bursts: of    *)
(* each read all but one line stay behind, so it takes many reads of all   *)
(* that a socket holds.  A node whose lines are read one by one never      *)
(* fills its buffer, however many they are.                                *)
(***************************************************************************)
BurstsOverflow ==
    ~alive => \E n \in Nodes : Begun(n) * (Socket - 1) >= (Buffer - 1) * Socket

\* The router waits for a node that waits for the router.
RouterCircle ==
    /\ emitting # <<>>
    /\ LET n == Head(emitting).to
       IN  Len(downward[n]) = Socket /\ going[n] # <<>> /\ Len(upward[n]) = Socket

\* A node waits for its child, which waits for the node.
ChildCircle(n) ==
    /\ coming[n] # <<>> /\ Len(toChild[n]) = Pipe
    /\ working[n] # <<>> /\ Len(fromChild[n]) = Pipe

\* Nothing moves any more.  All that may be left are lines in the router's buffers:
\* the last ones of a burst, which wait for another read of their node.
Settled ==
    /\ emitting = <<>>
    /\ \A n \in Nodes :
          /\ ~StdinHasLines(n) /\ Idle(n)
          /\ upward[n] = <<>> /\ downward[n] = <<>>
          /\ toChild[n] = <<>> /\ working[n] = <<>> /\ fromChild[n] = <<>>

\* No node both sends and receives.
OneWay ==
    /\ \A n \in Nodes : system.kind[n] \in {"input", "output"}
    /\ \A n \in Nodes : \A i \in DOMAIN system.edges[n] :
          system.kind[system.edges[n][i]] = "output"

\* One stdin, and no line is ever copied.
Chain ==
    /\ \A n \in Nodes : Len(system.edges[n]) <= 1
    /\ \A m, n \in Nodes : Inputs(m) /\ Inputs(n) => m = n

\* Fewer lines than fill both directions of a socket, or of a child's pipes, and
\* both of the processes that use them.
FewLines ==
    \A n \in Nodes : /\ system.lines[n] < 2 * Socket + 2
                     /\ (\E f \in Nodes : Filters(f)) => system.lines[n] < 2 * Pipe + 2

Roomy == OneWay \/ (Chain /\ FewLines)

(***************************************************************************)
(* When every process waits while the router runs, no line is on its way   *)
(* but for what the router keeps - or two processes write to each other,   *)
(* into full sockets or full pipes, and this never where no node both      *)
(* sends and receives, however small the sockets, nor in a chain of few    *)
(* lines.  (TLC's deadlock check shows that Stopped leaves out no way to   *)
(* stop.)                                                                  *)
(***************************************************************************)
StopsOnlyInCircles ==
    (alive /\ Stopped) =>
        \/ Settled
        \/ ~Roomy /\ (RouterCircle \/ \E n \in Nodes : ChildCircle(n))

\* No filter answers a line that comes from its own answer.
Onwards ==
    \A n \in Nodes : Filters(n) =>
        \A i \in DOMAIN system.edges[n] : system.edges[n][i] > n

(***************************************************************************)
(* In those systems, unless filters are linked in a circle in which lines  *)
(* go round for ever, or a burst ends the router, no line stays on its way *)
(* between the processes for ever.                                         *)
(***************************************************************************)
LinesSettle == (Roomy /\ Onwards) ~> (Settled \/ ~alive)

=============================================================================
