------------------------------ MODULE MCParts ------------------------------
(***************************************************************************)
(* The parts that run within one call, side by side: a behaviour is about  *)
(* one of them, its subject, and the others stay as they began.            *)
(*                                                                         *)
(*   "node", "router"                     the two receive loops            *)
(*   "index", "hash", "forward", "ring"   the data structures              *)
(*                                                                         *)
(* A stream is any sequence of a few bytes, cut in every way; a byte is    *)
(* the magic or the version or neither, and each of them can be a length.  *)
(***************************************************************************)
EXTENDS NodeReceive, RouterReceive, MCIndexTable, MCForwardTable, RingBuffer, KHash

CONSTANT StreamLength

VARIABLE subject

AllStreams == [1..StreamLength -> Byte] \cup {<<>>}

\* Hash: three keys that collide in every table of up to four, and two beside.
FewKeys == {0, 4, 8, 1, 5}
FewPairs == [key : FewKeys, value : {1}] \cup [key : {4}, value : {2}]

\* Ring: blocks of no byte, of one and of two, into a buffer of zeroes.
FewBlocks == {<<>>, <<1>>, <<0, 1>>}

-----------------------------------------------------------------------------

PartsInit ==
    /\ subject \in {"node", "router", "index", "hash", "forward", "ring"}
    /\ Init /\ (input = <<>> <=> subject # "node")
    /\ RouterInit /\ (rInput = <<>> <=> subject # "router")
    /\ IndexInit /\ (subject # "index" => range = Row)
    /\ HashInit
    /\ ForwardInit
    /\ RingInit /\ ring = [i \in DOMAIN ring |-> 0]

PartsNext ==
    \/ /\ subject = "node" /\ Next
       /\ UNCHANGED <<subject, routerVars, indexVars, hashVars, forwardVars, ringVars>>
    \/ /\ subject = "router" /\ RouterNext
       /\ UNCHANGED <<subject, vars, indexVars, hashVars, forwardVars, ringVars>>
    \/ /\ subject = "index" /\ IndexNext
       /\ UNCHANGED <<subject, vars, routerVars, hashVars, forwardVars, ringVars>>
    \/ /\ subject = "hash" /\ HashNext
       /\ UNCHANGED <<subject, vars, routerVars, indexVars, forwardVars, ringVars>>
    \/ /\ subject = "forward" /\ ForwardNext
       /\ UNCHANGED <<subject, vars, routerVars, indexVars, hashVars, ringVars>>
    \/ /\ subject = "ring" /\ RingNext
       /\ UNCHANGED <<subject, vars, routerVars, indexVars, hashVars, forwardVars>>

partsVars ==
    <<subject, vars, routerVars, indexVars, hashVars, forwardVars, ringVars>>

PartsSpec == PartsInit /\ [][PartsNext]_partsVars /\ WF_vars(NodeStep)

=============================================================================
