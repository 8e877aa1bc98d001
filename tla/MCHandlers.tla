----------------------------- MODULE MCHandlers -----------------------------
(***************************************************************************)
(* The router's packet handler and a node side by side: a behaviour is     *)
(* about one subject, and the others stay as they began.                   *)
(*                                                                         *)
(*   "free"   two addresses, with every packet about them in every order   *)
(*   "turns"  clients that keep to RouterContract; one source takes turns  *)
(*            over up to three edges                                       *)
(*   "node"   a node, with each of the options of MCGraphNode              *)
(***************************************************************************)
EXTENDS MCRouter, MCGraphNode

CONSTANTS
    FewEdges,   \* bound of "free": edges of one source
    FewPackets  \* bound of "free": data packets of one source

VARIABLE subject

-----------------------------------------------------------------------------

AllInput == AnyInput \cup OrderInput

HandlersInit ==
    /\ subject \in {"free", "turns", "node"}
    /\ Init
    /\ NodeInit /\ (subject # "node" => config \in Spawner)

Small(t) ==
    \A a \in DOMAIN t :
        Len(t[a].forward) <= FewEdges /\ t[a].packets_in <= FewPackets

FreeNext ==
    /\ \/ \E fd \in Fd, p \in AnyInput : HandlePacket(fd, p)
       \/ AssertFails
    /\ Small(address_table')

TurnsNext ==
    \/ \E p \in OrderInput : InOrder(p) /\ HandlePacket(Min(Fd), p)
    \/ AssertFails

HandlersNext ==
    \/ subject = "free" /\ FreeNext /\ UNCHANGED <<subject, nodeVars>>
    \/ subject = "turns" /\ TurnsNext /\ UNCHANGED <<subject, nodeVars>>
    \/ subject = "node" /\ NodeNext /\ UNCHANGED <<subject, vars>>

HandlersSpec ==
    HandlersInit /\ [][HandlersNext]_<<subject, vars, nodeVars>>

-----------------------------------------------------------------------------

(***************************************************************************)
(* NeverFaults, of the clients that keep to RouterContract: the others     *)
(* send what makes handle_packet fault.                                    *)
(***************************************************************************)
ContractKept == subject = "turns" => NeverFaults

=============================================================================
