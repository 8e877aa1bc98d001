---------------------------- MODULE RouterFabric ----------------------------
(***************************************************************************)
(* The packet handler implements the fabric.                               *)
(***************************************************************************)
EXTENDS Router

(* The fabric that a table stands for: an address without a context has no *)
(* owner and no edges.                                                     *)
TableOwner ==
    [a \in Addr |-> IF a \in Known(address_table)
                    THEN address_table[a].bound_fd ELSE Unbound]

TableEdges ==
    [a \in Addr |-> IF a \in Known(address_table)
                    THEN address_table[a].forward ELSE <<>>]

Mode(policy) == CASE policy = "broadcast" -> "all"
                  [] policy \in {"anycast", "roundrobin"} -> "one"
                  [] OTHER -> "none"

TableFanout ==
    [a \in Addr |-> IF a \in Known(address_table)
                    THEN Mode(address_table[a].forward_policy) ELSE "all"]

LastSender == IF handled.kind = "data" THEN handled.source ELSE -1

\* Writes to an unbound context fail.
LastCarried == {e \in emitted : e.fd # Unbound}

F == INSTANCE Fabric WITH owner <- TableOwner, edges <- TableEdges,
        fanout <- TableFanout, sender <- LastSender, carried <- LastCarried

(***************************************************************************)
(* Every call of handle_packet is a step of the fabric: broadcast reaches  *)
(* each owned target of its source exactly once per edge, anycast and      *)
(* round robin reach at most one, and no call delivers anything along an   *)
(* edge that was not made or to a client that does not own the target.     *)
(***************************************************************************)
ImplementsFabric == F!FSpec

=============================================================================
