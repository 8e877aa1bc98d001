--------------------------- MODULE RouterContract ---------------------------
(***************************************************************************)
(* The order of calls under which handle_packet never faults.  Nothing in  *)
(* the code enforces it; bash/RoundRobinTest.sh starts its commands in the *)
(* background, beside the node that is already sending.                    *)
(***************************************************************************)
EXTENDS Router

\* An address sends only once it is known, and is given a policy that divides
\* only once it has an edge; nobody sends a policy that has no name.
InOrder(p) ==
    /\ p.kind = "data" => p.source \in Known(address_table)
    /\ p.kind = "policy" => p.policy # "bad"
    /\ (p.kind = "policy" /\ p.policy \in {"anycast", "roundrobin"}) =>
          /\ p.target \in Known(address_table)
          /\ address_table[p.target].forward # <<>>

OrderedNext ==
    \/ \E fd \in Fd, p \in Input : InOrder(p) /\ HandlePacket(fd, p)
    \/ AssertFails

OrderedSpec == Init /\ [][OrderedNext]_vars

(***************************************************************************)
(* Clients that keep to the order never make the packet handler divide by  *)
(* zero or read outside the table, whatever they send in between and       *)
(* however often addresses change hands.                                   *)
(***************************************************************************)
NeverFaults == status \notin {"segv", "fpe", "undefined"}

\* What keeps it true: a policy that divides always has an edge to choose.
DividesOverEdges ==
    \A a \in Known(address_table) :
        Divides(address_table[a]) => address_table[a].forward # <<>>

=============================================================================
