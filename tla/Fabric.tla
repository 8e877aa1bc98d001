------------------------------- MODULE Fabric -------------------------------
(***************************************************************************)
(* What the router promises its clients, with no table, counter or packet  *)
(* format in sight: a graph of addresses, each with an owner, in which a   *)
(* data packet from s is carried to the owners of the targets of s: to     *)
(* every one of them when the fan-out of s is "all", to at most one when   *)
(* it is "one", to none when it is "none".                                 *)
(***************************************************************************)
EXTENDS Integers, Sequences

CONSTANTS Addr, Fd

Unbound == -1
Nobody == -1

VARIABLES
    owner,    \* the descriptor that owns each address
    edges,    \* the targets of each address, in the order they were linked
    fanout,   \* how many edges a packet of each address takes
    sender,   \* the source of the data packet of the last step, if it had one
    carried   \* what the last step delivered

fabric == <<owner, edges, fanout, sender, carried>>

FInit ==
    /\ owner = [a \in Addr |-> Unbound]
    /\ edges = [a \in Addr |-> <<>>]
    /\ fanout = [a \in Addr |-> "all"]
    /\ sender = Nobody
    /\ carried = {}

Own(fd, a) ==
    /\ owner' = [owner EXCEPT ![a] = fd]
    /\ sender' = Nobody
    /\ carried' = {[fd |-> fd, from |-> a, to |-> a, edge |-> 0]}
    /\ UNCHANGED <<edges, fanout>>

Quiet == sender' = Nobody /\ carried' = {}

Join(s, d) ==
    /\ edges' = [edges EXCEPT ![s] = Append(@, d)]
    /\ Quiet
    /\ UNCHANGED <<owner, fanout>>

SetFanout(s, f) ==
    /\ fanout' = [fanout EXCEPT ![s] = f]
    /\ Quiet
    /\ UNCHANGED <<owner, edges>>

Idle == Quiet /\ UNCHANGED <<owner, edges, fanout>>

\* The edges of s that lead to an address somebody owns.
Open(s) == {i \in DOMAIN edges[s] : owner[edges[s][i]] # Unbound}

Selections(s) ==
    {taken \in SUBSET Open(s) :
        CASE fanout[s] = "all" -> taken = Open(s)
          [] fanout[s] = "one" -> \A i, j \in taken : i = j
          [] OTHER             -> taken = {}}

Carry(s) ==
    /\ \E taken \in Selections(s) :
          carried' = {[fd |-> owner[edges[s][i]], from |-> s,
                       to |-> edges[s][i], edge |-> i] : i \in taken}
    /\ sender' = s
    /\ UNCHANGED <<owner, edges, fanout>>

FNext ==
    \/ \E fd \in Fd, a \in Addr : Own(fd, a)
    \/ \E s, d \in Addr : Join(s, d)
    \/ \E s \in Addr, f \in {"all", "one", "none"} : SetFanout(s, f)
    \/ \E s \in Addr : Carry(s)
    \/ Idle

FSpec == FInit /\ [][FNext]_fabric

=============================================================================
