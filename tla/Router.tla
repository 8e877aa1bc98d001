------------------------------- MODULE Router -------------------------------
(***************************************************************************)
(* The packet handler of the router: handle_packet of src/GraphRouter.c    *)
(* and the address_table it keeps.  A step of this module is one call of   *)
(* handle_packet; what the call writes is the value of `emitted' after the *)
(* step, and `status' tells whether the process survived it.               *)
(***************************************************************************)
EXTENDS Integers, Sequences, FiniteSets, SequencesExt

CONSTANTS
    Addr,        \* the gnw_address_t values in play
    RandomAddr,  \* those that 0xFFFFF000 & rand() can give
    Fd,          \* the descriptors handle_packet is called with
    Input,       \* the packets that clients send
    SmallTable,  \* most keys for which khash keeps the flag bits of kh_end
                 \* inside its flag array (6: eight buckets, one flag word)
    MaxEdges,    \* bound of the model: edges of one source
    MaxPackets   \* bound of the model: data packets of one source

Unbound == -1                     \* bound_fd of a context nobody has claimed
AnyAddress == -1                  \* a claim that leaves the choice to rand()

Policy == {"broadcast", "anycast", "roundrobin", "bad"}

(***************************************************************************)
(* The packets, as far as handle_packet tells them apart.  "other" stands  *)
(* for everything it only logs: an empty command, STATUS, DISCONNECT, an   *)
(* unknown directive, an unknown type.                                     *)
(***************************************************************************)
ClaimPacket   == [kind : {"new_address"}, address : Addr \cup {AnyAddress}]
ConnectPacket == [kind : {"connect"}, source : Addr, target : Addr]
PolicyPacket  == [kind : {"policy"}, policy : Policy, target : Addr]
DataPacket    == [kind : {"data"}, source : Addr]
OtherPacket   == [kind : {"other"}]
Packet == ClaimPacket \cup ConnectPacket \cup PolicyPacket \cup DataPacket
            \cup OtherPacket

NoPacket == [kind |-> "none"]    \* before the first call

ASSUME RouterAssumption ==
    /\ Addr \subseteq Nat
    /\ RandomAddr \subseteq Addr
    /\ Fd \subseteq Nat
    /\ Input \subseteq Packet
    /\ SmallTable \in Nat
    /\ MaxEdges \in Nat
    /\ MaxPackets \in Nat

Context == [forward : Seq(Addr), forward_policy : Policy,
            bound_fd : Fd \cup {Unbound}, packets_in : Nat, packets_out : Nat]

Fault == {"segv",       \* NULL flags of a table that was never put into
          "fpe",        \* remainder by the size of an empty forward list
          "undefined",  \* a context read past the end of the table
          "sigpipe",    \* a write to a peer that is gone
          "assert"}     \* a failed assertion

(***************************************************************************)
(* What one call writes: a copy of a data packet of `from' sent to the     *)
(* owner of `to' along edge number `edge' of `from', or (edge 0) the reply *)
(* that tells `fd' which address it was given.                             *)
(***************************************************************************)
Emission == [fd : Fd \cup {Unbound}, from : Addr, to : Addr, edge : Nat]

VARIABLES
    address_table,  \* the contexts, by address: a function on a subset of Addr
    handled,        \* the packet of the last call
    emitted,        \* the packets the last call wrote
    status,         \* "running", or what ended the process
    claims,         \* history: every <<fd, address>> ever bound
    picks           \* history: the edges round robin took for a source since
                    \* its edges or its policy last changed

vars == <<address_table, handled, emitted, status, claims, picks>>

-----------------------------------------------------------------------------
(* The table.                                                              *)

Known(t) == DOMAIN t

\* Mutant of NewContext: reset_context in place of setup_context.
ClosedContext == [forward |-> <<>>, forward_policy |-> "closed",
                  bound_fd |-> Unbound, packets_in |-> 0, packets_out |-> 0]

NewContext == [forward |-> <<>>, forward_policy |-> "broadcast",
               bound_fd |-> Unbound, packets_in |-> 0, packets_out |-> 0]

WithContext(t, a) ==
    [x \in Known(t) \cup {a} |-> IF x \in Known(t) THEN t[x] ELSE NewContext]

Bind(t, a, fd) == [WithContext(t, a) EXCEPT ![a].bound_fd = fd]

Link(t, s, d) == [WithContext(t, s) EXCEPT ![s].forward = Append(@, d)]

WithPolicy(t, a, p) == [t EXCEPT ![a].forward_policy = p]

\* Mutants of Selections: anycast falls through to broadcast; round robin goes by
\* packets_out.
SelectFallingThrough(ctx, n) ==
    {IF ctx.forward_policy = "bad" THEN {} ELSE DOMAIN ctx.forward}
SelectByCountOut(ctx, n) ==
    IF ctx.forward_policy = "roundrobin"
    THEN {{(ctx.packets_out % Len(ctx.forward)) + 1}} ELSE {{}}

\* The sets of edges that a source's policy may select for its n-th packet.
Selections(ctx, n) ==
    LET edges == DOMAIN ctx.forward
    IN  CASE ctx.forward_policy = "broadcast"  -> {edges}
          [] ctx.forward_policy = "anycast"    -> {{i} : i \in edges}
          [] ctx.forward_policy = "roundrobin" ->
                {{(n % Len(ctx.forward)) + 1}}
          [] OTHER                             -> {{}}

\* Of these, the edges whose target has a context: the others are skipped.
Live(t, s, chosen) == {i \in chosen : t[s].forward[i] \in Known(t)}

\* Mutant of Copies: to the descriptor of the source.
CopiesToSource(t, s, sent) ==
    {[fd |-> t[s].bound_fd, from |-> s, to |-> t[s].forward[i],
      edge |-> i] : i \in sent}
Copies(t, s, sent) ==
    {[fd |-> t[t[s].forward[i]].bound_fd, from |-> s, to |-> t[s].forward[i],
      edge |-> i] : i \in sent}

CountIn(t, s) == [t EXCEPT ![s].packets_in = @ + 1]

CountOut(t, s, sent) ==
    [a \in Known(t) |-> [t[a] EXCEPT !.packets_out =
        @ + Cardinality({i \in sent : t[s].forward[i] = a})]]

\* Mutant: broadcast too starts at a remainder by the size of the list.
DividesAlways(ctx) == ctx.forward_policy # "bad"

\* anycast and round robin divide by the size of the forward list.
Divides(ctx) == ctx.forward_policy \in {"anycast", "roundrobin"}

-----------------------------------------------------------------------------
(* The handlers.                                                           *)

\* A write may end the process: nothing in the router handles SIGPIPE.
Written(out) ==
    /\ emitted' = out
    /\ status' \in IF out = {} THEN {"running"} ELSE {"running", "sigpipe"}

\* Mutant: a client that claims an address of its own choice gets no reply.
NewAddressUnanswered(fd, p) ==
    /\ p.kind = "new_address"
    /\ \E a \in (IF p.address = AnyAddress THEN RandomAddr ELSE {p.address}) :
          /\ address_table' = Bind(address_table, a, fd)
          /\ claims' = claims \cup {<<fd, a>>}
          /\ Written(IF p.address = AnyAddress
                     THEN {[fd |-> fd, from |-> a, to |-> a, edge |-> 0]} ELSE {})
    /\ UNCHANGED picks

NewAddress(fd, p) ==
    /\ p.kind = "new_address"
    /\ \E a \in (IF p.address = AnyAddress THEN RandomAddr ELSE {p.address}) :
          /\ address_table' = Bind(address_table, a, fd)
          /\ claims' = claims \cup {<<fd, a>>}
          /\ Written({[fd |-> fd, from |-> a, to |-> a, edge |-> 0]})
    /\ UNCHANGED picks

Connect(p) ==
    /\ p.kind = "connect"
    /\ Len(WithContext(address_table, p.source)[p.source].forward) < MaxEdges
    /\ address_table' = Link(address_table, p.source, p.target)
    /\ picks' = [picks EXCEPT ![p.source] = <<>>]
    /\ Written({})
    /\ UNCHANGED claims

\* The name of the policy is looked up without a bound: beyond its last entry
\* the log call is given whatever pointer lies behind the array.
SetPolicy(p) ==
    /\ p.kind = "policy"
    /\ p.target \in Known(address_table)
    /\ address_table' = WithPolicy(address_table, p.target, p.policy)
    /\ picks' = [picks EXCEPT ![p.target] = <<>>]
    /\ emitted' = {}
    /\ status' \in IF p.policy = "bad" THEN {"running", "undefined"}
                   ELSE {"running"}
    /\ UNCHANGED claims

\* Everything that leaves the table as it was: a policy for an unknown address,
\* the directives with no handler, and data from an unknown source when the
\* lookup stays inside the flag array of the table.
Ignored(p) ==
    /\ \/ p.kind = "other"
       \/ p.kind = "policy" /\ p.target \notin Known(address_table)
       \/ /\ p.kind = "data" /\ p.source \notin Known(address_table)
          /\ Known(address_table) # {}
    /\ Written({})
    /\ UNCHANGED <<address_table, claims, picks>>

\* kh_exist on kh_end: it dereferences the NULL flags of an empty table, and
\* reads past the flag array of a table of sixteen buckets or more.  If what it
\* finds there looks like a live bucket, a context past the end is used.
BadLookup(p) ==
    /\ p.kind = "data"
    /\ p.source \notin Known(address_table)
    /\ \/ Known(address_table) = {} /\ status' = "segv"
       \/ /\ Cardinality(Known(address_table)) > SmallTable
          /\ status' = "undefined"
    /\ emitted' = {}
    /\ UNCHANGED <<address_table, claims, picks>>

DivideByZero(p) ==
    /\ p.kind = "data"
    /\ p.source \in Known(address_table)
    /\ Divides(address_table[p.source])
    /\ address_table[p.source].forward = <<>>
    /\ address_table[p.source].packets_in < MaxPackets
    /\ address_table' = CountIn(address_table, p.source)
    /\ status' = "fpe"
    /\ emitted' = {}
    /\ UNCHANGED <<claims, picks>>

Forward(p) ==
    /\ p.kind = "data"
    /\ p.source \in Known(address_table)
    /\ address_table[p.source].packets_in < MaxPackets
    /\ Divides(address_table[p.source]) =>
          address_table[p.source].forward # <<>>
    /\ LET s   == p.source
           t   == CountIn(address_table, s)
       IN  \E chosen \in Selections(t[s], t[s].packets_in) :
              LET sent == Live(t, s, chosen)
              IN  /\ address_table' = CountOut(t, s, sent)
                  /\ Written(Copies(t, s, sent))
                  /\ picks' = IF t[s].forward_policy = "roundrobin"
                              THEN [picks EXCEPT ![s] =
                                      Append(@, CHOOSE i \in chosen : TRUE)]
                              ELSE picks
    /\ UNCHANGED claims

HandlePacket(fd, p) ==
    /\ status = "running"
    /\ handled' = p
    /\ \/ NewAddress(fd, p)
       \/ Connect(p)
       \/ SetPolicy(p)
       \/ Ignored(p)
       \/ BadLookup(p)
       \/ DivideByZero(p)
       \/ Forward(p)

\* The process ends outside handle_packet, on an assertion of the poll loop.
AssertFails ==
    /\ status = "running"
    /\ status' = "assert"
    /\ UNCHANGED <<address_table, handled, emitted, claims, picks>>

Init ==
    /\ address_table = [a \in {} |-> NewContext]
    /\ handled = NoPacket
    /\ emitted = {}
    /\ status = "running"
    /\ claims = {}
    /\ picks = [a \in Addr |-> <<>>]

Next ==
    \/ \E fd \in Fd, p \in Input : HandlePacket(fd, p)
    \/ AssertFails

Spec == Init /\ [][Next]_vars

-----------------------------------------------------------------------------
(* What the table promises.                                                *)

TypeOK ==
    /\ Known(address_table) \subseteq Addr
    /\ address_table \in [Known(address_table) -> Context]
    /\ handled \in Packet \cup {NoPacket}
    /\ emitted \subseteq Emission
    /\ status \in {"running"} \cup Fault
    /\ claims \subseteq Fd \X Addr
    /\ picks \in [Addr -> Seq(Nat)]

(***************************************************************************)
(* Round robin takes turns: among any Len(forward) consecutive packets     *)
(* that a source sends while its edges and its policy stay the same, no    *)
(* two take the same edge, so each edge has carried exactly one of them.   *)
(* The code has no cursor: it reuses packets_in, which packets handled     *)
(* under other policies advance too (GraphRouter.c:471-472).               *)
(***************************************************************************)
RoundRobinTakesTurns ==
    \A a \in Known(address_table) :
        \A i, j \in DOMAIN picks[a] :
            (i < j /\ j - i < Len(address_table[a].forward))
                => picks[a][i] # picks[a][j]

\* Why: the picks of a source are the counts of its packets, one by one.
TurnsInv ==
    \A a \in Addr : picks[a] # <<>> =>
        /\ a \in Known(address_table)
        /\ LET ctx == address_table[a]
               k   == Len(ctx.forward)
               m   == Len(picks[a])
           IN  /\ ctx.forward_policy = "roundrobin" /\ k > 0
               /\ m <= ctx.packets_in
               /\ \A i \in 1..m :
                    picks[a][i] = ((ctx.packets_in - (m - i)) % k) + 1

(***************************************************************************)
(* Every copy of a data packet goes along an edge of its source, to the    *)
(* descriptor that the edge's target is bound to, which has claimed that   *)
(* address (or to no descriptor at all); a reply goes to the claimant.     *)
(***************************************************************************)
CopiesFollowEdges ==
    \A e \in emitted :
        /\ {e.from, e.to} \subseteq Known(address_table)
        /\ e.edge # 0 => /\ e.edge \in DOMAIN address_table[e.from].forward
                         /\ address_table[e.from].forward[e.edge] = e.to
        /\ e.fd = address_table[e.to].bound_fd
        /\ e.fd # Unbound => <<e.fd, e.to>> \in claims

(***************************************************************************)
(* A context is bound to a descriptor that claimed its address, or to none *)
(* - never to one that was not set when a CONNECT made the context.        *)
(***************************************************************************)
BoundIsClaimed ==
    \A a \in Known(address_table) :
        LET fd == address_table[a].bound_fd
        IN  fd # Unbound => <<fd, a>> \in claims

(***************************************************************************)
(* The table only grows: no packet removes an address, takes an edge away, *)
(* reorders the edges of a source (round robin counts on their order), or  *)
(* leaves a claimed address without an owner.                              *)
(***************************************************************************)
TableGrows ==
    \A a \in Known(address_table) :
        /\ a \in Known(address_table')
        /\ IsPrefix(address_table[a].forward, address_table'[a].forward)
        /\ address_table[a].bound_fd # Unbound =>
              address_table'[a].bound_fd # Unbound

TableOnlyGrows == [][TableGrows]_vars

=============================================================================
